---------------------------- MODULE MCUserRecord ----------------------------
EXTENDS UserRecord

\* Attribute 1 is a string, as nickname, and so on: one of each kind.
MCKind == <<"string", "int64", "uint32", "bytes", "uint64", "float", "int32">>

\* 97 is one byte, 21517 three; integers have 3 and 5 bits, so that the highest
\* bit is set in some.  A message has 94 bytes, two more for each character and
\* one for each byte: the fourth form has a text that no column takes and just
\* goes into a datagram, the last has one byte too many.
MCForm ==
    { << <<97, 21517>>, <<1>>,  <<7>>, <<240>>,        <<16>>, <<0>>, <<4>> >>,
      << <<97, 98, 99>>, <<31>>, <<3>>, <<1, 10, 255>>, <<15>>, <<3>>, <<0>> >>,
      << << >>, <<16>>, <<4>>, << >>, <<31>>, <<0>>, <<7>> >>,
      << <<97, 98, 99, 100, 101, 102, 103>>, <<1>>, <<7>>, <<9>>, <<0>>, <<0>>, <<3>> >>,
      << <<97, 98, 99, 100, 101, 102>>, <<1>>, <<7>>, <<9, 9, 9, 9>>, <<0>>, <<0>>, <<3>> >> }

MCUnsignedColumn == {5}
=============================================================================
