------------------------- MODULE RegistrationProofs -------------------------
(***************************************************************************)
(* Theorems about Registration, for any number of forms, clicks, client    *)
(* processes and crashes: its types, that a reply is taken for the answer  *)
(* to the message it answers, and that an account a client is told of      *)
(* exists.                                                                 *)
(***************************************************************************)
EXTENDS Registration, TLAPS

(* Neither property is inductive alone: both speak of what users were told *)
(* and follow from what is on its way, in the sockets and in the server.   *)

\* The message under each id has that id, and 0 is the id of GetInfo for ever.
TableKeyed ==
    /\ fMessageTable[0] = GetInfo
    /\ \A id \in MsgID : fMessageTable[id] # None => fMessageTable[id].id = id

\* A request is from this client or an earlier one.  This client still has it
\* in its table; a registration that was sent never has the id 0.
Sent(d, client, table) ==
    /\ d.start <= client
    /\ d.msg.code = "registration" => d.msg.id # 0
    /\ d.start = client => table[d.msg.id] = d.msg

\* The account a reply speaks of exists.
Exists(r, accounts) ==
    r.isSet /\ r.userID # 0 => r.userID \in IDsOf(r.userPP, accounts)

RequestsSent ==
    \A i \in DOMAIN requests : Sent(requests[i], start, fMessageTable)

RepliesTrue ==
    \A i \in DOMAIN replies :
        Sent(replies[i].to, start, fMessageTable) /\ Exists(replies[i], user_info)

ResponseTrue ==
    response # None =>
        /\ requests # << >>
        /\ Sent(response.to, start, fMessageTable)
        /\ Exists(response, user_info)

IInv ==
    /\ TypeOK
    /\ TableKeyed
    /\ RequestsSent
    /\ RepliesTrue
    /\ ResponseTrue
    /\ DispatchedAsSent
    /\ ToldAccountExists

-----------------------------------------------------------------------------
\* GetInfo is a message of every client, under an id that every table has.
LEMMA GetInfoType ==
    /\ 0 \in MsgID
    /\ GetInfo \in MessageSet
    /\ NewTable \in [MsgID -> MessageSet \cup {None}]
    /\ NewTable[0] = GetInfo
  BY RegistrationAssumption DEF MsgID, GetInfo, MessageSet, NewTable

\* In a new table only GetInfo has an id.
LEMMA NewTableKeyed ==
    /\ NewTable[0] = GetInfo
    /\ \A id \in MsgID : NewTable[id] # None => NewTable[id].id = id
  BY GetInfoType DEF NewTable, GetInfo

\* A queue to which a datagram may have come holds what it held, and perhaps
\* the datagram.
LEMMA ArrivesLemma ==
    ASSUME NEW S, NEW q \in Seq(S), NEW m \in S, NEW r \in Arrives(q, m)
    PROVE  /\ r \in Seq(S)
           /\ q # << >> => r # << >>
           /\ \A i \in DOMAIN r : (i \in DOMAIN q /\ r[i] = q[i]) \/ r[i] = m
<1>1. CASE r = q
  BY <1>1
<1>2. CASE r = Append(q, m)
  BY <1>2
<1> QED
  BY <1>1, <1>2 DEF Arrives

\* A queue from which the head was taken holds what it held.
LEMMA TailLemma ==
    ASSUME NEW S, NEW q \in Seq(S), q # << >>
    PROVE  /\ Head(q) \in S /\ Head(q) = q[1] /\ 1 \in DOMAIN q
           /\ Tail(q) \in Seq(S)
           /\ \A i \in DOMAIN Tail(q) : i + 1 \in DOMAIN q /\ Tail(q)[i] = q[i + 1]
  OBVIOUS

LEMMA InitIInv == Init => IInv
<1> SUFFICES ASSUME Init PROVE IInv
  OBVIOUS
<1> DEFINE d == From(GetInfo, 1)
<1>1. d \in RequestSet /\ d.msg = GetInfo /\ d.start = 1
  BY GetInfoType, RegistrationAssumption DEF From, RequestSet
<1>2. /\ requests \in Seq(RequestSet)
      /\ \A i \in DOMAIN requests : requests[i] = d
  <2>1. requests = << >> \/ requests = << d >>
    BY DEF Init, Arrives
  <2>2. d \in RequestSet
    BY <1>1
  <2> HIDE DEF d
  <2>3. CASE requests = << >>
    BY <2>3
  <2>4. CASE requests = << d >>
    BY <2>2, <2>4
  <2> QED
    BY <2>1, <2>3, <2>4
<1>3. TypeOK
  BY <1>2, GetInfoType, RegistrationAssumption DEF Init, TypeOK, MsgID, Second
<1>4. TableKeyed
  BY NewTableKeyed DEF Init, TableKeyed
<1>5. Sent(d, start, fMessageTable)
  BY <1>1, GetInfoType DEF Init, Sent, GetInfo
<1> QED
  BY <1>2, <1>3, <1>4, <1>5
  DEF Init, IInv, RequestsSent, RepliesTrue, ResponseTrue, DispatchedAsSent,
      ToldAccountExists

-----------------------------------------------------------------------------
\* A registration is asked for: the id is fresh, or nothing is sent.
LEMMA DealRegisterIInv ==
    ASSUME IInv, NEW f \in Form, dealRegister(f)
    PROVE  IInv'
<1> DEFINE m == Registration(f)
           d == From(m, start)
<1> USE DEF IInv
<1>1. m.id = g_messageCounter /\ m.id \in MsgID /\ m \in MessageSet
  BY DEF Registration, TypeOK, MessageSet
<1>2. d \in RequestSet /\ d.msg = m /\ d.start = start
  BY <1>1 DEF From, RequestSet, TypeOK
<1>3. g_messageCounter' \in MsgID
  BY RegistrationAssumption DEF dealRegister, TypeOK, MsgID
<1> HIDE DEF m, d
<1>4. UNCHANGED <<start, fUserID, fUserPP, told, replies, response, now, crashes,
                  user_info>>
  BY DEF dealRegister, serverVars
<1>5. CASE UNCHANGED <<fMessageTable, requests>>
  BY <1>3, <1>4, <1>5
  DEF TypeOK, TableKeyed, RequestsSent, RepliesTrue, ResponseTrue,
      DispatchedAsSent, ToldAccountExists
<1>6. CASE /\ fMessageTable[m.id] = None
           /\ fMessageTable' = [fMessageTable EXCEPT ![m.id] = m]
           /\ requests' \in Arrives(requests, d)
  <2>1. m.id # 0
    BY <1>6, GetInfoType, NoneIsNoMessage DEF TableKeyed
  <2>2. /\ requests' \in Seq(RequestSet)
        /\ requests # << >> => requests' # << >>
        /\ \A i \in DOMAIN requests' :
               (i \in DOMAIN requests /\ requests'[i] = requests[i]) \/ requests'[i] = d
    BY <1>2, <1>6, ArrivesLemma DEF TypeOK
  <2>3. fMessageTable' \in [MsgID -> MessageSet \cup {None}]
    BY <1>1, <1>6 DEF TypeOK
  <2>4. TypeOK'
    BY <1>3, <1>4, <2>2, <2>3 DEF TypeOK
  <2>5. TableKeyed'
    BY <1>1, <1>6, <2>1 DEF TableKeyed, TypeOK
  <2>6. ASSUME NEW e \in RequestSet, Sent(e, start, fMessageTable)
        PROVE  Sent(e, start', fMessageTable')
    <3>1. CASE e.msg.id = m.id
      <4>1. e.start # start
        BY <1>6, <2>6, <3>1, NoneIsNoMessage DEF Sent, RequestSet
      <4> QED
        BY <1>4, <2>6, <4>1 DEF Sent
    <3>2. CASE e.msg.id # m.id
      BY <1>4, <1>6, <2>6, <3>2 DEF Sent, TypeOK
    <3> QED
      BY <3>1, <3>2
  <2>7. Sent(d, start', fMessageTable')
    BY <1>1, <1>2, <1>4, <1>6, <2>1 DEF Sent, TypeOK
  <2>8. RequestsSent'
    BY <2>2, <2>6, <2>7 DEF RequestsSent, TypeOK
  <2>9. RepliesTrue'
    <3> SUFFICES ASSUME NEW i \in DOMAIN replies
                 PROVE  Sent(replies[i].to, start', fMessageTable')
      BY <1>4 DEF RepliesTrue
    <3>1. replies[i] \in ReplySet
      BY DEF TypeOK
    <3>2. replies[i].to \in RequestSet
      BY <3>1 DEF ReplySet
    <3> QED
      BY <2>6, <3>2 DEF RepliesTrue
  <2>10. ResponseTrue'
    BY <1>4, <2>2, <2>6 DEF ResponseTrue, TypeOK, ReplySet
  <2>11. (DispatchedAsSent /\ ToldAccountExists)'
    BY <1>4 DEF DispatchedAsSent, ToldAccountExists
  <2> QED
    BY <2>4, <2>5, <2>8, <2>9, <2>10, <2>11
<1> QED
  BY <1>5, <1>6 DEF dealRegister, SendMessageWithKeepTrac, m, d

\* The answer to a registration is looked up in the table.
LEMMA ReadPendingDatagramsIInv ==
    ASSUME IInv, readPendingDatagrams
    PROVE  IInv'
<1> DEFINE r == Head(replies)
           sent == fMessageTable[r.to.msg.id]
           t == Succeeded(r)
<1> USE DEF IInv
<1>1. /\ UNCHANGED <<start, g_messageCounter, fMessageTable, requests, response,
                     now, crashes, user_info>>
      /\ replies' = Tail(replies)
  BY DEF readPendingDatagrams, serverVars
<1>2. /\ r \in ReplySet /\ replies' \in Seq(ReplySet)
      /\ Sent(r.to, start, fMessageTable) /\ Exists(r, user_info)
      /\ \A i \in DOMAIN replies' :
             i + 1 \in DOMAIN replies /\ replies'[i] = replies[i + 1]
  BY <1>1, TailLemma DEF readPendingDatagrams, TypeOK, RepliesTrue
<1>3. /\ r.to \in RequestSet /\ r.to.msg \in MessageSet /\ r.to.msg.id \in MsgID
      /\ r.userID \in Nat /\ r.userPP \in 0 .. MaxSeconds
  BY <1>2, GetInfoType DEF ReplySet, RequestSet, MessageSet, GetInfo
<1>4. TableKeyed' /\ RequestsSent' /\ ResponseTrue'
  BY <1>1 DEF TableKeyed, RequestsSent, ResponseTrue
<1>5. RepliesTrue'
  BY <1>1, <1>2 DEF RepliesTrue
<1>6. CASE UNCHANGED <<fUserID, fUserPP, told>>
  BY <1>1, <1>2, <1>4, <1>5, <1>6
  DEF TypeOK, DispatchedAsSent, ToldAccountExists
<1>7. CASE /\ sent # None /\ sent.code = "registration"
           /\ fUserID' = r.userID /\ fUserPP' = r.userPP
           /\ told' = told \cup {t}
  <2>1. sent \in MessageSet /\ r.to.msg.id # 0
    BY <1>3, <1>7 DEF TypeOK, TableKeyed, GetInfo
  <2>2. /\ t \in [reply : ReplySet, sent : MessageSet, start : 1 .. MaxStarts]
        /\ t.reply = r /\ t.sent = sent /\ t.start = start
    BY <1>2, <2>1 DEF Succeeded, TypeOK
  <2>3. t.reply.to.msg.code = "registration"
    BY <1>3, <2>1, <2>2 DEF MessageSet, GetInfo
  <2>4. t.reply.to.start = t.start => t.reply.to.msg = t.sent
    BY <1>2, <2>2 DEF Sent
  <2> HIDE DEF t, r, sent
  <2>5. TypeOK'
    BY <1>1, <1>2, <1>3, <1>7, <2>2 DEF TypeOK
  <2>6. DispatchedAsSent'
    BY <1>7, <2>3, <2>4 DEF DispatchedAsSent
  <2>7. ToldAccountExists'
    BY <1>1, <1>2, <1>7, <2>2 DEF ToldAccountExists, Exists
  <2> QED
    BY <1>4, <1>5, <2>5, <2>6, <2>7
<1> QED
  BY <1>6, <1>7 DEF readPendingDatagrams

\* A new client has sent nothing but GetInfo.
LEMMA RestartClientIInv ==
    ASSUME IInv, RestartClient
    PROVE  IInv'
<1> DEFINE d == From(GetInfo, start + 1)
<1> USE DEF IInv
<1>1. /\ start' = start + 1 /\ start' \in 1 .. MaxStarts
      /\ g_messageCounter' = 0 /\ fMessageTable' = NewTable
      /\ fUserID' = 0 /\ fUserPP' = 0
      /\ replies' = << >>
      /\ requests' \in Arrives(requests, d)
      /\ UNCHANGED <<told, response, now, crashes, user_info>>
  BY RegistrationAssumption DEF RestartClient, TypeOK, serverVars
<1>2. d \in RequestSet /\ d.msg = GetInfo /\ d.start = start + 1
  BY <1>1, GetInfoType DEF From, RequestSet
<1> HIDE DEF d
<1>3. /\ requests' \in Seq(RequestSet)
      /\ requests # << >> => requests' # << >>
      /\ \A i \in DOMAIN requests' :
             (i \in DOMAIN requests /\ requests'[i] = requests[i]) \/ requests'[i] = d
  BY <1>1, <1>2, ArrivesLemma DEF TypeOK
<1>4. ASSUME NEW e \in RequestSet, Sent(e, start, fMessageTable)
      PROVE  Sent(e, start', fMessageTable')
  BY <1>1, <1>4 DEF Sent, RequestSet, TypeOK
<1>5. Sent(d, start', fMessageTable')
  BY <1>1, <1>2, GetInfoType DEF Sent, GetInfo
<1>6. TypeOK'
  BY <1>1, <1>3, GetInfoType, RegistrationAssumption DEF TypeOK, MsgID
<1>7. TableKeyed'
  BY <1>1, NewTableKeyed DEF TableKeyed
<1>8. RequestsSent'
  BY <1>3, <1>4, <1>5 DEF RequestsSent, TypeOK
<1>9. RepliesTrue'
  BY <1>1 DEF RepliesTrue
<1>10. ResponseTrue'
  BY <1>1, <1>3, <1>4 DEF ResponseTrue, TypeOK, ReplySet
<1>11. (DispatchedAsSent /\ ToldAccountExists)'
  BY <1>1 DEF DispatchedAsSent, ToldAccountExists
<1> QED
  BY <1>6, <1>7, <1>8, <1>9, <1>10, <1>11

-----------------------------------------------------------------------------
\* An account is made at the end of user_info, so what existed still does.
LEMMA InsertedLemma ==
    ASSUME TypeOK, NEW f \in Form
    PROVE  /\ Inserted(f) \in Seq([pp : Second, form : Form])
           /\ \A pp : IDsOf(pp, user_info) \subseteq IDsOf(pp, Inserted(f))
           /\ IDsOf(NewPP, Inserted(f)) \subseteq Nat
           /\ NewPP \in 0 .. MaxSeconds
  BY DEF TypeOK, Inserted, IDsOf, NewPP, Second

\* What the server makes of a registration.
LEMMA ServeIInv ==
    ASSUME IInv,
           UNCHANGED <<clientVars, requests, replies, now, crashes>>,
           requests # << >>,
           NEW id \in Nat, NEW pp \in 0 .. MaxSeconds, NEW isSet \in BOOLEAN,
           response' = Reply(Head(requests), id, pp, isSet),
           user_info' \in Seq([pp : Second, form : Form]),
           \A p : IDsOf(p, user_info) \subseteq IDsOf(p, user_info'),
           isSet /\ id # 0 => id \in IDsOf(pp, user_info')
    PROVE  IInv'
<1> USE DEF IInv
<1>1. UNCHANGED <<start, g_messageCounter, fMessageTable, fUserID, fUserPP, told,
                  requests, replies, now, crashes>>
  BY DEF clientVars
<1>2. Head(requests) \in RequestSet /\ Sent(Head(requests), start, fMessageTable)
  BY TailLemma DEF TypeOK, RequestsSent
<1>3. /\ response' \in ReplySet
      /\ response'.to = Head(requests) /\ response'.userID = id
      /\ response'.userPP = pp /\ response'.isSet = isSet
  BY <1>2 DEF Reply, ReplySet
<1>4. \A r : Exists(r, user_info) => Exists(r, user_info')
  BY DEF Exists
<1>5. TypeOK'
  BY <1>1, <1>3 DEF TypeOK
<1>6. TableKeyed' /\ RequestsSent' /\ DispatchedAsSent'
  BY <1>1 DEF TableKeyed, RequestsSent, DispatchedAsSent
<1>7. RepliesTrue'
  BY <1>1, <1>4 DEF RepliesTrue
<1>8. ResponseTrue'
  BY <1>1, <1>2, <1>3 DEF ResponseTrue, Exists
<1>9. ToldAccountExists'
  BY <1>1 DEF ToldAccountExists
<1> QED
  BY <1>5, <1>6, <1>7, <1>8, <1>9

\* The database makes the account, refuses it, or fails.
LEMMA RegistrationIInv ==
    ASSUME IInv, user_registration_info
    PROVE  IInv'
<1> DEFINE d == Head(requests)
           f == d.msg.form
<1> USE DEF IInv
<1>1. /\ requests # << >> /\ d.msg.code = "registration"
      /\ UNCHANGED <<clientVars, requests, replies, now, crashes>>
  BY DEF user_registration_info
<1>2. d \in RequestSet
  BY <1>1, TailLemma DEF TypeOK
<1>3. f \in Form
  BY <1>1, <1>2 DEF RequestSet, MessageSet, GetInfo
<1> HIDE DEF f
<1>4. /\ Inserted(f) \in Seq([pp : Second, form : Form])
      /\ \A pp : IDsOf(pp, user_info) \subseteq IDsOf(pp, Inserted(f))
      /\ IDsOf(NewPP, Inserted(f)) \subseteq Nat
      /\ NewPP \in 0 .. MaxSeconds
  BY <1>3, InsertedLemma
<1>5. user_info \in Seq([pp : Second, form : Form])
  BY DEF TypeOK
<1>6. CASE Insert(f)
  <2>1. PICK id \in IDsOf(NewPP, Inserted(f)) :
            response' = Reply(d, id, NewPP, TRUE)
    BY <1>6 DEF Insert, Respond
  <2> QED
    BY <1>1, <1>4, <1>6, <2>1, ServeIInv DEF Insert
<1>7. CASE Refuse(f)
  BY <1>1, <1>4, <1>5, <1>7, ServeIInv DEF Refuse, Respond
<1>8. CASE ExecuteFails(f)
  BY <1>1, <1>4, <1>5, <1>8, ServeIInv DEF ExecuteFails, Respond, MaybeInserted
<1>9. CASE OutputsUnset(f)
  <2>1. PICK id \in 0 .. Len(user_info), pp \in 0 .. MaxSeconds :
            response' = Reply(d, id, pp, FALSE)
    BY <1>9 DEF OutputsUnset
  <2>2. id \in Nat
    BY <1>5
  <2> QED
    BY <1>1, <1>4, <1>5, <1>9, <2>1, <2>2, ServeIInv DEF OutputsUnset, MaybeInserted
<1> QED
  BY <1>6, <1>7, <1>8, <1>9 DEF user_registration_info, f

\* The version of the server is asked for.
LEMMA ServerInfoIInv ==
    ASSUME IInv, ServerInfo
    PROVE  IInv'
<1>1. /\ requests # << >>
      /\ UNCHANGED <<clientVars, requests, replies, now, crashes>>
      /\ response' = Reply(Head(requests), 0, 0, TRUE)
      /\ user_info' = user_info
  BY DEF ServerInfo, Respond
<1>2. user_info \in Seq([pp : Second, form : Form]) /\ 0 \in 0 .. MaxSeconds
  BY RegistrationAssumption DEF IInv, TypeOK
<1> QED
  BY <1>1, <1>2, ServeIInv

\* The reply is sent.
LEMMA SendResponseIInv ==
    ASSUME IInv, SendResponse
    PROVE  IInv'
<1> USE DEF IInv
<1>1. /\ UNCHANGED <<start, g_messageCounter, fMessageTable, fUserID, fUserPP,
                     told, now, crashes, user_info>>
      /\ response # None /\ response' = None /\ requests # << >>
      /\ requests' = Tail(requests)
      /\ replies' \in Arrives(replies, response)
  BY DEF SendResponse, clientVars, ResponseTrue
<1>2. /\ response \in ReplySet
      /\ Sent(response.to, start, fMessageTable) /\ Exists(response, user_info)
  BY <1>1 DEF TypeOK, ResponseTrue
<1>3. /\ replies' \in Seq(ReplySet)
      /\ \A i \in DOMAIN replies' :
             \/ i \in DOMAIN replies /\ replies'[i] = replies[i]
             \/ replies'[i] = response
  BY <1>1, <1>2, ArrivesLemma DEF TypeOK
<1>4. /\ requests' \in Seq(RequestSet)
      /\ \A i \in DOMAIN requests' :
             i + 1 \in DOMAIN requests /\ requests'[i] = requests[i + 1]
  BY <1>1, TailLemma DEF TypeOK
<1>5. TypeOK'
  BY <1>1, <1>3, <1>4 DEF TypeOK
<1>6. RequestsSent'
  BY <1>1, <1>4 DEF RequestsSent
<1>7. RepliesTrue'
  BY <1>1, <1>2, <1>3 DEF RepliesTrue
<1>8. (TableKeyed /\ ResponseTrue /\ DispatchedAsSent /\ ToldAccountExists)'
  BY <1>1 DEF TableKeyed, ResponseTrue, DispatchedAsSent, ToldAccountExists
<1> QED
  BY <1>5, <1>6, <1>7, <1>8

\* The server crashes, or a second passes.
LEMMA CrashTickIInv ==
    ASSUME IInv, Crash \/ Tick
    PROVE  IInv'
<1> USE DEF IInv
<1>1. /\ UNCHANGED <<start, g_messageCounter, fMessageTable, fUserID, fUserPP,
                     told, replies, user_info>>
      /\ now' \in Second /\ crashes' \in 0 .. MaxCrashes
      /\ \/ requests' = << >> /\ response' = None
         \/ UNCHANGED <<requests, response>>
  <2>1. CASE Crash
    BY <2>1, RegistrationAssumption DEF Crash, clientVars, TypeOK
  <2>2. CASE Tick
    <3>1. now' \in Second
      BY <2>2, RegistrationAssumption DEF Tick, TypeOK, Second
    <3> QED
      BY <2>2, <3>1 DEF Tick, clientVars, TypeOK
  <2> QED
    BY <2>1, <2>2
<1>2. requests' \in Seq(RequestSet) /\ response' \in ReplySet \cup {None}
  <2>1. CASE requests' = << >> /\ response' = None
    BY <2>1
  <2>2. CASE UNCHANGED <<requests, response>>
    BY <2>2 DEF TypeOK
  <2> QED
    BY <1>1, <2>1, <2>2
<1>3. TypeOK'
  BY <1>1, <1>2 DEF TypeOK
<1> QED
  BY <1>1, <1>3
  DEF TableKeyed, RequestsSent, RepliesTrue, ResponseTrue, DispatchedAsSent,
      ToldAccountExists

LEMMA NextIInv ==
    ASSUME IInv, [Next]_vars
    PROVE  IInv'
<1>1. CASE Client
  BY <1>1, DealRegisterIInv, ReadPendingDatagramsIInv, RestartClientIInv DEF Client
<1>2. CASE Server
  BY <1>2, RegistrationIInv, ServerInfoIInv, SendResponseIInv, CrashTickIInv DEF Server
<1>3. CASE Tick
  BY <1>3, CrashTickIInv
<1>4. CASE UNCHANGED vars
  <2>1. UNCHANGED <<start, g_messageCounter, fMessageTable, fUserID, fUserPP, told,
                    requests, replies, response, now, crashes, user_info>>
    BY <1>4 DEF vars, clientVars, serverVars
  <2>2. TypeOK'
    BY <2>1 DEF IInv, TypeOK
  <2> QED
    BY <2>1, <2>2
    DEF IInv, TableKeyed, RequestsSent, RepliesTrue, ResponseTrue,
        DispatchedAsSent, ToldAccountExists
<1> QED
  BY <1>1, <1>2, <1>3, <1>4 DEF Next

-----------------------------------------------------------------------------
LEMMA AlwaysIInv == Spec => []IInv
<1>1. IInv /\ [Next]_vars => IInv'
  BY NextIInv
<1> QED
  BY <1>1, InitIInv, PTL DEF Spec

\* Every variable of Registration holds a value of its type, for any bounds.
THEOREM TypeCorrect == Spec => []TypeOK
<1>1. IInv => TypeOK
  BY DEF IInv
<1> QED
  BY <1>1, AlwaysIInv, PTL

\* Only the reply to a registration is shown as one, and it is the reply to
\* the registration that this client sent, if it answers this client: the
\* look-up by message id in readPendingDatagrams never mixes up two messages
\* of one client, although both of its counters start from 0.
THEOREM AlwaysDispatchedAsSent == Spec => []DispatchedAsSent
<1>1. IInv => DispatchedAsSent
  BY DEF IInv
<1> QED
  BY <1>1, AlwaysIInv, PTL

\* A user id other than 0 that user_registration_info has set is that of an
\* account with the PP number the user was told, whatever was lost, restarted
\* or failed in between.
THEOREM AlwaysToldAccountExists == Spec => []ToldAccountExists
<1>1. IInv => ToldAccountExists
  BY DEF IInv
<1> QED
  BY <1>1, AlwaysIInv, PTL

=============================================================================
