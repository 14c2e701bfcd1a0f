---------------------------- MODULE Registration ----------------------------
(***************************************************************************)
(* Registration of a user, end to end: the ids P2ChatClient gives to its   *)
(* messages and the table in which it keeps what it sent, UDP on the local *)
(* host, user_registration_info on the server, and the table user_info.    *)
(*                                                                         *)
(* UdpReactor shows that the server takes requests one at a time and in    *)
(* order, so here it is one process.  The client and the server can be     *)
(* stopped and started again at any time; user_info stays.  Both ports are *)
(* fixed, so a client gets what was meant for the one before it.           *)
(***************************************************************************)
EXTENDS Naturals, Sequences

CONSTANTS
    Form,        \* what a user may fill in; forms differ in QQ and e-mail
    None,        \* no form, no message
    DBFails,     \* may a database operation fail for a reason of its own?
    MaxClicks,   \* bound: registrations asked of one client process
    MaxStarts,   \* bound: client processes
    MaxSeconds,  \* bound: the time
    MaxCrashes   \* bound: server crashes

ASSUME RegistrationAssumption ==
    /\ None \notin Form
    /\ DBFails \in BOOLEAN
    /\ MaxClicks \in Nat /\ MaxStarts \in Nat \ {0}
    /\ MaxSeconds \in Nat \ {0} /\ MaxCrashes \in Nat

VARIABLES
    (* the client *)
    start,             \* which client process this is
    g_messageCounter,  \* the counter of RegisterDialog.cpp
    fMessageTable,     \* the message sent under each id, or None
    fUserID, fUserPP,  \* the account the client was told of last
    told,              \* history: the successes it showed to its user
    (* UDP *)
    requests, replies, \* what waits at the server, and at the client
    (* the server *)
    response,          \* the reply to the first request, or None
    now,               \* time(0)
    crashes,           \* how often it crashed
    user_info          \* the accounts; the id of an account is its position

clientVars == <<start, g_messageCounter, fMessageTable, fUserID, fUserPP, told>>
serverVars == <<response, now, crashes, user_info>>
vars == <<clientVars, requests, replies, serverVars>>

MsgID == 0 .. MaxClicks
Second == 1 .. MaxSeconds

\* A datagram arrives, or is lost because a receive buffer is full.
Arrives(queue, m) == {queue, Append(queue, m)}

-----------------------------------------------------------------------------
(* The client                                                              *)

\* What ChatClient::ChatClient sends.  Its id comes from the g_messageCounter
\* of ChatClient.cpp, which is used this once: the variable is static in a
\* header, so that of RegisterDialog.cpp is another one.
GetInfo == [code |-> "info", id |-> 0, form |-> None]

MessageSet ==
    [code : {"registration"}, id : MsgID, form : Form] \cup {GetInfo}

ASSUME NoneIsNoMessage == None \notin MessageSet

Registration(f) ==
    [code |-> "registration", id |-> g_messageCounter, form |-> f]

\* The datagram.  The process it is from is not in it: the server cannot tell.
From(m, p) == [msg |-> m, start |-> p]

NewTable == [id \in MsgID |-> IF id = 0 THEN GetInfo ELSE None]

\* Mutant: a message takes the place of the one that has its id.
SendAlways(m) ==
    /\ fMessageTable' = [fMessageTable EXCEPT ![m.id] = m]
    /\ requests' \in Arrives(requests, From(m, start))

\* A message whose id is in the table is not sent.
SendMessageWithKeepTrac(m) ==
    IF fMessageTable[m.id] # None
    THEN UNCHANGED <<fMessageTable, requests>>
    ELSE /\ fMessageTable' = [fMessageTable EXCEPT ![m.id] = m]
         /\ requests' \in Arrives(requests, From(m, start))

dealRegister(f) ==
    /\ g_messageCounter < MaxClicks
    /\ g_messageCounter' = g_messageCounter + 1
    /\ SendMessageWithKeepTrac(Registration(f))
    /\ UNCHANGED <<start, fUserID, fUserPP, told, replies, serverVars>>

Succeeded(r) == [reply |-> r, sent |-> fMessageTable[r.to.msg.id], start |-> start]

\* readPendingDatagrams looks up what was sent under the id of the reply, and
\* does what that message asks for.
readPendingDatagrams ==
    /\ replies # << >>
    /\ replies' = Tail(replies)
    /\ LET r == Head(replies)
           sent == fMessageTable[r.to.msg.id]
       IN  IF sent # None /\ sent.code = "registration"
           THEN /\ fUserID' = r.userID
                /\ fUserPP' = r.userPP
                /\ told' = told \cup {Succeeded(r)}
           ELSE UNCHANGED <<fUserID, fUserPP, told>>
    /\ UNCHANGED <<start, g_messageCounter, fMessageTable, requests, serverVars>>

\* The client is closed, and another one started.  What its socket holds is
\* gone; what the server has not answered yet is not.
RestartClient ==
    /\ start < MaxStarts
    /\ start' = start + 1
    /\ g_messageCounter' = 0
    /\ fMessageTable' = NewTable
    /\ fUserID' = 0 /\ fUserPP' = 0
    /\ replies' = << >>
    /\ requests' \in Arrives(requests, From(GetInfo, start + 1))
    /\ UNCHANGED <<told, serverVars>>

-----------------------------------------------------------------------------
(* The server                                                              *)

\* The reply to d.  Of d itself only the id is in it; isSet, which is not in it
\* either, says whether the outputs of user_registration_info were assigned.
Reply(d, id, pp, isSet) ==
    [to |-> d, userID |-> id, userPP |-> pp, isSet |-> isSet]

\* The accounts with a PP number.
IDsOf(pp, accounts) == {id \in DOMAIN accounts : accounts[id].pp = pp}

\* Mutant: the PP number is counted in milliseconds.
NewPPMillis == now * 1000

\* The PP number is the time in seconds.
NewPP == now

Inserted(f) == Append(user_info, [pp |-> NewPP, form |-> f])

\* QQ and e-mail are unique in user_info.
IsTaken(f) == \E id \in DOMAIN user_info : user_info[id].form = f

Respond(id, pp) == response' = Reply(Head(requests), id, pp, TRUE)

\* The account is made, and its id is looked up by its PP number.
Insert(f) ==
    /\ ~IsTaken(f)
    /\ user_info' = Inserted(f)
    /\ \E id \in IDsOf(NewPP, Inserted(f)) : Respond(id, NewPP)

\* Mutant: a refused insert is followed by the look-up like any other.
RefuseLookUp(f) ==
    /\ IsTaken(f)
    /\ \E id \in DOMAIN user_info : user_info[id].form = f /\ Respond(id, NewPP)
    /\ UNCHANGED user_info

\* The database refuses the account.  user_registration_info returns true.
Refuse(f) ==
    /\ IsTaken(f)
    /\ Respond(0, NewPP)
    /\ UNCHANGED user_info

\* The accounts after an insert that is not known to have succeeded.
MaybeInserted(f) ==
    {user_info} \cup (IF IsTaken(f) THEN {} ELSE {Inserted(f)})

\* DBExecute reports an error.  If the connection broke, the account may have
\* been made.
ExecuteFails(f) ==
    /\ DBFails
    /\ Respond(0, NewPP)
    /\ user_info' \in MaybeInserted(f)

\* DBPrepare or DBSelect fails.  userID and userPP of Run() are then never
\* set, and the result of user_registration_info is not looked at.
OutputsUnset(f) ==
    /\ DBFails
    /\ \E id \in 0 .. Len(user_info), pp \in 0 .. MaxSeconds :
           response' = Reply(Head(requests), id, pp, FALSE)
    /\ user_info' \in MaybeInserted(f)

\* Run() up to the reply.
user_registration_info ==
    /\ requests # << >> /\ response = None
    /\ Head(requests).msg.code = "registration"
    /\ LET f == Head(requests).msg.form
       IN  Insert(f) \/ Refuse(f) \/ ExecuteFails(f) \/ OutputsUnset(f)
    /\ UNCHANGED <<clientVars, requests, replies, now, crashes>>

ServerInfo ==
    /\ requests # << >> /\ response = None
    /\ Head(requests).msg.code = "info"
    /\ Respond(0, 0)
    /\ UNCHANGED <<clientVars, requests, replies, now, crashes, user_info>>

\* A reply goes to the one client there is.
SendResponse ==
    /\ response # None
    /\ replies' \in Arrives(replies, response)
    /\ response' = None
    /\ requests' = Tail(requests)
    /\ UNCHANGED <<clientVars, now, crashes, user_info>>

Crash ==
    /\ crashes < MaxCrashes
    /\ crashes' = crashes + 1
    /\ requests' = << >>
    /\ response' = None
    /\ UNCHANGED <<clientVars, replies, now, user_info>>

Tick ==
    /\ now < MaxSeconds
    /\ now' = now + 1
    /\ UNCHANGED <<clientVars, requests, replies, response, crashes, user_info>>

-----------------------------------------------------------------------------
Init ==
    /\ start = 1
    /\ g_messageCounter = 0
    /\ fMessageTable = NewTable
    /\ fUserID = 0 /\ fUserPP = 0
    /\ told = {}
    /\ requests \in Arrives(<< >>, From(GetInfo, 1))
    /\ replies = << >>
    /\ response = None
    /\ now = 1
    /\ crashes = 0
    /\ user_info = << >>

Client ==
    \/ \E f \in Form : dealRegister(f)
    \/ readPendingDatagrams \/ RestartClient

Server == user_registration_info \/ ServerInfo \/ SendResponse \/ Crash

Next == Client \/ Server \/ Tick

Spec == Init /\ [][Next]_vars

-----------------------------------------------------------------------------
(* Properties                                                              *)

RequestSet == [msg : MessageSet, start : 1 .. MaxStarts]
ReplySet ==
    [to : RequestSet, userID : Nat, userPP : 0 .. MaxSeconds, isSet : BOOLEAN]

\* Every variable holds a value of its type.
TypeOK ==
    /\ start \in 1 .. MaxStarts
    /\ g_messageCounter \in MsgID
    /\ fMessageTable \in [MsgID -> MessageSet \cup {None}]
    /\ fUserID \in Nat /\ fUserPP \in 0 .. MaxSeconds
    /\ told \subseteq [reply : ReplySet, sent : MessageSet, start : 1 .. MaxStarts]
    /\ requests \in Seq(RequestSet)
    /\ replies \in Seq(ReplySet)
    /\ response \in ReplySet \cup {None}
    /\ now \in Second
    /\ crashes \in 0 .. MaxCrashes
    /\ user_info \in Seq([pp : Second, form : Form])

\* Only the reply to a registration is shown as a success, although the two
\* counters give the id 0 to two messages and a new client starts again from
\* 0; and it is the reply to that very registration, if it answers this client.
DispatchedAsSent ==
    \A t \in told :
        /\ t.reply.to.msg.code = "registration"
        /\ t.reply.to.start = t.start => t.reply.to.msg = t.sent

\* A user id that a client is told is that of an account with the PP number it
\* is told, whatever crashed, failed or was answered late: 0 is the only other
\* id, unless the outputs were never assigned.
ToldAccountExists ==
    \A t \in told :
        t.reply.isSet /\ t.reply.userID # 0
            => t.reply.userID \in IDsOf(t.reply.userPP, user_info)

\* RegisterDialog.cpp:24 tells the user "Congratulations! Registered, the PP
\* number is", so there is an account with that PP number.
SucceedRegister ==
    \A t \in told : IDsOf(t.reply.userPP, user_info) # {}

=============================================================================
