-------------------------- MODULE EventTableProofs --------------------------
(***************************************************************************)
(* Theorems about EventTable, for any number of events and ids: types, and *)
(* that neither wrapped ids nor ~Event, which unregisters by id, leave a   *)
(* deleted event in the table or take the listener out of it; that every   *)
(* socket is found as long as there are not more of them than ids, and     *)
(* that the event thread and the sessions have only live events so long.   *)
(***************************************************************************)
EXTENDS EventTable, FiniteSetTheorems, TLAPS

(* The inductive invariant.  An event may share its id with another, so    *)
(* what protects the table is that only a registered event is ever given a *)
(* session, and only a session deletes an event.                           *)

\* The event thread is about to call e, or a task refers to it or runs.
Held(e) == theEvent = e \/ sessions[e] > 0 \/ running = e

\* Winsock and the threads know only sockets on which RequestEvent was called,
\* and only such sockets were deleted.
Known ==
    /\ \A e \in armed \cup posted \cup freed : fEventID[e] \in EventID
    /\ \A e \in Event : theSocket = e \/ Held(e) => fEventID[e] \in EventID

\* An entry of the table is the event it was made for, and alive.
EntryIsLive ==
    \A id \in EventID : fEventTable[id] # None =>
        fEventID[fEventTable[id]] = id /\ fEventTable[id] \notin freed

\* An event that was found, until it is deleted, is the one registered under
\* its id, and the listener has no session.
HeldIsRegistered ==
    \A e \in Event :
        /\ Held(e) /\ e \notin freed => fEventTable[fEventID[e]] = e
        /\ sessions[e] > 0 \/ running = e => e # Listener

\* A task that runs is in its reference set until it is deleted, and it is the
\* one that deletes the event.
RunningTask ==
    /\ pc = "none" <=> running = None
    /\ running \notin freed
    /\ pc \in {"read", "close"} => sessions[running] > 0

ListenerRegistered == fEventID[Listener] \in EventID /\ ListenerStays

IInv ==
    /\ TypeOK
    /\ Known
    /\ EntryIsLive
    /\ HeldIsRegistered
    /\ RunningTask
    /\ ListenerRegistered

-----------------------------------------------------------------------------
\* An id that was given out is never mistaken for a missing one.
LEMMA NoIDIsNone == NoID \notin EventID
  BY IdAssumption DEF NoID, EventID

LEMMA NextIDType ==
    ASSUME TypeOK
    PROVE  NextID \in EventID
  BY IdAssumption DEF TypeOK, NextID, EventID

LEMMA InitIInv == Init => IInv
<1> SUFFICES ASSUME Init PROVE IInv
  OBVIOUS
<1>1. WM_USER + 1 \in EventID
  BY IdAssumption DEF EventID
<1>2. TypeOK
  <2>1. sessions \in [Event -> 0 .. MaxSessions]
    BY IdAssumption DEF Init
  <2> QED
    BY <1>1, <2>1, IdAssumption DEF Init, TypeOK
<1>3. Known /\ HeldIsRegistered
  <2>1. \A e \in Event : ~Held(e) /\ ~(sessions[e] > 0 \/ running = e)
    BY IdAssumption DEF Init, Held
  <2>2. \A e \in armed \cup posted \cup freed : e = Listener
    BY DEF Init
  <2>3. fEventID[Listener] \in EventID /\ theSocket = None
    BY <1>1, IdAssumption DEF Init
  <2> QED
    BY <2>1, <2>2, <2>3, IdAssumption DEF Known, HeldIsRegistered
<1>4. EntryIsLive /\ RunningTask
  BY <1>1, IdAssumption DEF Init, EntryIsLive, RunningTask
<1>5. ListenerRegistered
  BY <1>1, IdAssumption DEF Init, ListenerRegistered, ListenerStays
<1> QED
  BY <1>2, <1>3, <1>4, <1>5 DEF IInv

\* A step that leaves the ids, the table and the tasks alone, and names no
\* socket that was not known.
LEMMA SameTableIInv ==
    ASSUME IInv,
           UNCHANGED <<idVars, fEventTable, freed, taskVars>>,
           armed' \subseteq Event, posted' \subseteq Event,
           \A e \in armed' \cup posted' : e \in armed \cup posted,
           theSocket' = None \/ theSocket' \in armed \cup posted
               \/ theSocket' = theSocket,
           theEvent' \in {theEvent, None}
    PROVE  IInv'
<1> USE DEF IInv, idVars, taskVars
<1>1. TypeOK'
  BY DEF TypeOK
<1>2. \A e \in Event : Held(e)' => Held(e)
  BY IdAssumption DEF Held
<1>3. Known' /\ HeldIsRegistered'
  BY <1>2, IdAssumption DEF Known, HeldIsRegistered
<1>4. (EntryIsLive /\ RunningTask /\ ListenerRegistered)'
  BY DEF EntryIsLive, RunningTask, ListenerRegistered, ListenerStays
<1> QED
  BY <1>1, <1>3, <1>4

LEMMA NotifyIInv ==
    ASSUME IInv, NEW e \in Event, Notify(e)
    PROVE  IInv'
  BY SameTableIInv DEF Notify, IInv, TypeOK, threadVars

LEMMA WaitEventIInv ==
    ASSUME IInv, NEW e \in Event, WaitEvent(e)
    PROVE  IInv'
  BY SameTableIInv DEF WaitEvent, IInv, TypeOK

LEMMA LookUpIInv ==
    ASSUME IInv, LookUp
    PROVE  IInv'
<1> USE DEF IInv
<1>1. theSocket \in Event /\ fEventID[theSocket] \in EventID
  BY DEF LookUp, Known, TypeOK
<1>2. Handler(theSocket) \in Event \cup {None}
  BY <1>1 DEF Handler, TypeOK
<1>3. /\ theEvent' = Handler(theSocket)
      /\ theSocket' \in {None, theSocket}
      /\ UNCHANGED <<idVars, fEventTable, freed, armed, posted, taskVars>>
  BY DEF LookUp
<1>4. TypeOK'
  BY <1>2, <1>3 DEF TypeOK, idVars, taskVars
<1>5. \A e \in Event : theEvent' = e =>
          /\ fEventID[e] = fEventID[theSocket]
          /\ fEventTable[fEventID[e]] = e
  BY <1>1, <1>3, IdAssumption DEF Handler, EntryIsLive
<1>6. \A e \in Event : Held(e)' => theEvent' = e \/ Held(e)
  BY <1>3 DEF Held, taskVars
<1>7. Known' /\ HeldIsRegistered'
  BY <1>1, <1>3, <1>5, <1>6, IdAssumption
  DEF Known, HeldIsRegistered, idVars, taskVars
<1>8. (EntryIsLive /\ RunningTask /\ ListenerRegistered)'
  BY <1>3
  DEF EntryIsLive, RunningTask, ListenerRegistered, ListenerStays, idVars, taskVars
<1> QED
  BY <1>4, <1>7, <1>8

LEMMA NewSessionIInv ==
    ASSUME IInv, NewSession
    PROVE  IInv'
<1> USE DEF IInv
<1> DEFINE h == theEvent
<1>1. h \in Event /\ h # Listener /\ h \notin freed /\ Held(h)
  BY DEF NewSession, TypeOK, Held
<1>2. /\ sessions' = [sessions EXCEPT ![h] = @ + 1] /\ sessions[h] < MaxSessions
      /\ theSocket' = None /\ theEvent' = None
      /\ UNCHANGED <<idVars, fEventTable, freed, armed, posted, running, pc>>
  BY DEF NewSession, Processed
<1>3. TypeOK'
  <2>1. sessions' \in [Event -> 0 .. MaxSessions]
    BY <1>1, <1>2, IdAssumption DEF TypeOK
  <2> QED
    BY <1>2, <2>1 DEF TypeOK, idVars
<1>4. \A f \in Event : f # h => sessions'[f] = sessions[f]
  BY <1>1, <1>2 DEF TypeOK
<1>5. \A f \in Event : Held(f)' => Held(f)
  BY <1>1, <1>2, <1>4, IdAssumption DEF Held
<1>6. Known' /\ HeldIsRegistered'
  BY <1>1, <1>2, <1>4, <1>5, IdAssumption DEF Known, HeldIsRegistered, idVars
<1>7. RunningTask'
  <2>1. pc \in {"read", "close"} => running \in Event
    BY DEF RunningTask, TypeOK
  <2>2. \A f \in Event : sessions[f] > 0 => sessions'[f] > 0
    BY <1>1, <1>2, IdAssumption DEF TypeOK
  <2> QED
    BY <1>2, <2>1, <2>2 DEF RunningTask
<1>8. (EntryIsLive /\ ListenerRegistered)'
  BY <1>2 DEF EntryIsLive, ListenerRegistered, ListenerStays, idVars
<1> QED
  BY <1>3, <1>6, <1>7, <1>8

LEMMA AcceptClientIInv ==
    ASSUME IInv, NEW c \in Event, AcceptClient(c)
    PROVE  IInv'
<1> USE DEF IInv
<1>1. NextID \in EventID
  BY NextIDType
<1>2. /\ fEventID[c] = NoID
      /\ sEventID' = NextID
      /\ fEventID' = [fEventID EXCEPT ![c] = NextID]
      /\ fEventTable' = [fEventTable EXCEPT ![NextID] = IF @ = None THEN c ELSE @]
      /\ theSocket' = None /\ theEvent' = None
      /\ UNCHANGED <<freed, posted, taskVars>>
  BY DEF AcceptClient, RegisterEvent, Processed
<1>3. PICK new \in SUBSET {c} : armed' = armed \cup new \cup {Listener}
  BY DEF AcceptClient
<1>4. c # Listener /\ \A id \in EventID : fEventTable[id] # c
  BY <1>2, NoIDIsNone, IdAssumption
  DEF ListenerRegistered, EntryIsLive
<1>5. TypeOK'
  <2>1. /\ fEventID' \in [Event -> EventID \cup {NoID}]
        /\ fEventTable' \in [EventID -> Event \cup {None}]
    BY <1>1, <1>2 DEF TypeOK
  <2>2. armed' \subseteq Event
    BY <1>3, IdAssumption DEF TypeOK
  <2> QED
    BY <1>1, <1>2, <2>1, <2>2 DEF TypeOK, taskVars
<1>6. /\ fEventID'[c] = NextID
      /\ \A f \in Event : f # c => fEventID'[f] = fEventID[f]
  BY <1>2 DEF TypeOK
<1>7. ~Held(c) /\ c \notin freed
  BY <1>2, NoIDIsNone DEF Known
<1>8. \A f \in Event : Held(f)' => Held(f) /\ f # c
  BY <1>2, <1>7, IdAssumption DEF Held, taskVars
<1>9. Known'
  <2>1. \A f \in armed' \cup posted' \cup freed' :
            f \in Event /\ (f = c \/ f = Listener \/ f \in armed \cup posted \cup freed)
    BY <1>2, <1>3, IdAssumption DEF TypeOK
  <2>2. \A f \in armed' \cup posted' \cup freed' : fEventID'[f] \in EventID
    BY <1>1, <1>6, <2>1 DEF Known, ListenerRegistered
  <2>3. \A f \in Event : theSocket' = f \/ Held(f)' => fEventID'[f] \in EventID
    BY <1>2, <1>6, <1>8, IdAssumption DEF Known
  <2> QED
    BY <2>2, <2>3 DEF Known
<1>10. \A id \in EventID : fEventTable[id] # None => fEventTable'[id] = fEventTable[id]
  BY <1>1, <1>2 DEF TypeOK
<1>11. \A id \in EventID : fEventTable'[id] # fEventTable[id] => id = NextID /\ fEventTable'[id] = c
  BY <1>1, <1>2 DEF TypeOK
<1>12. EntryIsLive'
  <2> SUFFICES ASSUME NEW id \in EventID, fEventTable'[id] # None
               PROVE  /\ fEventID'[fEventTable'[id]] = id
                      /\ fEventTable'[id] \notin freed'
    BY DEF EntryIsLive
  <2>1. CASE fEventTable'[id] = fEventTable[id]
    BY <1>2, <1>4, <1>6, <2>1 DEF EntryIsLive, TypeOK
  <2>2. CASE fEventTable'[id] # fEventTable[id]
    BY <1>2, <1>6, <1>7, <1>11, <2>2
  <2> QED
    BY <2>1, <2>2
<1>13. HeldIsRegistered'
  <2>1. \A f \in Event : Held(f)' /\ f \notin freed' => fEventTable'[fEventID'[f]] = f
    BY <1>2, <1>6, <1>8, <1>10, IdAssumption DEF HeldIsRegistered, Known
  <2> QED
    BY <1>2, <2>1 DEF HeldIsRegistered, taskVars
<1>14. RunningTask'
  BY <1>2 DEF RunningTask, taskVars
<1>15. ListenerRegistered'
  BY <1>4, <1>6, <1>10, IdAssumption DEF ListenerRegistered, ListenerStays
<1> QED
  BY <1>5, <1>9, <1>12, <1>13, <1>14, <1>15

\* A task begins.
LEMMA RunIInv ==
    ASSUME IInv, NEW h \in Event, RunRead(h) \/ RunClose(h)
    PROVE  IInv'
<1> USE DEF IInv
<1>1. /\ running = None /\ sessions[h] > 0 /\ h \notin freed
      /\ running' = h /\ pc' \in {"read", "close"}
      /\ armed' \subseteq armed \cup {h}
      /\ UNCHANGED <<idVars, fEventTable, freed, posted, threadVars, sessions>>
  BY DEF RunRead, RunClose, StartTask
<1>2. Held(h) /\ \A f \in Event : Held(f)' => Held(f)
  BY <1>1 DEF Held, threadVars
<1>3. TypeOK'
  BY <1>1 DEF TypeOK, idVars, threadVars
<1>4. Known' /\ HeldIsRegistered'
  BY <1>1, <1>2 DEF Known, HeldIsRegistered, idVars, threadVars
<1>5. (EntryIsLive /\ RunningTask /\ ListenerRegistered)'
  BY <1>1, IdAssumption
  DEF EntryIsLive, RunningTask, ListenerRegistered, ListenerStays, idVars
<1> QED
  BY <1>3, <1>4, <1>5

\* It leaves the reference set of its event.
LEMMA DeleteTaskIInv ==
    ASSUME IInv, NEW h \in Event, DeleteTask(h)
    PROVE  IInv'
<1> USE DEF IInv
<1>1. /\ running = h /\ pc \in {"read", "close"} /\ sessions[h] > 0
      /\ sessions' = [sessions EXCEPT ![h] = @ - 1]
      /\ UNCHANGED <<idVars, fEventTable, freed, armed, posted, threadVars>>
  BY DEF DeleteTask, RunningTask
<1>2. \/ pc' = "delete" /\ running' = h
      \/ pc' = "none" /\ running' = None
  BY <1>1 DEF DeleteTask
<1>3. sessions' \in [Event -> 0 .. MaxSessions]
  BY <1>1, IdAssumption DEF TypeOK
<1>4. \A f \in Event : sessions'[f] > 0 => sessions[f] > 0
  BY <1>1, IdAssumption DEF TypeOK
<1>5. \A f \in Event : Held(f)' => Held(f)
  BY <1>1, <1>2, <1>4, IdAssumption DEF Held, threadVars
<1>6. TypeOK'
  BY <1>1, <1>2, <1>3 DEF TypeOK, idVars, threadVars
<1>7. Known' /\ HeldIsRegistered'
  BY <1>1, <1>2, <1>4, <1>5, IdAssumption
  DEF Known, HeldIsRegistered, idVars, threadVars
<1>8. (EntryIsLive /\ RunningTask /\ ListenerRegistered)'
  BY <1>1, <1>2, IdAssumption
  DEF EntryIsLive, RunningTask, ListenerRegistered, ListenerStays, idVars, TypeOK
<1> QED
  BY <1>6, <1>7, <1>8

\* The event is deleted.  Whoever has another event with the same id found it
\* in the table, where this one was.
LEMMA FreeEventIInv ==
    ASSUME IInv, NEW h \in Event, FreeEvent(h)
    PROVE  IInv'
<1> USE DEF IInv
<1>1. /\ running = h
      /\ fEventTable' = [fEventTable EXCEPT ![fEventID[h]] = None]
      /\ freed' = freed \cup {h}
      /\ armed' = armed \ {h}
      /\ running' = None /\ pc' = "none"
      /\ UNCHANGED <<idVars, posted, threadVars, sessions>>
  BY DEF FreeEvent, UnRegisterEvent
<1>2. Held(h) /\ h \notin freed /\ h # Listener
  BY <1>1 DEF Held, RunningTask, HeldIsRegistered
<1>3. fEventID[h] \in EventID /\ fEventTable[fEventID[h]] = h
  BY <1>2 DEF Known, HeldIsRegistered
<1>4. \A f \in Event : Held(f)' => Held(f)
  BY <1>1, IdAssumption DEF Held, threadVars
<1>5. TypeOK'
  BY <1>1, <1>3 DEF TypeOK, idVars, threadVars
<1>6. Known'
  BY <1>1, <1>3, <1>4 DEF Known, idVars, threadVars
<1>7. EntryIsLive'
  BY <1>1, <1>3, IdAssumption DEF EntryIsLive, TypeOK, idVars
<1>8. HeldIsRegistered'
  <2> SUFFICES ASSUME NEW f \in Event
               PROVE  /\ Held(f)' /\ f \notin freed' => fEventTable'[fEventID'[f]] = f
                      /\ sessions'[f] > 0 \/ running' = f => f # Listener
    BY DEF HeldIsRegistered
  <2>1. f \notin freed' => f \notin freed /\ f # h
    BY <1>1
  <2>2. ASSUME Held(f)', f \notin freed'
        PROVE  fEventTable'[fEventID'[f]] = f
    <3>1. Held(f)
      BY <1>4, <2>2
    <3>2. fEventTable[fEventID[f]] = f /\ fEventID[f] \in EventID
      BY <2>1, <2>2, <3>1 DEF HeldIsRegistered, Known
    <3>3. fEventID[f] # fEventID[h] /\ fEventID' = fEventID
      BY <1>1, <1>3, <2>1, <2>2, <3>2 DEF idVars
    <3> QED
      BY <1>1, <3>2, <3>3 DEF TypeOK
  <2>3. sessions'[f] > 0 \/ running' = f => f # Listener
    BY <1>1, IdAssumption DEF HeldIsRegistered
  <2> QED
    BY <2>2, <2>3
<1>9. (RunningTask /\ ListenerRegistered)'
  BY <1>1, <1>2, <1>3, IdAssumption
  DEF RunningTask, ListenerRegistered, ListenerStays, TypeOK, idVars
<1> QED
  BY <1>5, <1>6, <1>7, <1>8, <1>9

LEMMA NextIInv ==
    ASSUME IInv, [Next]_vars
    PROVE  IInv'
<1>1. CASE Next
  BY <1>1, NotifyIInv, WaitEventIInv, LookUpIInv, NewSessionIInv, AcceptClientIInv,
     RunIInv, DeleteTaskIInv, FreeEventIInv DEF Next, EventThread, RunTask
<1>2. CASE UNCHANGED vars
  BY <1>2, SameTableIInv
  DEF vars, idVars, threadVars, taskVars, IInv, TypeOK
<1> QED
  BY <1>1, <1>2

LEMMA Invariance == Spec => []IInv
<1>1. IInv /\ [Next]_vars => IInv'
  BY NextIInv
<1> QED
  BY <1>1, InitIInv, PTL DEF Spec

-----------------------------------------------------------------------------
\* Type correctness (the whole of EventTable).
THEOREM TypeCorrect == Spec => []TypeOK
<1>1. IInv => TypeOK
  BY DEF IInv
<1> QED
  BY <1>1, Invariance, PTL

\* The listener is never taken out of the table.
THEOREM AlwaysListening == Spec => []ListenerStays
<1>1. IInv => ListenerStays
  BY DEF IInv, ListenerRegistered
<1> QED
  BY <1>1, Invariance, PTL

-----------------------------------------------------------------------------
(* Before the ids wrap onto one that was given out                         *)

IDCount == MaxEventID - WM_USER + 1

\* The place of an id in the order in which the counter gives them out.
Order(id) == IF id > WM_USER THEN id - WM_USER ELSE IDCount

\* As long as there are not more events than ids, the counter has given out the
\* ids up to its own, each to one event, and a watched event is in the table.
IDsInOrder ==
    LET n == Cardinality(Requested)
    IN  n <= IDCount =>
            /\ Order(sEventID) = n
            /\ \A e \in Requested : Order(fEventID[e]) <= n
            /\ \A e, f \in Requested : fEventID[e] = fEventID[f] => e = f
            /\ \A e \in Requested \ freed : fEventTable[fEventID[e]] = e

\* The tasks of an event that have not come to the end of Run().
Pending(e) ==
    IF running = e /\ pc \in {"read", "close"} THEN sessions[e] - 1 ELSE sessions[e]

\* A socket is armed, or has its message with the event thread, or has a task
\* that is pending; one that was closed has none of these again.
OneParty(e) ==
    /\ e \in armed \/ theSocket = e => Pending(e) = 0
    /\ ~(e \in armed /\ theSocket = e)
    /\ Pending(e) <= 1
    /\ IsDeleted(e) \/ (running = e /\ pc = "close") =>
           e \notin armed /\ theSocket # e /\ Pending(e) = 0

Turns ==
    /\ posted \subseteq armed
    /\ theEvent # None => theEvent = theSocket
    /\ \A e \in Event : OneParty(e)

WInv ==
    /\ IInv
    /\ IsFiniteSet(Requested)
    /\ IDsInOrder
    /\ NotWrapped => Turns

\* The counter goes through the ids in their order.
LEMMA NextInOrder ==
    ASSUME sEventID \in EventID, Order(sEventID) < IDCount
    PROVE  Order(NextID) = Order(sEventID) + 1
  BY IdAssumption DEF Order, IDCount, NextID, EventID

LEMMA InitWInv == Init => WInv
<1> SUFFICES ASSUME Init PROVE WInv
  OBVIOUS
<1>1. Requested = {Listener} /\ fEventID[Listener] = WM_USER + 1
  BY IdAssumption DEF Init, Requested, NoID
<1>2. IsFiniteSet(Requested) /\ Cardinality(Requested) = 1
  BY <1>1, FS_Singleton
<1>3. Order(WM_USER + 1) = 1 /\ WM_USER + 1 \in EventID
  BY IdAssumption DEF Order, EventID
<1>4. IDsInOrder
  BY <1>1, <1>2, <1>3, IdAssumption DEF IDsInOrder, Init
<1>5. Turns
  BY IdAssumption DEF Init, Turns, OneParty, Pending, IsDeleted
<1> QED
  BY <1>2, <1>4, <1>5, InitIInv DEF WInv

IDInv == IsFiniteSet(Requested) /\ IDsInOrder

\* A step that gives out no id and takes no live event out of the table.
LEMMA SameIDs ==
    ASSUME WInv, UNCHANGED <<sEventID, fEventID>>, freed \subseteq freed',
           \A e \in Requested \ freed' : fEventTable'[fEventID[e]] = fEventTable[fEventID[e]]
    PROVE  IDInv' /\ Requested' = Requested
<1>1. Requested' = Requested
  BY DEF Requested
<1>2. IDsInOrder'
  BY <1>1 DEF WInv, IDsInOrder, Order
<1> QED
  BY <1>1, <1>2 DEF WInv, IDInv

LEMMA AcceptClientIDs ==
    ASSUME WInv, IInv', NEW c \in Event, AcceptClient(c)
    PROVE  IDInv' /\ (NotWrapped' => NotWrapped)
<1> USE DEF WInv
<1> DEFINE n == Cardinality(Requested)
<1>1. /\ fEventID[c] = NoID /\ NextID \in EventID
      /\ sEventID' = NextID
      /\ fEventID' = [fEventID EXCEPT ![c] = NextID]
      /\ fEventTable' = [fEventTable EXCEPT ![NextID] = IF @ = None THEN c ELSE @]
      /\ freed' = freed
  BY NextIDType DEF AcceptClient, RegisterEvent, IInv
<1>2. /\ fEventID'[c] = NextID
      /\ \A f \in Event \ {c} : fEventID'[f] = fEventID[f]
  BY <1>1 DEF IInv, TypeOK
<1>3. c \notin Requested /\ Requested' = Requested \cup {c}
  BY <1>1, <1>2, NoIDIsNone DEF Requested
<1>4. IsFiniteSet(Requested') /\ Cardinality(Requested') = n + 1 /\ n \in Nat
  BY <1>3, FS_AddElement, FS_CardinalityType
<1>5. ASSUME n + 1 <= IDCount
      PROVE  /\ Order(sEventID') = n + 1
             /\ \A f \in Requested' : Order(fEventID'[f]) <= n + 1
             /\ \A f, g \in Requested' : fEventID'[f] = fEventID'[g] => f = g
             /\ \A f \in Requested' \ freed' : fEventTable'[fEventID'[f]] = f
  <2>1. n <= IDCount /\ Order(sEventID) = n /\ n < IDCount
    BY <1>4, <1>5, IdAssumption DEF IDsInOrder, IDCount
  <2>2. Order(NextID) = n + 1
    BY <2>1, NextInOrder DEF IInv, TypeOK
  <2>3. \A f \in Requested : Order(fEventID[f]) <= n /\ fEventID[f] # NextID
    <3> SUFFICES ASSUME NEW f \in Requested
                 PROVE  Order(fEventID[f]) <= n /\ fEventID[f] # NextID
      OBVIOUS
    <3>1. Order(fEventID[f]) <= n
      BY <2>1 DEF IDsInOrder
    <3>2. n < n + 1 /\ ~(n + 1 <= n)
      BY <1>4
    <3> QED
      BY <2>2, <3>1, <3>2
  <2>4. \A f \in Requested : f # c /\ f \in Event /\ fEventID'[f] = fEventID[f]
    BY <1>2, <1>3 DEF Requested
  <2>5. \A f \in Requested' : Order(fEventID'[f]) <= n + 1
    <3> SUFFICES ASSUME NEW f \in Requested
                 PROVE  Order(fEventID[f]) <= n + 1
      BY <1>2, <1>3, <1>4, <2>2, <2>4
    <3>1. fEventID[f] \in EventID
      BY DEF Requested, IInv, TypeOK
    <3>2. Order(fEventID[f]) \in Int
      BY <3>1, IdAssumption DEF Order, EventID, IDCount
    <3> QED
      BY <1>4, <2>3, <3>2
  <2>6. \A f, g \in Requested' : fEventID'[f] = fEventID'[g] => f = g
    BY <1>2, <1>3, <2>1, <2>3, <2>4 DEF IDsInOrder
  <2>7. fEventTable[NextID] = None
    <3>1. ASSUME fEventTable[NextID] # None
          PROVE  FALSE
      <4>1. fEventTable[NextID] \in Event /\ fEventID[fEventTable[NextID]] = NextID
        BY <1>1, <3>1 DEF IInv, TypeOK, EntryIsLive
      <4>2. fEventTable[NextID] \in Requested
        BY <1>1, <4>1, NoIDIsNone DEF Requested
      <4> QED
        BY <2>3, <4>1, <4>2
    <3> QED
      BY <3>1
  <2>8. /\ fEventTable'[NextID] = c
        /\ \A id \in EventID \ {NextID} : fEventTable'[id] = fEventTable[id]
    BY <1>1, <2>7 DEF IInv, TypeOK
  <2>9. \A f \in Requested' \ freed' : fEventTable'[fEventID'[f]] = f
    <3> SUFFICES ASSUME NEW f \in Requested \ freed
                 PROVE  fEventTable'[fEventID[f]] = f
      BY <1>1, <1>2, <1>3, <2>4, <2>8
    <3>1. fEventID[f] \in EventID \ {NextID}
      BY <2>3 DEF Requested, IInv, TypeOK
    <3>2. fEventTable[fEventID[f]] = f
      BY <2>1 DEF IDsInOrder
    <3> QED
      BY <2>8, <3>1, <3>2
  <2> QED
    BY <1>1, <2>2, <2>5, <2>6, <2>9
<1>6. IDsInOrder'
  BY <1>4, <1>5 DEF IDsInOrder, Order, IDCount
<1>7. NotWrapped' => NotWrapped
  BY <1>4, IdAssumption DEF NotWrapped
<1> QED
  BY <1>4, <1>6, <1>7 DEF IDInv

\* ~Event takes out of the table the event it deletes, and no other.
LEMMA FreeEventIDs ==
    ASSUME WInv, NEW h \in Event, FreeEvent(h)
    PROVE  IDInv' /\ Requested' = Requested
<1> USE DEF WInv
<1>1. /\ UNCHANGED <<sEventID, fEventID>>
      /\ fEventTable' = [fEventTable EXCEPT ![fEventID[h]] = None]
      /\ freed' = freed \cup {h}
  BY DEF FreeEvent, UnRegisterEvent, idVars
<1>2. fEventID[h] \in EventID /\ h \in Requested
  BY NoIDIsNone DEF FreeEvent, IInv, Known, Held, Requested
<1>3. Requested' = Requested
  BY <1>1 DEF Requested
<1>4. ASSUME Cardinality(Requested) <= IDCount
      PROVE  \A e \in Requested \ freed' : fEventTable'[fEventID[e]] = e
  <2> SUFFICES ASSUME NEW e \in Requested \ freed'
               PROVE  fEventTable'[fEventID[e]] = e
    OBVIOUS
  <2>1. fEventID[e] # fEventID[h] /\ fEventID[e] \in EventID
    BY <1>1, <1>2, <1>4 DEF IDsInOrder, Requested, IInv, TypeOK
  <2>2. fEventTable[fEventID[e]] = e
    BY <1>1, <1>4 DEF IDsInOrder
  <2> QED
    BY <1>1, <2>1, <2>2 DEF IInv, TypeOK
<1>5. IDsInOrder'
  BY <1>1, <1>3, <1>4 DEF IDsInOrder, Order
<1> QED
  BY <1>3, <1>5 DEF IDInv

\* What a session and the event thread do to the turns.  The listener takes
\* part too, but has no sessions.
LEMMA EventThreadTurns ==
    ASSUME WInv, IInv', NotWrapped, Turns, EventThread
    PROVE  Turns'
<1> USE DEF WInv, IInv
<1>1. ASSUME NEW e \in Event, WaitEvent(e)
      PROVE  Turns'
  BY <1>1, IdAssumption
  DEF WaitEvent, Turns, OneParty, Pending, IsDeleted, idVars, taskVars, TypeOK
<1>2. CASE LookUp
  <2>1. theSocket \in Event /\ fEventID[theSocket] \in EventID
    BY <1>2 DEF LookUp, Known, TypeOK
  <2>2. theSocket \in Requested \ freed
    BY <2>1, NoIDIsNone DEF Requested, Turns, OneParty, IsDeleted
  <2>3. Handler(theSocket) = theSocket
    BY <2>2 DEF IDsInOrder, NotWrapped, IDCount, Handler
  <2> QED
    BY <1>2, <2>3
    DEF LookUp, Turns, OneParty, Pending, IsDeleted, taskVars
<1>3. CASE NewSession
  <2> DEFINE h == theEvent
  <2>1. h \in Event /\ h = theSocket
    BY <1>3 DEF NewSession, Turns, TypeOK
  <2>2. /\ sessions' = [sessions EXCEPT ![h] = @ + 1]
        /\ theSocket' = None /\ theEvent' = None
        /\ UNCHANGED <<freed, armed, posted, running, pc>>
    BY <1>3 DEF NewSession, Processed
  <2>3. /\ sessions \in [Event -> Nat] /\ sessions'[h] = sessions[h] + 1
        /\ \A e \in Event \ {h} : sessions'[e] = sessions[e]
    BY <2>1, <2>2, IdAssumption DEF TypeOK
  <2>4. ASSUME NEW e \in Event
        PROVE  OneParty(e)'
    <3>1. CASE e = h
      BY <2>1, <2>2, <2>3, <3>1, IdAssumption
      DEF Turns, OneParty, Pending, IsDeleted
    <3>2. CASE e # h
      BY <2>1, <2>2, <2>3, <3>2, IdAssumption
      DEF Turns, OneParty, Pending, IsDeleted
    <3> QED
      BY <3>1, <3>2
  <2> QED
    BY <2>2, <2>4 DEF Turns
<1>4. ASSUME NEW c \in Event, AcceptClient(c)
      PROVE  Turns'
  <2>1. /\ fEventID[c] = NoID /\ theEvent = Listener /\ theSocket = Listener
        /\ theSocket' = None /\ theEvent' = None
        /\ UNCHANGED <<freed, posted, taskVars>>
    BY <1>4, IdAssumption DEF AcceptClient, Processed, Turns
  <2>2. /\ armed \subseteq armed' /\ armed' \subseteq armed \cup {c, Listener}
    BY <1>4 DEF AcceptClient
  <2>3. c \notin freed /\ running # c /\ ~(sessions[c] > 0)
    BY <2>1, NoIDIsNone DEF Known, Held
  <2>4. sessions \in [Event -> Nat]
    BY DEF TypeOK
  <2>5. Listener \notin freed /\ running # Listener /\ sessions[Listener] = 0
    <3>1. Listener \notin freed
      BY <2>1, IdAssumption DEF Turns, OneParty, IsDeleted
    <3>2. running # Listener /\ ~(sessions[Listener] > 0)
      BY IdAssumption DEF HeldIsRegistered
    <3> QED
      BY <2>4, <3>1, <3>2, IdAssumption
  <2>6. ASSUME NEW e \in Event
        PROVE  OneParty(e)'
    BY <2>1, <2>2, <2>3, <2>4, <2>5, IdAssumption
    DEF Turns, OneParty, Pending, IsDeleted, taskVars
  <2> QED
    BY <2>1, <2>2, <2>6 DEF Turns
<1> QED
  BY <1>1, <1>2, <1>3, <1>4 DEF EventThread

LEMMA TaskTurns ==
    ASSUME WInv, IInv', Turns, NEW h \in Event, RunTask(h)
    PROVE  Turns'
<1> USE DEF WInv, IInv
<1>1. sessions \in [Event -> Nat]
  BY DEF TypeOK
<1>2. CASE RunRead(h) \/ RunClose(h)
  <2>1. /\ running = None /\ sessions[h] > 0 /\ h \notin freed
        /\ running' = h
        /\ \/ pc' = "read" /\ armed' \in {armed, armed \cup {h}}
           \/ pc' = "close" /\ armed' = armed
        /\ UNCHANGED <<freed, posted, theSocket, theEvent, sessions>>
    BY <1>2 DEF RunRead, RunClose, StartTask, threadVars
  <2>2. sessions[h] = 1 /\ h \notin armed /\ theSocket # h
    <3>1. Pending(h) = sessions[h]
      BY <2>1, IdAssumption DEF Pending
    <3> QED
      BY <1>1, <2>1, <3>1 DEF Turns, OneParty
  <2>3. ASSUME NEW e \in Event
        PROVE  OneParty(e)'
    <3>1. CASE e = h
      BY <1>1, <2>1, <2>2, <3>1, IdAssumption DEF Turns, OneParty, Pending, IsDeleted
    <3>2. CASE e # h
      BY <1>1, <2>1, <3>2, IdAssumption DEF Turns, OneParty, Pending, IsDeleted
    <3> QED
      BY <3>1, <3>2
  <2> QED
    BY <2>1, <2>3 DEF Turns
<1>3. CASE DeleteTask(h)
  <2>1. /\ running = h /\ pc \in {"read", "close"}
        /\ sessions' = [sessions EXCEPT ![h] = @ - 1]
        /\ \/ pc = "close" /\ pc' = "delete" /\ running' = h
           \/ pc' = "none" /\ running' = None
        /\ UNCHANGED <<freed, armed, posted, theSocket, theEvent>>
    BY <1>3 DEF DeleteTask, threadVars
  <2>2. /\ sessions'[h] = sessions[h] - 1
        /\ \A e \in Event \ {h} : sessions'[e] = sessions[e]
    BY <1>1, <2>1
  <2>3. ASSUME NEW e \in Event
        PROVE  OneParty(e)'
    <3>1. CASE e = h
      BY <1>1, <2>1, <2>2, <3>1, IdAssumption
      DEF Turns, OneParty, Pending, IsDeleted, RunningTask
    <3>2. CASE e # h
      BY <1>1, <2>1, <2>2, <3>2, IdAssumption DEF Turns, OneParty, Pending, IsDeleted
    <3> QED
      BY <3>1, <3>2
  <2> QED
    BY <2>1, <2>3 DEF Turns
<1>4. CASE FreeEvent(h)
  <2>1. /\ running = h /\ pc = "delete" /\ running' = None /\ pc' = "none"
        /\ freed' = freed \cup {h} /\ armed' = armed \ {h}
        /\ UNCHANGED <<posted, theSocket, theEvent, sessions>>
    BY <1>4 DEF FreeEvent, threadVars
  <2>2. h \notin armed
    BY <2>1 DEF Turns, OneParty, IsDeleted
  <2>3. ASSUME NEW e \in Event
        PROVE  OneParty(e)'
    BY <1>1, <2>1, IdAssumption DEF Turns, OneParty, Pending, IsDeleted
  <2> QED
    BY <2>1, <2>2, <2>3 DEF Turns
<1> QED
  BY <1>2, <1>3, <1>4 DEF RunTask

LEMMA NextWInv ==
    ASSUME WInv, [Next]_vars
    PROVE  WInv'
<1>1. IInv'
  BY NextIInv DEF WInv
<1>2. ASSUME NEW e \in Event, Notify(e)
      PROVE  WInv'
  <2>1. IDInv' /\ Requested' = Requested
    BY <1>2, SameIDs DEF Notify, idVars
  <2>2. Turns => Turns'
    BY <1>2 DEF Notify, Turns, OneParty, Pending, IsDeleted, threadVars, taskVars
  <2> QED
    BY <1>1, <2>1, <2>2 DEF WInv, IDInv, NotWrapped
<1>3. CASE EventThread
  <2>1. IDInv' /\ (NotWrapped' => NotWrapped)
    <3>1. ASSUME UNCHANGED <<idVars, fEventTable, freed>>
          PROVE  IDInv' /\ (NotWrapped' => NotWrapped)
      BY <3>1, SameIDs DEF NotWrapped, idVars
    <3> QED
      BY <1>1, <1>3, <3>1, AcceptClientIDs
      DEF EventThread, WaitEvent, LookUp, NewSession
  <2> QED
    BY <1>1, <1>3, <2>1, EventThreadTurns DEF WInv, IDInv
<1>4. ASSUME NEW h \in Event, RunTask(h)
      PROVE  WInv'
  <2>1. IDInv' /\ Requested' = Requested
    <3>1. ASSUME UNCHANGED <<idVars, fEventTable, freed>>
          PROVE  IDInv' /\ Requested' = Requested
      BY <3>1, SameIDs DEF idVars
    <3> QED
      BY <1>4, <3>1, FreeEventIDs DEF RunTask, RunRead, RunClose, DeleteTask
  <2> QED
    BY <1>1, <1>4, <2>1, TaskTurns DEF WInv, IDInv, NotWrapped
<1>5. CASE UNCHANGED vars
  <2>1. IDInv' /\ Requested' = Requested
    BY <1>5, SameIDs DEF vars, idVars
  <2>2. Turns => Turns'
    BY <1>5 DEF vars, Turns, OneParty, Pending, IsDeleted, threadVars, taskVars
  <2> QED
    BY <1>1, <2>1, <2>2 DEF WInv, IDInv, NotWrapped
<1> QED
  BY <1>2, <1>3, <1>4, <1>5 DEF Next

LEMMA InvarianceUntilWrap == Spec => []WInv
<1>1. WInv /\ [Next]_vars => WInv'
  BY NextWInv
<1> QED
  BY <1>1, InitWInv, PTL DEF Spec

\* Every socket that is watched is found under its id until as many events were
\* registered as there are ids: wrapping around is the only way a message can
\* reach the wrong socket (compare_and_store and atomic_add in
\* Event::RequestEvent).
THEOREM AlwaysFoundUntilWrap == Spec => []FoundUntilWrap
<1>1. WInv => FoundUntilWrap
  BY DEF WInv, IDsInOrder, IDCount, FoundUntilWrap, NotWrapped, IsWatched, Handler,
         Requested
<1> QED
  BY <1>1, InvarianceUntilWrap, PTL

\* EventThread::Entry never finds a deleted event, although UnRegisterEvent
\* works by id and ids may be shared after they have wrapped.  Until then the
\* event it has looked up is alive when it is called, although fEventTableMutex
\* is released before the call, and sessions have live events: only the last
\* task, which was told to, deletes the event, and by then nobody has the turn
\* on it.
THEOREM NeverDangling == Spec => []NoDangling
<1>1. WInv => NoDangling
  <2> SUFFICES ASSUME WInv PROVE NoDangling
    OBVIOUS
  <2>1. \A id \in EventID : fEventTable[id] \notin freed
    BY IdAssumption DEF WInv, IInv, TypeOK, EntryIsLive
  <2>2. ASSUME NotWrapped, NEW e \in Event,
               theEvent = e \/ sessions[e] > 0, IsDeleted(e)
        PROVE  FALSE
    <3>1. theSocket # e /\ Pending(e) = 0
      BY <2>2 DEF WInv, Turns, OneParty
    <3>2. ~(running = e /\ pc \in {"read", "close"})
      BY <2>2 DEF IsDeleted, WInv, IInv, RunningTask
    <3>3. theEvent # e
      BY <2>2, <3>1, IdAssumption DEF WInv, Turns
    <3> QED
      BY <2>2, <3>1, <3>2, <3>3 DEF Pending
  <2> QED
    BY <2>1, <2>2 DEF NoDangling
<1> QED
  BY <1>1, InvarianceUntilWrap, PTL

=============================================================================
