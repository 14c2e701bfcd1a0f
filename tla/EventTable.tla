----------------------------- MODULE EventTable -----------------------------
(***************************************************************************)
(* Event ids of P2ChatServer: how Event::RequestEvent gives them out and   *)
(* wraps around, how EventThread::fEventTable finds the Event of a window  *)
(* message by its id, and what ~Event takes out of the table.              *)
(*                                                                         *)
(* TcpReactor looks at the life of a connection in detail and lets every   *)
(* connection have an id of its own; this module looks at many connections *)
(* that come and go.  It leaves open which session a message leads to: one *)
(* that reads and arms its socket, or one that closes it.  As under the    *)
(* peers of TcpReactor that do not reset abruptly, a socket has at most    *)
(* one message in the queue.  The ids below are few, so that the counter   *)
(* wraps: in the server it does after 31,744 registrations.                *)
(*                                                                         *)
(* After a wrap the event thread may call an event that was deleted, or    *)
(* that is being deleted.  Whoever holds a deleted event goes no further   *)
(* in the model, since anything may follow.                                *)
(***************************************************************************)
EXTENDS Naturals, FiniteSets

CONSTANTS
    Event,       \* the Event objects: the listener and one for each accept
    Listener,    \* the TCPListenerSocket, which is registered by main
    None,        \* the null pointer
    WM_USER,     \* the least event id
    MaxEventID,  \* 0x7FFF, the greatest
    MaxSessions  \* bound: the tasks of one socket at a time

ASSUME IdAssumption ==
    /\ Listener \in Event /\ None \notin Event
    /\ WM_USER \in Nat \ {0} /\ MaxEventID \in Nat
    /\ WM_USER < MaxEventID
    /\ MaxSessions \in Nat

EventID == WM_USER .. MaxEventID
NoID == 0

VARIABLES
    sEventID,     \* the counter
    fEventID,     \* the id of each event, NoID before RequestEvent
    fEventTable,  \* the event of each id, or None
    freed,        \* the events that were deleted
    armed,        \* the sockets for which WSAAsyncSelect asks for events
    posted,       \* the sockets with a message in the window's queue
    theSocket,    \* whose message the event thread has taken, or None
    theEvent,     \* the event it has found and is about to call, or None
    sessions,     \* how many tasks refer to each event (fTaskSet)
    running,      \* the event of the task that holds the pool mutex, or None
    pc            \* where that task is

idVars == <<sEventID, fEventID>>
threadVars == <<theSocket, theEvent>>
taskVars == <<sessions, running, pc>>

vars == <<idVars, fEventTable, freed, armed, posted, threadVars, taskVars>>

-----------------------------------------------------------------------------
(* Event::RequestEvent on a new event                                      *)

\* Mutant: the counter does not wrap.
NextIDUnbounded == sEventID + 1

\* Mutant: the counter wraps to the id of the listener, not to the least.
NextIDShort == IF sEventID = MaxEventID THEN WM_USER + 1 ELSE sEventID + 1

\* compare_and_store and atomic_add: the next id, which becomes the counter.
NextID == IF sEventID = MaxEventID THEN WM_USER ELSE sEventID + 1

\* Mutant: a later event replaces the one that has the id.
RegisterOver(id, e) == fEventTable' = [fEventTable EXCEPT ![id] = e]

\* RegisterEvent leaves the table alone when the id is taken.  RequestEvent
\* only logs that.
RegisterEvent(id, e) ==
    fEventTable' = [fEventTable EXCEPT ![id] = IF @ = None THEN e ELSE @]

\* Event::~Event takes out whatever is registered under the id of the event.
UnRegisterEvent(id) == fEventTable' = [fEventTable EXCEPT ![id] = None]

IsWatched(e) == fEventID[e] # NoID /\ e \notin freed

-----------------------------------------------------------------------------
\* Winsock posts a message for an armed socket.
Notify(e) ==
    /\ e \in armed /\ e \notin posted
    /\ posted' = posted \cup {e}
    /\ UNCHANGED <<idVars, fEventTable, freed, armed, threadVars, taskVars>>

-----------------------------------------------------------------------------
(* EventThread::Entry                                                      *)

\* Mutant: select_waitevent does not switch the socket off.
WaitEventArmed(e) ==
    /\ theSocket = None
    /\ e \in posted
    /\ posted' = posted \ {e}
    /\ theSocket' = e
    /\ UNCHANGED <<idVars, fEventTable, freed, armed, theEvent, taskVars>>

\* select_waitevent takes the message of e and switches e off.
WaitEvent(e) ==
    /\ theSocket = None
    /\ e \in posted
    /\ posted' = posted \ {e}
    /\ armed' = armed \ {e}
    /\ theSocket' = e
    /\ UNCHANGED <<idVars, fEventTable, freed, theEvent, taskVars>>

Handler(e) == fEventTable[fEventID[e]]

\* The look-up under fEventTableMutex, which is released before the call.  If
\* nobody is registered under the id, the message is dropped.
LookUp ==
    /\ theSocket # None /\ theEvent = None
    /\ theEvent' = Handler(theSocket)
    /\ theSocket' = IF Handler(theSocket) = None THEN None ELSE theSocket
    /\ UNCHANGED <<idVars, fEventTable, freed, armed, posted, taskVars>>

\* ProcessEvent of theEvent returns.
Processed == theSocket' = None /\ theEvent' = None

\* TCPListenerSocket::ProcessEvent makes TCPSocket c of what accept returns.
\* If that is no socket, c cannot be armed, but it is registered like any other.
AcceptClient(c) ==
    /\ theEvent = Listener
    /\ fEventID[c] = NoID
    /\ sEventID' = NextID
    /\ fEventID' = [fEventID EXCEPT ![c] = NextID]
    /\ RegisterEvent(NextID, c)
    /\ \E new \in {{c}, {}} : armed' = armed \cup new \cup {Listener}
    /\ Processed
    /\ UNCHANGED <<freed, posted, taskVars>>

\* TCPSocket::ProcessEvent makes a session of the socket that was found, which
\* enters it in the reference set.
NewSession ==
    /\ theEvent \notin freed \cup {None, Listener}
    /\ sessions[theEvent] < MaxSessions
    /\ sessions' = [sessions EXCEPT ![theEvent] = @ + 1]
    /\ Processed
    /\ UNCHANGED <<idVars, fEventTable, freed, armed, posted, running, pc>>

-----------------------------------------------------------------------------
(* TCPSession::Run and ~Task, one task at a time under the pool mutex      *)

StartTask(h) ==
    /\ running = None
    /\ sessions[h] > 0 /\ h \notin freed
    /\ running' = h

\* A session that reads arms its socket again, or finds that the connection
\* was closed.
RunRead(h) ==
    /\ StartTask(h)
    /\ pc' = "read"
    /\ armed' \in {armed, armed \cup {h}}
    /\ UNCHANGED <<idVars, fEventTable, freed, posted, threadVars, sessions>>

\* One that was told of a close marks itself to delete the event.
RunClose(h) ==
    /\ StartTask(h)
    /\ pc' = "close"
    /\ UNCHANGED <<idVars, fEventTable, freed, armed, posted, threadVars,
                   sessions>>

\* ~Task leaves the reference set, and goes on to delete the event if it was
\* the last task and was told to.
DeleteTask(h) ==
    /\ running = h /\ pc \in {"read", "close"}
    /\ sessions' = [sessions EXCEPT ![h] = @ - 1]
    /\ IF pc = "close" /\ sessions[h] = 1
       THEN pc' = "delete" /\ UNCHANGED running
       ELSE pc' = "none" /\ running' = None
    /\ UNCHANGED <<idVars, fEventTable, freed, armed, posted, threadVars>>

\* ~TCPSocket and ~Event: the socket is closed, the id unregistered, the memory
\* freed.
FreeEvent(h) ==
    /\ running = h /\ pc = "delete"
    /\ UnRegisterEvent(fEventID[h])
    /\ freed' = freed \cup {h}
    /\ armed' = armed \ {h}
    /\ running' = None /\ pc' = "none"
    /\ UNCHANGED <<idVars, posted, threadVars, sessions>>

-----------------------------------------------------------------------------
\* main has registered the listener.
Init ==
    /\ sEventID = WM_USER + 1
    /\ fEventID = [e \in Event |-> IF e = Listener THEN WM_USER + 1 ELSE NoID]
    /\ fEventTable = [id \in EventID |-> IF id = WM_USER + 1 THEN Listener ELSE None]
    /\ freed = {}
    /\ armed = {Listener}
    /\ posted = {}
    /\ theSocket = None /\ theEvent = None
    /\ sessions = [e \in Event |-> 0]
    /\ running = None /\ pc = "none"

EventThread ==
    \/ LookUp \/ NewSession
    \/ \E e \in Event : WaitEvent(e) \/ AcceptClient(e)

RunTask(h) == RunRead(h) \/ RunClose(h) \/ DeleteTask(h) \/ FreeEvent(h)

Next == EventThread \/ \E e \in Event : Notify(e) \/ RunTask(e)

Spec == Init /\ [][Next]_vars

-----------------------------------------------------------------------------
(* Properties                                                              *)

\* Every variable holds a value of its type.
TypeOK ==
    /\ sEventID \in EventID
    /\ fEventID \in [Event -> EventID \cup {NoID}]
    /\ fEventTable \in [EventID -> Event \cup {None}]
    /\ freed \subseteq Event
    /\ armed \subseteq Event
    /\ posted \subseteq Event
    /\ {theSocket, theEvent, running} \subseteq Event \cup {None}
    /\ sessions \in [Event -> 0 .. MaxSessions]
    /\ pc \in {"none", "read", "close", "delete"}

\* The listener is found under its id for ever, although later connections
\* get the same id and ~Event unregisters by id.
ListenerStays == fEventTable[fEventID[Listener]] = Listener

Requested == {e \in Event : fEventID[e] # NoID}

\* The ids have not wrapped onto one that may still be in use.
NotWrapped == Cardinality(Requested) <= MaxEventID - WM_USER + 1

\* Until then, every socket that is watched is found under its id, so its
\* messages reach it.
FoundUntilWrap ==
    NotWrapped => \A e \in Event : IsWatched(e) => Handler(e) = e

IsDeleted(e) == e \in freed \/ (running = e /\ pc = "delete")

\* The table never names a deleted event, even after the ids have wrapped and
\* two events have the same one: what is looked up then is alive then.  And until
\* they have wrapped, what was looked up is not deleted before it is called,
\* although the lock is released in between, and no session has an event that
\* is deleted.
NoDangling ==
    /\ \A id \in EventID : fEventTable[id] \notin freed
    /\ NotWrapped => \A e \in Event :
           theEvent = e \/ sessions[e] > 0 => ~IsDeleted(e)

=============================================================================
