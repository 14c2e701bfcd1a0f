----------------------------- MODULE LogThread -----------------------------
(***************************************************************************)
(* The log of CommonLib/LogThread.cpp: threads that call log_write and     *)
(* log_debug (CommonLib/p2_util.cpp), the blocking queue between them and  *)
(* the log thread, which writes the records to a file and rotates it, by   *)
(* size or by day.                                                         *)
(*                                                                         *)
(* A record is the number it gets when it is queued.  The size of a file   *)
(* is the number of its records, the header lines left out.  The critical  *)
(* sections of the queue are single steps; its condition variable is left  *)
(* out, because the log thread never waits longer than 10 ms and looks     *)
(* into the queue after a signal and after a timeout alike.                *)
(***************************************************************************)
EXTENDS Integers, FiniteSets, SequencesExt

CONSTANTS
    Writer,           \* the threads that log
    RotationPolicies, \* the values of fRotationPolicy to look at
    fMaxLogSize,      \* records in a file that is full
    fLogHistorySize,  \* limit of the history, for rotation by size
    Day86400,         \* the length of the day RotateLog counts with
    DayBegins,        \* when each day begins by the local clock
    MaxClock,         \* bound: the last instant
    MaxRecords,       \* bound: calls of log_write, over all writers
    MaxFaults,        \* bound: calls of the file system that fail
    MaxCrashes        \* bound: ends of the process

ASSUME LogAssumption ==
    /\ RotationPolicies \subseteq {"disabled", "daily", "by_size"}
    /\ fMaxLogSize \in Nat \ {0} /\ fLogHistorySize \in Nat
    /\ Day86400 \in Nat \ {0} /\ MaxClock \in Nat
    /\ DayBegins \in Seq(Nat) /\ DayBegins # << >> /\ DayBegins[1] = 0
    /\ \A d, e \in DOMAIN DayBegins : d < e => DayBegins[d] < DayBegins[e]
    /\ MaxRecords \in Nat /\ MaxFaults \in Nat /\ MaxCrashes \in Nat

VARIABLES
    fRotationPolicy,
    LOG_IS_OPEN,      \* the bit of fFlags that writers look at
    fLogFileHandle,   \* is there a file to write to?
    fCurrentDayStart, \* the day of the current file, an index of DayBegins
    fStopRequested,
    pc,               \* where the log thread is
    i,                \* the file whose turn it is in the loop of RotateLog
    fQueueB,          \* the records between the writers and the log thread
    theLogRecord,     \* the record the log thread holds, << >> or <<r>>
    writing,          \* the writers that have found the log open
    disk,             \* the log file, Current, and those of its history, 0, 1, ...
    archive,          \* the files of earlier days
    clock,
    calls, faults, crashes, \* counters for the bounds
    accepted,         \* how many records were queued
    mishap,           \* has anything happened that the code has no answer to?
    cutShort          \* how many times the process ended inside that loop

threadVars == <<LOG_IS_OPEN, fLogFileHandle, fCurrentDayStart, fStopRequested, pc, i, theLogRecord>>
fileVars == <<disk, archive>>
counters == <<clock, calls, faults, crashes, accepted>>
vars == <<fRotationPolicy, threadVars, fQueueB, writing, fileVars, counters, mishap, cutShort>>

Current == -1
History == 0 .. fLogHistorySize
Days == 1 .. Len(DayBegins)

\* SetDayStart: the day by the local clock.
Today == CHOOSE d \in Days :
            /\ DayBegins[d] <= clock
            /\ \A e \in Days : DayBegins[e] <= clock => e <= d

-----------------------------------------------------------------------------
(* The writers: log_write, and log_debug at a level that is shown.  The    *)
(* log thread itself is one of them when it starts and when it ends.       *)

\* A writer looks at the flag.  If the log is not open the record is dropped.
LogWrite(w) ==
    /\ w \notin writing /\ calls < MaxRecords
    /\ calls' = calls + 1
    /\ writing' = IF LOG_IS_OPEN THEN writing \cup {w} ELSE writing
    /\ UNCHANGED <<fRotationPolicy, threadVars, fQueueB, fileVars, clock, faults, crashes, accepted, mishap, cutShort>>

\* Mutant: the queue is last in, first out.
EnQueueInFront(w) ==
    /\ w \in writing
    /\ accepted' = accepted + 1
    /\ fQueueB' = <<accepted'>> \o fQueueB
    /\ writing' = writing \ {w}
    /\ UNCHANGED <<fRotationPolicy, threadVars, fileVars, clock, calls, faults, crashes, mishap, cutShort>>

\* EnQueueLogRecord: whatever has become of the log since.
EnQueue(w) ==
    /\ w \in writing
    /\ accepted' = accepted + 1
    /\ fQueueB' = Append(fQueueB, accepted')
    /\ writing' = writing \ {w}
    /\ UNCHANGED <<fRotationPolicy, threadVars, fileVars, clock, calls, faults, crashes, mishap, cutShort>>

-----------------------------------------------------------------------------
(* The log thread                                                          *)

Goto(from, to) == pc = from /\ pc' = to

\* A call of the file system that fails for reasons outside the program.
Fault(fails) ==
    /\ fails => faults < MaxFaults
    /\ faults' = IF fails THEN faults + 1 ELSE faults

\* A directory in which a file has got new contents.
WithFile(files, f, records) ==
    [g \in DOMAIN files \cup {f} |-> IF g = f THEN records ELSE files[g]]

\* Mutant: the file is opened to write, which truncates it.
LogOpenTruncates ==
    \E opened \in BOOLEAN :
        /\ Goto("open", IF opened THEN "dequeue" ELSE "ended")
        /\ Fault(~opened)
        /\ LOG_IS_OPEN' = opened /\ fLogFileHandle' = opened
        /\ disk' = IF opened THEN WithFile(disk, Current, << >>) ELSE disk
        /\ UNCHANGED <<fCurrentDayStart, i, theLogRecord, fQueueB, archive, mishap>>

\* LogOpen at the start of Entry: the file is opened to append.  If that
\* fails Entry returns, and nothing is ever logged.
LogOpen ==
    \E opened \in BOOLEAN :
        /\ Goto("open", IF opened THEN "dequeue" ELSE "ended")
        /\ Fault(~opened)
        /\ LOG_IS_OPEN' = opened /\ fLogFileHandle' = opened
        /\ disk' = IF opened /\ Current \notin DOMAIN disk THEN WithFile(disk, Current, << >>) ELSE disk
        /\ UNCHANGED <<fCurrentDayStart, i, theLogRecord, fQueueB, archive, mishap>>

\* DeQueueBlocing returns a record.
DeQueue ==
    /\ Goto("dequeue", "write")
    /\ fQueueB # << >>
    /\ theLogRecord' = <<Head(fQueueB)>>
    /\ fQueueB' = Tail(fQueueB)
    /\ UNCHANGED <<LOG_IS_OPEN, fLogFileHandle, fCurrentDayStart, i, fileVars, faults, mishap>>

\* DeQueueBlocing returns nothing after 10 ms, and the thread has to stop.
TimedOut ==
    /\ Goto("dequeue", "ended")
    /\ fQueueB = << >> /\ fStopRequested
    /\ UNCHANGED <<LOG_IS_OPEN, fLogFileHandle, fCurrentDayStart, i, theLogRecord, fQueueB, fileVars, faults, mishap>>

\* Is the day of the current file over?  A day is taken to have 86400 seconds.
DayIsOver == fRotationPolicy = "daily" /\ clock >= DayBegins[fCurrentDayStart] + Day86400

\* RotateLog begins: the file is closed, and until the new one is open the
\* writers drop what they have to log.
CloseLog ==
    /\ \/ Goto("write", "rotate") /\ DayIsOver
       \/ Goto("full", "rotate")
    /\ LOG_IS_OPEN' = FALSE
    /\ UNCHANGED <<fLogFileHandle, fCurrentDayStart, i, theLogRecord, fQueueB, fileVars, faults, mishap>>

\* The loop over the files of the history goes down to the current one.
NextFile ==
    IF i = Current
    THEN pc' = "reopen" /\ i' = fLogHistorySize
    ELSE pc' = pc /\ i' = i - 1

\* A rename fails if there is no such file, or one of the new name.
Renamed ==
    IF i \in DOMAIN disk /\ i + 1 \notin DOMAIN disk
    THEN [f \in (DOMAIN disk \ {i}) \cup {i + 1} |-> IF f = i + 1 THEN disk[i] ELSE disk[f]]
    ELSE disk

\* What a call that may fail makes of the file whose turn it is.
OneFile(files) ==
    \E fails \in BOOLEAN :
        /\ Fault(fails) /\ (fails => i \in DOMAIN disk)
        /\ disk' = IF fails THEN disk ELSE files
        /\ mishap' = (mishap \/ fails)

\* Mutant: the oldest file of the history is renamed as well.
UnlinkLogRenames ==
    /\ pc = "rotate" /\ fRotationPolicy = "by_size"
    /\ i = fLogHistorySize
    /\ OneFile(Renamed)
    /\ NextFile
    /\ UNCHANGED <<LOG_IS_OPEN, fLogFileHandle, fCurrentDayStart, theLogRecord, fQueueB, archive>>

\* By size: the oldest file of the history is deleted.
UnlinkLog ==
    /\ pc = "rotate" /\ fRotationPolicy = "by_size"
    /\ i = fLogHistorySize
    /\ OneFile(Restrict(disk, DOMAIN disk \ {i}))
    /\ NextFile
    /\ UNCHANGED <<LOG_IS_OPEN, fLogFileHandle, fCurrentDayStart, theLogRecord, fQueueB, archive>>

\* Then each of the others gets the next number, one call after the other, and
\* the current file, the last, the number 0.
RenameLog ==
    /\ pc = "rotate" /\ fRotationPolicy = "by_size"
    /\ i < fLogHistorySize
    /\ OneFile(Renamed)
    /\ NextFile
    /\ UNCHANGED <<LOG_IS_OPEN, fLogFileHandle, fCurrentDayStart, theLogRecord, fQueueB, archive>>

\* By day: the current file gets the name of the day it was begun on, unless
\* there is a file of that name.
RenameByDay ==
    \E fails \in BOOLEAN :
        /\ Goto("rotate", "reopen") /\ fRotationPolicy = "daily"
        /\ Fault(fails)
        /\ IF fails \/ Current \notin DOMAIN disk \/ fCurrentDayStart \in DOMAIN archive
           THEN UNCHANGED fileVars
           ELSE /\ archive' = WithFile(archive, fCurrentDayStart, disk[Current])
                /\ disk' = Restrict(disk, DOMAIN disk \ {Current})
        /\ fCurrentDayStart' = Today
        /\ mishap' = (mishap \/ Current \in DOMAIN disk')
        /\ UNCHANGED <<LOG_IS_OPEN, fLogFileHandle, i, theLogRecord, fQueueB>>

\* Mutant: the thread also ends if a rotation has left it without a file.
AfterRecordInFile == IF fStopRequested \/ ~fLogFileHandle THEN "ended" ELSE "dequeue"

\* After a record the thread looks whether it has to stop.
AfterRecord == IF fStopRequested THEN "ended" ELSE "dequeue"

\* Mutant: the bit is not set again.
ReopenLogUnmarked ==
    \E opened \in BOOLEAN :
        /\ Goto("reopen", IF theLogRecord = << >> THEN AfterRecord ELSE "append")
        /\ Fault(~opened)
        /\ fLogFileHandle' = opened
        /\ disk' = IF opened THEN WithFile(disk, Current, << >>) ELSE disk
        /\ mishap' = (mishap \/ ~opened)
        /\ UNCHANGED <<LOG_IS_OPEN, fCurrentDayStart, i, theLogRecord, fQueueB, archive>>

\* The end of RotateLog: the new file is opened and truncated; if the current
\* one could not be renamed its records are gone, and if the new one cannot be
\* opened there is no file to write to.
ReopenLog ==
    \E opened \in BOOLEAN :
        /\ Goto("reopen", IF theLogRecord = << >> THEN AfterRecord ELSE "append")
        /\ Fault(~opened)
        /\ LOG_IS_OPEN' = opened /\ fLogFileHandle' = opened
        /\ disk' = IF opened THEN WithFile(disk, Current, << >>) ELSE disk
        /\ mishap' = (mishap \/ ~opened)
        /\ UNCHANGED <<fCurrentDayStart, i, theLogRecord, fQueueB, archive>>

\* Is the file full after the record was written?
IsFull == fRotationPolicy = "by_size" /\ fLogFileHandle /\ Len(disk'[Current]) >= fMaxLogSize

\* WriteLogRecordToFile writes the record, or loses it if there is no file.
WriteRecord ==
    /\ pc = "append" \/ (pc = "write" /\ ~DayIsOver)
    /\ disk' = IF fLogFileHandle THEN [disk EXCEPT ![Current] = @ \o theLogRecord] ELSE disk
    /\ theLogRecord' = << >>
    /\ pc' = IF IsFull THEN "full" ELSE AfterRecord
    /\ UNCHANGED <<LOG_IS_OPEN, fLogFileHandle, fCurrentDayStart, i, fQueueB, archive, faults, mishap>>

LogThread ==
    /\ \/ LogOpen \/ DeQueue \/ TimedOut \/ WriteRecord
       \/ CloseLog \/ UnlinkLog \/ RenameLog \/ RenameByDay \/ ReopenLog
    /\ UNCHANGED <<fRotationPolicy, fStopRequested, writing, clock, calls, crashes, accepted, cutShort>>

-----------------------------------------------------------------------------
(* The rest of the world                                                   *)

\* Time goes by.
Tick ==
    /\ clock < MaxClock
    /\ clock' = clock + 1
    /\ UNCHANGED <<fRotationPolicy, threadVars, fQueueB, writing, fileVars, calls, faults, crashes, accepted, mishap, cutShort>>

\* Thread::SendStopRequest.
SendStopRequest ==
    /\ ~fStopRequested
    /\ fStopRequested' = TRUE
    /\ UNCHANGED <<fRotationPolicy, LOG_IS_OPEN, fLogFileHandle, fCurrentDayStart, pc, i, theLogRecord>>
    /\ UNCHANGED <<fQueueB, writing, fileVars, counters, mishap, cutShort>>

\* The process ends and is started again: main calls LogThread::Initialize,
\* which takes today for the day of the file, and starts the thread.
Restart ==
    /\ crashes < MaxCrashes
    /\ crashes' = crashes + 1
    /\ mishap' = (mishap \/ fQueueB # << >> \/ theLogRecord # << >>)
    /\ cutShort' = IF i < fLogHistorySize THEN cutShort + 1 ELSE cutShort
    /\ pc' = "open" /\ i' = fLogHistorySize /\ LOG_IS_OPEN' = FALSE /\ fLogFileHandle' = FALSE
    /\ fCurrentDayStart' = Today
    /\ fStopRequested' = FALSE
    /\ theLogRecord' = << >> /\ fQueueB' = << >> /\ writing' = {}
    /\ UNCHANGED <<fRotationPolicy, fileVars, clock, calls, faults, accepted>>

Init ==
    /\ fRotationPolicy \in RotationPolicies
    /\ LOG_IS_OPEN = FALSE /\ fLogFileHandle = FALSE
    /\ fCurrentDayStart = 1 /\ fStopRequested = FALSE
    /\ pc = "open" /\ i = fLogHistorySize /\ theLogRecord = << >>
    /\ fQueueB = << >> /\ writing = {}
    /\ disk = << >> /\ archive = << >>
    /\ clock = 0 /\ calls = 0 /\ faults = 0 /\ crashes = 0 /\ accepted = 0
    /\ mishap = FALSE /\ cutShort = 0

Next ==
    \/ \E w \in Writer : LogWrite(w) \/ EnQueue(w)
    \/ LogThread
    \/ Tick
    \/ SendStopRequest
    \/ Restart

Spec == Init /\ [][Next]_vars

\* The operating system schedules the log thread.
FairSpec == Spec /\ WF_vars(LogThread)

-----------------------------------------------------------------------------
(* Properties                                                              *)

Records == 1 .. accepted

\* Files are numbered up to the limit of the history, and named after days
\* that are over; what is queued, held and written are records.
TypeOK ==
    /\ fRotationPolicy \in RotationPolicies
    /\ LOG_IS_OPEN \in BOOLEAN /\ fLogFileHandle \in BOOLEAN /\ fStopRequested \in BOOLEAN
    /\ fCurrentDayStart \in Days
    /\ pc \in {"open", "dequeue", "write", "rotate", "reopen", "append", "full", "ended"}
    /\ i \in {Current} \cup History
    /\ fQueueB \in Seq(Records) /\ writing \subseteq Writer
    /\ theLogRecord \in {<< >>} \cup {<<r>> : r \in Records}
    /\ DOMAIN disk \subseteq {Current} \cup History
    /\ disk \in [DOMAIN disk -> Seq(Records)]
    /\ DOMAIN archive \subseteq {d \in Days : DayBegins[d] < clock}
    /\ archive \in [DOMAIN archive -> Seq(Records)]
    /\ clock \in 0 .. MaxClock /\ calls \in 0 .. MaxRecords
    /\ faults \in 0 .. MaxFaults /\ crashes \in 0 .. MaxCrashes
    /\ accepted \in Nat /\ mishap \in BOOLEAN /\ cutShort \in Nat

\* The places where records are, oldest first: the files of earlier days, the
\* numbered files, the current one, the hands of the log thread and the queue.
CurrentPlace == Len(DayBegins) + fLogHistorySize + 2
HandPlace == CurrentPlace + 1
QueuePlace == CurrentPlace + 2
Place == 1 .. QueuePlace

FileAt(p) == CurrentPlace - 1 - p

RecordsAt(p) ==
    CASE p \in DOMAIN archive      -> archive[p]
      [] FileAt(p) \in DOMAIN disk -> disk[FileAt(p)]
      [] p = HandPlace             -> theLogRecord
      [] p = QueuePlace            -> fQueueB
      [] OTHER                     -> << >>

\* Whatever fails and however often the log is rotated or the process is
\* started again, the files hold the records in the order they were queued,
\* none of them twice: .N is older than .N-1, and a day's file is older than
\* the next day's (RotateLog).
InOrder ==
    \A p, q \in Place : \A k \in DOMAIN RecordsAt(p), l \in DOMAIN RecordsAt(q) :
        p < q \/ (p = q /\ k < l) => RecordsAt(p)[k] < RecordsAt(q)[l]

Held(r) == \E p \in Place : r \in ToSet(RecordsAt(p))

\* The history has all its files.  The loop of RotateLog has one number free
\* while it runs; if the process ends in it that number remains free, and the
\* history is one file shorter.
HistoryIsFull ==
    Cardinality(History \ DOMAIN disk) <= cutShort + (IF i < fLogHistorySize THEN 1 ELSE 0)

\* As long as the file system does what it is asked, nobody reads the clock of
\* a day that is longer than 86400 seconds and no record is in memory when the
\* process ends, no record is lost but by the limit of the history: the files
\* hold all of the newest records, and one is deleted only when the history is
\* full.
NothingLost ==
    ~mishap =>
        /\ \A r \in Records : Held(r) => \A s \in r .. accepted : Held(s)
        /\ (\E r \in Records : ~Held(r)) => HistoryIsFull

\* The bit that writers look at on other threads agrees with the file handle,
\* except while RotateLog is between closing and opening a file; an open
\* handle means that there is a file.
FlagMatchesFile ==
    pc \notin {"rotate", "reopen"} =>
        /\ LOG_IS_OPEN = fLogFileHandle
        /\ fLogFileHandle => Current \in DOMAIN disk

\* Every record that is queued is taken out of the queue, also after a failed
\* rotation, unless the thread is stopped.
Drained ==
    \A r \in 1 .. MaxRecords :
        r \in ToSet(fQueueB) ~> (r \notin ToSet(fQueueB) \/ fStopRequested)
=============================================================================
