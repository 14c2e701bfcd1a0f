-------------------------- MODULE LogThreadProofs --------------------------
(***************************************************************************)
(* Theorems about LogThread, for any number of writers, records, days,     *)
(* files of the history, failures and restarts: types, the order of the    *)
(* records in the files, and what is lost.                                 *)
(***************************************************************************)
EXTENDS LogThread, FiniteSetTheorems, TLAPS

(* The inductive invariant.  That files are in order is inductive only     *)
(* with what the policies keep apart: a rotation by day moves the current  *)
(* file behind the files of earlier days, and those of the history are     *)
(* moved only by size.                                                     *)

\* Files are named after days that are over, and none after a later day than
\* that of the current file.
Calendar ==
    /\ DayBegins[fCurrentDayStart] <= clock
    /\ fRotationPolicy = "daily" /\ pc = "rotate" => DayBegins[fCurrentDayStart] < clock
    /\ \A d \in DOMAIN archive : d <= fCurrentDayStart

\* What a policy never makes or does.
ByPolicy ==
    /\ fRotationPolicy = "daily" => DOMAIN disk \subseteq {Current}
    /\ fRotationPolicy = "by_size" => DOMAIN archive = {}
    /\ pc \in {"rotate", "reopen"} => fRotationPolicy # "disabled"
    /\ pc = "full" => fRotationPolicy = "by_size"
    /\ i < fLogHistorySize => pc = "rotate" /\ fRotationPolicy = "by_size"

\* Between two records the log thread holds none.
HandsFree == pc \in {"open", "dequeue", "full", "ended"} => theLogRecord = << >>

\* The files the log thread has got, as far as its types, the days and its
\* position tell.
Framework == TypeOK /\ Calendar /\ ByPolicy /\ HandsFree /\ FlagMatchesFile

-----------------------------------------------------------------------------
(* Days                                                                    *)

LEMMA DaysType ==
    /\ Len(DayBegins) \in Nat \ {0}
    /\ Days = DOMAIN DayBegins
    /\ 1 \in Days /\ DayBegins[1] = 0
    /\ \A d \in Days : d \in Nat /\ DayBegins[d] \in Nat
  BY LogAssumption DEF Days

\* There is a last day that has begun.
LEMMA TodayIsLast ==
    ASSUME clock \in Nat
    PROVE  /\ Today \in Days
           /\ DayBegins[Today] <= clock
           /\ \A e \in Days : DayBegins[e] <= clock => e <= Today
<1> DEFINE begun == {d \in Days : DayBegins[d] <= clock}
           k == Cardinality(begun)
<1>1. IsFiniteSet(Days) /\ Cardinality(Days) = Len(DayBegins)
  BY DaysType, FS_Interval DEF Days
<1>2. IsFiniteSet(begun) /\ k <= Len(DayBegins) /\ k \in Nat
  BY <1>1, FS_Subset, FS_CardinalityType
<1>3. k # 0
  BY <1>2, DaysType, FS_EmptySet
<1>4. k \in Days
  BY <1>2, <1>3, DaysType DEF Days
<1>5. \A d, e \in Days : d < e /\ e \in begun => d \in begun
  <2> SUFFICES ASSUME NEW d \in Days, NEW e \in begun, d < e
               PROVE  DayBegins[d] <= clock
    OBVIOUS
  <2>1. DayBegins[d] < DayBegins[e]
    BY DaysType, LogAssumption
  <2> QED
    BY <2>1, DaysType
<1>6. k \in begun
  <2> SUFFICES ASSUME k \notin begun PROVE FALSE
    OBVIOUS
  <2>1. \A e \in begun : e \in 1 .. (k - 1)
    <3> SUFFICES ASSUME NEW e \in begun PROVE e < k
      BY <1>2, DaysType DEF Days
    <3> QED
      BY <1>4, <1>5, DaysType
  <2>2. k - 1 \in Nat /\ 1 \in Int
    BY <1>2, <1>3
  <2>3. IsFiniteSet(1 .. (k - 1)) /\ Cardinality(1 .. (k - 1)) = k - 1
    BY <2>2, FS_Interval
  <2>4. begun \in SUBSET (1 .. (k - 1))
    BY <2>1
  <2>5. \A T : IsFiniteSet(T) /\ begun \in SUBSET T => Cardinality(begun) <= Cardinality(T)
    <3> HIDE DEF begun
    <3> QED
      BY FS_Subset
  <2>6. Cardinality(begun) <= Cardinality(1 .. (k - 1))
    <3> HIDE DEF begun, k
    <3> QED
      BY <2>3, <2>4, <2>5
  <2>7. k <= k - 1
    BY <2>3, <2>6
  <2> QED
    BY <1>2, <2>7
<1>7. \A e \in begun : e <= k
  <2> SUFFICES ASSUME NEW e \in begun, k < e PROVE FALSE
    BY <1>2, DaysType
  <2>1. 1 .. e \subseteq begun
    BY <1>5, DaysType DEF Days
  <2>2. Cardinality(1 .. e) = e
    BY DaysType, FS_Interval
  <2>3. Cardinality(1 .. e) <= k
    <3> HIDE DEF begun
    <3> QED
      BY <1>2, <2>1, FS_Subset
  <2> QED
    BY <1>2, <2>2, <2>3, DaysType
<1> QED
  BY <1>4, <1>6, <1>7 DEF Today

-----------------------------------------------------------------------------
(* Places                                                                  *)

LEMMA PlaceTypes ==
    /\ CurrentPlace \in Nat /\ HandPlace \in Place /\ QueuePlace \in Place
    /\ CurrentPlace \in Place /\ FileAt(CurrentPlace) = Current
    /\ HandPlace = CurrentPlace + 1 /\ QueuePlace = CurrentPlace + 2
    /\ Len(DayBegins) + fLogHistorySize + 2 = CurrentPlace
    /\ \A p \in Place : p \in Nat /\ FileAt(p) \in Int /\ FileAt(p) = CurrentPlace - 1 - p
  BY DaysType, LogAssumption DEF Place, CurrentPlace, HandPlace, QueuePlace, FileAt, Current

LEMMA FileNumbers ==
    TypeOK => \A f \in DOMAIN disk : f \in Int /\ -1 <= f /\ f <= fLogHistorySize
<1>1. TypeOK => DOMAIN disk \subseteq {Current} \cup History
  BY DEF TypeOK
<1>2. \A f \in {Current} \cup History : f \in Int /\ -1 <= f /\ f <= fLogHistorySize
  BY LogAssumption DEF Current, History
<1> QED
  BY <1>1, <1>2

\* What is where: the files of days, the numbered ones, and the rest apart.
WhatIsWhere ==
    /\ \A p \in DOMAIN archive : p \in Place /\ p < CurrentPlace /\ FileAt(p) \notin DOMAIN disk
    /\ \A p \in Place : FileAt(p) \in DOMAIN disk => p <= CurrentPlace
    /\ \A p \in DOMAIN archive : RecordsAt(p) = archive[p]
    /\ \A p \in Place : FileAt(p) \in DOMAIN disk => RecordsAt(p) = disk[FileAt(p)]
    /\ RecordsAt(HandPlace) = theLogRecord
    /\ RecordsAt(QueuePlace) = fQueueB
    /\ \A p \in Place : \/ p \in DOMAIN archive \/ FileAt(p) \in DOMAIN disk
                        \/ p = HandPlace \/ p = QueuePlace
                        \/ RecordsAt(p) = << >>
    /\ \A p \in Place : RecordsAt(p) \in Seq(Records)

LEMMA PlacesApart == TypeOK => WhatIsWhere
<1> SUFFICES ASSUME TypeOK PROVE WhatIsWhere
  OBVIOUS
<1>1. \A p \in DOMAIN archive : p \in Place /\ p <= Len(DayBegins)
  <2> TAKE p \in DOMAIN archive
  <2>1. p \in 1 .. Len(DayBegins)
    BY DEF TypeOK, Days
  <2> QED
    BY <2>1, DaysType, PlaceTypes, LogAssumption DEF Place
<1>2. \A f \in DOMAIN disk : f \in Int /\ -1 <= f /\ f <= fLogHistorySize
  BY FileNumbers
<1>3. \A p \in DOMAIN archive : p < CurrentPlace /\ FileAt(p) \notin DOMAIN disk
  <2> TAKE p \in DOMAIN archive
  <2>1. p \in Place /\ p <= Len(DayBegins)
    BY <1>1
  <2>2. FileAt(p) > fLogHistorySize /\ p < CurrentPlace
    BY <2>1, PlaceTypes, DaysType, LogAssumption
  <2> QED
    BY <1>2, <2>1, <2>2, PlaceTypes, LogAssumption
<1>4. \A p \in Place : FileAt(p) \in DOMAIN disk => p <= CurrentPlace
  BY <1>2, PlaceTypes
<1>5. \A p \in DOMAIN archive : RecordsAt(p) = archive[p]
  BY <1>1, <1>3, PlaceTypes DEF RecordsAt
<1>6. \A p \in Place : FileAt(p) \in DOMAIN disk => RecordsAt(p) = disk[FileAt(p)]
  BY <1>3, <1>4, PlaceTypes DEF RecordsAt
<1>7. /\ HandPlace \notin DOMAIN archive /\ FileAt(HandPlace) \notin DOMAIN disk
      /\ QueuePlace \notin DOMAIN archive /\ FileAt(QueuePlace) \notin DOMAIN disk
      /\ HandPlace # QueuePlace
  BY <1>3, <1>4, PlaceTypes
<1>8. RecordsAt(HandPlace) = theLogRecord /\ RecordsAt(QueuePlace) = fQueueB
  BY <1>7 DEF RecordsAt
<1>9. \A p \in Place : \/ p \in DOMAIN archive \/ FileAt(p) \in DOMAIN disk
                       \/ p = HandPlace \/ p = QueuePlace
                       \/ RecordsAt(p) = << >>
  BY DEF RecordsAt
<1>10. \A p \in Place : RecordsAt(p) \in Seq(Records)
  <2>1. theLogRecord \in Seq(Records)
    <3>1. CASE theLogRecord = << >>
      BY <3>1
    <3>2. ASSUME NEW k \in Records, theLogRecord = <<k>> PROVE theLogRecord \in Seq(Records)
      BY <3>2
    <3> QED
      BY <3>1, <3>2 DEF TypeOK
  <2>2. \A p \in DOMAIN archive : archive[p] \in Seq(Records)
    BY DEF TypeOK
  <2>3. \A f \in DOMAIN disk : disk[f] \in Seq(Records)
    BY DEF TypeOK
  <2>4. fQueueB \in Seq(Records) /\ << >> \in Seq(Records)
    BY DEF TypeOK
  <2> QED
    BY <1>5, <1>6, <1>8, <1>9, <2>1, <2>2, <2>3, <2>4
<1> QED
  BY <1>1, <1>3, <1>4, <1>5, <1>6, <1>8, <1>9, <1>10 DEF WhatIsWhere

LEMMA PlacesApartThen == TypeOK' => WhatIsWhere'
  BY PlacesApart, PTL

-----------------------------------------------------------------------------
(* The framework is kept.  One lemma for each action.                      *)

\* What the actions of the log thread leave to others.
NotOfLogThread == <<fRotationPolicy, fStopRequested, writing, clock, calls, crashes, accepted, cutShort>>

LEMMA InitFramework == Init => Framework
<1> SUFFICES ASSUME Init PROVE Framework
  OBVIOUS
<1>1. \A S : DOMAIN << >> = {} /\ << >> \in Seq(S) /\ << >> \in [{} -> Seq(S)]
  OBVIOUS
<1>2. /\ DOMAIN disk = {} /\ disk \in [DOMAIN disk -> Seq(Records)]
      /\ DOMAIN archive = {} /\ archive \in [DOMAIN archive -> Seq(Records)]
      /\ fQueueB \in Seq(Records)
  BY <1>1 DEF Init
<1>3. 0 \in 0 .. MaxClock /\ 0 \in 0 .. MaxRecords /\ 0 \in 0 .. MaxFaults /\ 0 \in 0 .. MaxCrashes
  BY LogAssumption
<1>4. TypeOK
  <2>1. fLogHistorySize \in History
    BY LogAssumption DEF History
  <2> QED
    BY <1>2, <1>3, <2>1, DaysType DEF Init, TypeOK
<1>5. Calendar
  <2>1. fCurrentDayStart = 1 /\ clock = 0 /\ pc = "open"
    BY DEF Init
  <2> QED
    BY <1>2, <2>1, DaysType DEF Calendar
<1>6. ByPolicy
  BY <1>2, LogAssumption DEF Init, ByPolicy
<1>7. HandsFree /\ FlagMatchesFile
  BY DEF Init, HandsFree, FlagMatchesFile
<1> QED
  BY <1>4, <1>5, <1>6, <1>7 DEF Framework

LEMMA WriterFramework ==
    ASSUME Framework, NEW w \in Writer, LogWrite(w) \/ EnQueue(w)
    PROVE  Framework'
<1>1. CASE LogWrite(w)
  <2>1. Records' = Records
    BY <1>1 DEF LogWrite, Records
  <2>2. calls' \in 0 .. MaxRecords /\ writing' \subseteq Writer
    <3>1. calls \in 0 .. MaxRecords /\ writing \subseteq Writer
      BY DEF Framework, TypeOK
    <3>2. calls' = calls + 1 /\ calls < MaxRecords /\ writing' \subseteq writing \cup {w}
      BY <1>1 DEF LogWrite
    <3> QED
      BY <3>1, <3>2, LogAssumption
  <2>3. TypeOK'
    BY <1>1, <2>1, <2>2 DEF LogWrite, Framework, TypeOK, threadVars, fileVars
  <2> QED
    BY <1>1, <2>3
    DEF LogWrite, Framework, Calendar, ByPolicy, HandsFree, FlagMatchesFile, threadVars, fileVars
<1>2. CASE EnQueue(w)
  <2>1. accepted \in Nat /\ accepted' = accepted + 1 /\ Records \subseteq Records'
    BY <1>2 DEF EnQueue, Framework, TypeOK, Records
  <2>2. Seq(Records) \subseteq Seq(Records') /\ accepted' \in Records'
    BY <2>1 DEF Records
  <2>3. fQueueB' \in Seq(Records')
    BY <1>2, <2>2 DEF EnQueue, Framework, TypeOK
  <2>4. TypeOK'
    BY <1>2, <2>1, <2>2, <2>3 DEF EnQueue, Framework, TypeOK, threadVars, fileVars
  <2> QED
    BY <1>2, <2>4
    DEF EnQueue, Framework, Calendar, ByPolicy, HandsFree, FlagMatchesFile, threadVars, fileVars
<1> QED
  BY <1>1, <1>2

LEMMA WorldFramework ==
    ASSUME Framework, Tick \/ SendStopRequest \/ UNCHANGED vars
    PROVE  Framework'
<1>1. CASE Tick
  <2>1. clock \in Nat /\ clock' = clock + 1 /\ clock' \in 0 .. MaxClock
    BY <1>1, LogAssumption DEF Tick, Framework, TypeOK
  <2>2. \A d \in Days : DayBegins[d] \in Nat
    BY DaysType
  <2>3. TypeOK'
    BY <1>1, <2>1, <2>2 DEF Tick, Framework, TypeOK, threadVars, fileVars, Records
  <2>4. Calendar'
    BY <1>1, <2>1, <2>2 DEF Tick, Framework, TypeOK, Calendar, threadVars, fileVars
  <2> QED
    BY <1>1, <2>3, <2>4 DEF Tick, Framework, ByPolicy, HandsFree, FlagMatchesFile, threadVars, fileVars
<1>2. CASE SendStopRequest
  BY <1>2 DEF SendStopRequest, Framework, TypeOK, Calendar, ByPolicy, HandsFree, FlagMatchesFile,
              fileVars, counters, Records
<1>3. CASE UNCHANGED vars
  BY <1>3 DEF vars, Framework, TypeOK, Calendar, ByPolicy, HandsFree, FlagMatchesFile,
              threadVars, fileVars, counters, Records
<1> QED
  BY <1>1, <1>2, <1>3

LEMMA RestartFramework ==
    ASSUME Framework, Restart
    PROVE  Framework'
<1>1. /\ Today \in Days /\ DayBegins[Today] <= clock
      /\ \A e \in Days : DayBegins[e] <= clock => e <= Today
  BY TodayIsLast DEF Framework, TypeOK
<1>2. TypeOK'
  <2>1. crashes' \in 0 .. MaxCrashes
    <3>1. crashes \in 0 .. MaxCrashes
      BY DEF Framework, TypeOK
    <3> QED
      BY <3>1, LogAssumption DEF Restart
  <2>2. << >> \in Seq(Records) /\ Records' = Records
    BY DEF Restart, Records
  <2>3. mishap' \in BOOLEAN /\ cutShort' \in Nat
    <3>1. cutShort \in Nat /\ mishap \in BOOLEAN
      BY DEF Framework, TypeOK
    <3> QED
      BY <3>1 DEF Restart
  <2>4. i' \in History
    BY LogAssumption DEF Restart, History
  <2> QED
    BY <1>1, <2>1, <2>2, <2>3, <2>4 DEF Restart, Framework, TypeOK, fileVars
<1>3. Calendar'
  <2>1. \A d \in DOMAIN archive : d \in Days /\ DayBegins[d] <= clock
    BY DaysType DEF Framework, TypeOK
  <2> QED
    BY <1>1, <2>1 DEF Restart, Calendar, fileVars
<1> QED
  <2>1. ~(i' < fLogHistorySize) /\ pc' = "open" /\ theLogRecord' = << >>
    BY LogAssumption DEF Restart
  <2>2. ByPolicy'
    BY <2>1 DEF Restart, Framework, ByPolicy, fileVars
  <2> QED
    BY <1>2, <1>3, <2>1, <2>2 DEF Restart, Framework, HandsFree, FlagMatchesFile

\* What a file is when its contents are new.
LEMMA WithFileType ==
    ASSUME NEW files, NEW f, NEW records
    PROVE  /\ DOMAIN WithFile(files, f, records) = DOMAIN files \cup {f}
           /\ WithFile(files, f, records)[f] = records
           /\ \A g \in DOMAIN files : g # f => WithFile(files, f, records)[g] = files[g]
           /\ \A S : records \in S /\ files \in [DOMAIN files -> S]
                 => WithFile(files, f, records) \in [DOMAIN files \cup {f} -> S]
  BY DEF WithFile

\* A call of the file system is counted.
LEMMA FaultType ==
    ASSUME TypeOK, NEW fails \in BOOLEAN, Fault(fails)
    PROVE  faults' \in 0 .. MaxFaults
  BY LogAssumption DEF TypeOK, Fault

LEMMA OpenFramework ==
    ASSUME Framework, LogOpen \/ ReopenLog, UNCHANGED NotOfLogThread
    PROVE  Framework'
<1>1. << >> \in Seq(Records) /\ Records' = Records
  BY DEF NotOfLogThread, Records
<1>2. PICK opened \in BOOLEAN :
        /\ Fault(~opened) /\ LOG_IS_OPEN' = opened /\ fLogFileHandle' = opened
        /\ \/ disk' = disk /\ (opened => Current \in DOMAIN disk)
           \/ opened /\ disk' = WithFile(disk, Current, << >>)
        /\ pc' \in {"dequeue", "append", "ended"}
        /\ pc' \in {"dequeue", "ended"} => theLogRecord = << >>
        /\ pc # "rotate"
        /\ UNCHANGED <<fCurrentDayStart, i, theLogRecord, fQueueB, archive>>
        /\ mishap' \in BOOLEAN
  <2>1. CASE LogOpen
    BY <2>1 DEF LogOpen, Goto, Framework, HandsFree, TypeOK
  <2>2. CASE ReopenLog
    BY <2>2 DEF ReopenLog, Goto, AfterRecord, Framework, TypeOK
  <2> QED
    BY <2>1, <2>2
<1>3. faults' \in 0 .. MaxFaults
  BY <1>2, FaultType DEF Framework
<1>4. /\ DOMAIN disk' \subseteq DOMAIN disk \cup {Current}
      /\ opened => Current \in DOMAIN disk'
      /\ disk' \in [DOMAIN disk' -> Seq(Records)]
  <2>1. CASE disk' = disk /\ (opened => Current \in DOMAIN disk)
    BY <2>1 DEF Framework, TypeOK
  <2>2. CASE opened /\ disk' = WithFile(disk, Current, << >>)
    <3>1. disk \in [DOMAIN disk -> Seq(Records)] /\ << >> \in Seq(Records)
      BY <1>1 DEF Framework, TypeOK
    <3>2. /\ DOMAIN disk' = DOMAIN disk \cup {Current}
          /\ disk' \in [DOMAIN disk \cup {Current} -> Seq(Records)]
      BY <2>2, <3>1, WithFileType
    <3> QED
      BY <3>2
  <2> QED
    BY <1>2, <2>1, <2>2
<1>5. TypeOK'
  BY <1>1, <1>2, <1>3, <1>4 DEF Framework, TypeOK, NotOfLogThread
<1>6. Calendar'
  BY <1>2 DEF Framework, Calendar, NotOfLogThread
<1>7. ByPolicy'
  BY <1>2, <1>4 DEF Framework, ByPolicy, NotOfLogThread
<1>8. HandsFree' /\ FlagMatchesFile'
  BY <1>2, <1>4 DEF HandsFree, FlagMatchesFile
<1> QED
  BY <1>5, <1>6, <1>7, <1>8 DEF Framework

LEMMA DeQueueFramework ==
    ASSUME Framework, DeQueue \/ TimedOut \/ CloseLog, UNCHANGED NotOfLogThread
    PROVE  Framework'
<1>1. CASE DeQueue
  <2>1. fQueueB' \in Seq(Records') /\ Head(fQueueB) \in Records' /\ Records' = Records
    BY <1>1 DEF DeQueue, Framework, TypeOK, NotOfLogThread, Records
  <2>2. TypeOK'
    BY <1>1, <2>1 DEF DeQueue, Goto, Framework, TypeOK, NotOfLogThread, fileVars
  <2> QED
    BY <1>1, <2>2 DEF DeQueue, Goto, Framework, Calendar, ByPolicy, HandsFree, FlagMatchesFile,
                      NotOfLogThread, fileVars
<1>2. CASE TimedOut
  BY <1>2 DEF TimedOut, Goto, Framework, TypeOK, Calendar, ByPolicy, HandsFree, FlagMatchesFile,
              NotOfLogThread, fileVars, Records
<1>3. CASE CloseLog
  <2>1. TypeOK'
    BY <1>3 DEF CloseLog, Goto, Framework, TypeOK, NotOfLogThread, fileVars, Records
  <2>2. fRotationPolicy = "daily" => DayBegins[fCurrentDayStart] < clock
    <3>1. CASE pc = "full"
      BY <3>1 DEF Framework, ByPolicy
    <3>2. CASE DayIsOver
      <4>1. DayBegins[fCurrentDayStart] \in Nat /\ clock \in Nat /\ Day86400 \in Nat \ {0}
        BY DaysType, LogAssumption DEF Framework, TypeOK
      <4>2. clock >= DayBegins[fCurrentDayStart] + Day86400
        BY <3>2 DEF DayIsOver
      <4> QED
        BY <4>1, <4>2
    <3> QED
      BY <1>3, <3>1, <3>2 DEF CloseLog, Goto
  <2> QED
    BY <1>3, <2>1, <2>2
    DEF CloseLog, Goto, DayIsOver, Framework, Calendar, ByPolicy, HandsFree, FlagMatchesFile,
        NotOfLogThread, fileVars
<1> QED
  BY <1>1, <1>2, <1>3

LEMMA WriteFramework ==
    ASSUME Framework, WriteRecord, UNCHANGED NotOfLogThread
    PROVE  Framework'
<1>1. /\ pc \in {"append", "write"} /\ theLogRecord' = << >>
      /\ disk' = IF fLogFileHandle THEN [disk EXCEPT ![Current] = @ \o theLogRecord] ELSE disk
      /\ pc' \in {"full", "dequeue", "ended"} /\ (pc' = "full" => fRotationPolicy = "by_size")
      /\ UNCHANGED <<LOG_IS_OPEN, fLogFileHandle, fCurrentDayStart, i, fQueueB, archive, faults, mishap>>
  BY DEF WriteRecord, IsFull, AfterRecord
<1>2. Records' = Records
  BY DEF NotOfLogThread, Records
<1>3. DOMAIN disk' = DOMAIN disk
  BY <1>1
<1>4. disk' \in [DOMAIN disk' -> Seq(Records)]
  <2>1. theLogRecord \in Seq(Records)
    BY PlacesApart, PlaceTypes DEF Framework, WhatIsWhere
  <2>2. \A s \in Seq(Records) : s \o theLogRecord \in Seq(Records)
    BY <2>1
  <2> QED
    BY <1>1, <1>3, <2>2 DEF Framework, TypeOK
<1>5. TypeOK'
  BY <1>1, <1>2, <1>3, <1>4 DEF Framework, TypeOK, NotOfLogThread
<1>6. Calendar' /\ ByPolicy'
  BY <1>1, <1>3 DEF Framework, Calendar, ByPolicy, NotOfLogThread
<1>7. HandsFree' /\ FlagMatchesFile'
  BY <1>1, <1>3 DEF Framework, HandsFree, FlagMatchesFile
<1> QED
  BY <1>5, <1>6, <1>7 DEF Framework

\* The file whose turn it is in the loop of RotateLog.
LEMMA LoopType ==
    ASSUME TypeOK
    PROVE  /\ i \in Int /\ -1 <= i /\ i <= fLogHistorySize
           /\ i # Current => i - 1 \in {Current} \cup History
           /\ fLogHistorySize \in {Current} \cup History
<1>1. i \in {Current} \cup History /\ Current = -1
  BY DEF TypeOK, Current
<1>2. fLogHistorySize \in Nat /\ \A f : f \in History <=> f \in 0 .. fLogHistorySize
  BY LogAssumption DEF History
<1> QED
  BY <1>1, <1>2

\* What a rename makes of the files: if there is one to move, and no other in
\* its way, it has the next number.
LEMMA RenamedFiles ==
    /\ i \in DOMAIN disk /\ i + 1 \notin DOMAIN disk =>
          /\ DOMAIN Renamed = (DOMAIN disk \ {i}) \cup {i + 1}
          /\ Renamed[i + 1] = disk[i]
          /\ \A f \in DOMAIN disk \ {i} : Renamed[f] = disk[f]
    /\ ~(i \in DOMAIN disk /\ i + 1 \notin DOMAIN disk) => Renamed = disk
  BY DEF Renamed

\* The calls of the loop have in common what they do to other variables.
LEMMA LoopStep ==
    ASSUME UnlinkLog \/ RenameLog
    PROVE  /\ pc = "rotate" /\ fRotationPolicy = "by_size"
           /\ \/ i = Current /\ pc' = "reopen" /\ i' = fLogHistorySize
              \/ i # Current /\ pc' = pc /\ i' = i - 1
           /\ \E fails \in BOOLEAN : Fault(fails) /\ mishap' = (mishap \/ fails)
           /\ UNCHANGED <<LOG_IS_OPEN, fLogFileHandle, fCurrentDayStart, theLogRecord, fQueueB, archive>>
  BY DEF UnlinkLog, RenameLog, OneFile, NextFile

\* What they do to the files: nothing; the last of the history is deleted; or
\* one file has the next number.
LoopFiles ==
    \/ disk' = disk /\ (mishap' \/ i \notin DOMAIN disk \/ (i < fLogHistorySize /\ i + 1 \in DOMAIN disk))
    \/ i = fLogHistorySize /\ disk' = [f \in DOMAIN disk \ {i} |-> disk[f]]
    \/ /\ i < fLogHistorySize /\ i \in DOMAIN disk /\ i + 1 \notin DOMAIN disk
       /\ DOMAIN disk' = (DOMAIN disk \ {i}) \cup {i + 1}
       /\ disk' = [f \in DOMAIN disk' |-> disk'[f]]
       /\ disk'[i + 1] = disk[i]
       /\ \A f \in DOMAIN disk \ {i} : disk'[f] = disk[f]

LEMMA LoopMoves ==
    ASSUME UnlinkLog \/ RenameLog
    PROVE  LoopFiles
<1>1. CASE UnlinkLog
  BY <1>1 DEF UnlinkLog, OneFile, Restrict, LoopFiles
<1>2. CASE RenameLog
  <2>1. (disk' = disk /\ mishap') \/ disk' = Renamed
    BY <1>2 DEF RenameLog, OneFile
  <2>2. Renamed = [f \in DOMAIN Renamed |-> Renamed[f]] \/ Renamed = disk
    BY DEF Renamed
  <2> QED
    BY <1>2, <2>1, <2>2, RenamedFiles DEF RenameLog, LoopFiles
<1> QED
  BY <1>1, <1>2

LEMMA LoopFramework ==
    ASSUME Framework, UnlinkLog \/ RenameLog, UNCHANGED NotOfLogThread
    PROVE  Framework'
<1>1. /\ pc = "rotate" /\ fRotationPolicy = "by_size" /\ pc' \in {"rotate", "reopen"}
      /\ pc' = "reopen" => i' = fLogHistorySize
      /\ UNCHANGED <<LOG_IS_OPEN, fLogFileHandle, fCurrentDayStart, theLogRecord, fQueueB, archive>>
  BY LoopStep
<1>2. faults' \in 0 .. MaxFaults /\ mishap' \in BOOLEAN /\ Records' = Records
  BY LoopStep, FaultType DEF Framework, TypeOK, NotOfLogThread, Records
<1>3. i' \in {Current} \cup History
  BY LoopStep, LoopType DEF Framework
<1>4. DOMAIN disk' \subseteq {Current} \cup History /\ disk' \in [DOMAIN disk' -> Seq(Records)]
  <2>1. disk \in [DOMAIN disk -> Seq(Records)] /\ DOMAIN disk \subseteq {Current} \cup History
    BY DEF Framework, TypeOK
  <2>2. i < fLogHistorySize => i + 1 \in {Current} \cup History
    BY LoopType, LogAssumption DEF Framework, Current, History
  <2> QED
    BY <2>1, <2>2, LoopMoves DEF LoopFiles
<1>5. TypeOK'
  BY <1>1, <1>2, <1>3, <1>4 DEF Framework, TypeOK, NotOfLogThread
<1>6. Calendar' /\ ByPolicy'
  BY <1>1, LogAssumption DEF Framework, Calendar, ByPolicy, NotOfLogThread
<1> QED
  BY <1>1, <1>5, <1>6 DEF Framework, HandsFree, FlagMatchesFile

\* By day either the files stay as they are, or the current one is moved.
LEMMA DayMoves ==
    ASSUME RenameByDay, ~UNCHANGED fileVars
    PROVE  /\ Current \in DOMAIN disk /\ fCurrentDayStart \notin DOMAIN archive
           /\ archive' = WithFile(archive, fCurrentDayStart, disk[Current])
           /\ disk' = [f \in DOMAIN disk \ {Current} |-> disk[f]]
  BY DEF RenameByDay, Restrict

LEMMA RenameByDayFramework ==
    ASSUME Framework, RenameByDay, UNCHANGED NotOfLogThread
    PROVE  Framework'
<1>1. /\ Goto("rotate", "reopen") /\ fRotationPolicy = "daily"
      /\ \E fails \in BOOLEAN : Fault(fails)
      /\ fCurrentDayStart' = Today
      /\ mishap' = (mishap \/ Current \in DOMAIN disk')
      /\ UNCHANGED <<LOG_IS_OPEN, fLogFileHandle, i, theLogRecord, fQueueB>>
  BY DEF RenameByDay
<1>2. faults' \in 0 .. MaxFaults /\ mishap' \in BOOLEAN /\ Records' = Records
  BY <1>1, FaultType DEF Framework, TypeOK, NotOfLogThread, Records
<1>3. pc = "rotate" /\ pc' = "reopen" /\ ~(i < fLogHistorySize)
  BY <1>1 DEF Goto, Framework, ByPolicy
<1>4. /\ Today \in Days /\ DayBegins[Today] <= clock
      /\ \A e \in Days : DayBegins[e] <= clock => e <= Today
  BY TodayIsLast DEF Framework, TypeOK
<1>5. CASE ~UNCHANGED fileVars
  <2>1. /\ Current \in DOMAIN disk /\ fCurrentDayStart \notin DOMAIN archive
        /\ archive' = WithFile(archive, fCurrentDayStart, disk[Current])
        /\ disk' = [f \in DOMAIN disk \ {Current} |-> disk[f]]
    BY <1>5, DayMoves
  <2>2. DOMAIN archive' = DOMAIN archive \cup {fCurrentDayStart}
    BY <2>1, WithFileType
  <2>3. archive' \in [DOMAIN archive' -> Seq(Records)]
    <3>1. archive \in [DOMAIN archive -> Seq(Records)] /\ disk[Current] \in Seq(Records)
      BY <2>1 DEF Framework, TypeOK
    <3> QED
      BY <2>1, <2>2, <3>1, WithFileType
  <2>4. fCurrentDayStart \in Days /\ DayBegins[fCurrentDayStart] < clock
    BY <1>1, <1>3 DEF Framework, TypeOK, Calendar
  <2>5. TypeOK'
    <3>1. DOMAIN archive' \subseteq {d \in Days : DayBegins[d] < clock}
      BY <2>2, <2>4 DEF Framework, TypeOK
    <3>2. disk' \in [DOMAIN disk' -> Seq(Records)] /\ DOMAIN disk' \subseteq {Current} \cup History
      BY <2>1 DEF Framework, TypeOK
    <3> QED
      BY <1>1, <1>2, <1>3, <1>4, <2>3, <3>1, <3>2 DEF Framework, TypeOK, NotOfLogThread
  <2>6. Calendar'
    <3>1. \A d \in DOMAIN archive' : d \in Days /\ DayBegins[d] <= clock
      BY <2>2, <2>4, DaysType DEF Framework, TypeOK
    <3> QED
      BY <1>1, <1>3, <1>4, <3>1 DEF Calendar, NotOfLogThread
  <2>7. ByPolicy'
    BY <1>1, <1>3, <2>1 DEF Framework, ByPolicy, NotOfLogThread
  <2> QED
    BY <1>3, <2>5, <2>6, <2>7 DEF Framework, HandsFree, FlagMatchesFile
<1>6. CASE UNCHANGED fileVars
  <2>1. \A d \in DOMAIN archive : d \in Days /\ DayBegins[d] <= clock
    BY DaysType DEF Framework, TypeOK
  <2>2. TypeOK'
    BY <1>1, <1>2, <1>3, <1>4, <1>6 DEF Framework, TypeOK, NotOfLogThread, fileVars
  <2>3. Calendar'
    BY <1>1, <1>3, <1>4, <1>6, <2>1 DEF Calendar, NotOfLogThread, fileVars
  <2>4. ByPolicy'
    BY <1>1, <1>3, <1>6 DEF Framework, ByPolicy, NotOfLogThread, fileVars
  <2> QED
    BY <1>3, <2>2, <2>3, <2>4 DEF Framework, HandsFree, FlagMatchesFile
<1> QED
  BY <1>5, <1>6

LEMMA NextFramework == Framework /\ [Next]_vars => Framework'
<1> SUFFICES ASSUME Framework, [Next]_vars PROVE Framework'
  OBVIOUS
<1>1. ASSUME NEW w \in Writer, LogWrite(w) \/ EnQueue(w) PROVE Framework'
  BY <1>1, WriterFramework
<1>2. CASE LogThread
  BY <1>2, OpenFramework, DeQueueFramework, WriteFramework, LoopFramework, RenameByDayFramework
  DEF LogThread, NotOfLogThread
<1>3. CASE Restart
  BY <1>3, RestartFramework
<1>4. CASE Tick \/ SendStopRequest \/ UNCHANGED vars
  BY <1>4, WorldFramework
<1> QED
  BY <1>1, <1>2, <1>3, <1>4 DEF Next

LEMMA AlwaysFramework == Spec => []Framework
<1> QED
  BY InitFramework, NextFramework, PTL DEF Spec

\* Every variable of the log keeps its type, whatever fails.
THEOREM TypeCorrect == Spec => []TypeOK
<1>1. Framework => TypeOK
  BY DEF Framework
<1> QED
  BY <1>1, AlwaysFramework, PTL

\* The bit the writers look at and the handle of the file agree, except inside
\* RotateLog, and there is a file to an open handle.
THEOREM AlwaysFlagMatchesFile == Spec => []FlagMatchesFile
<1>1. Framework => FlagMatchesFile
  BY DEF Framework
<1> QED
  BY <1>1, AlwaysFramework, PTL

-----------------------------------------------------------------------------
(* The order of the records.  Most actions move the contents of places, or *)
(* empty them; the rest take one record from the end of a place to the     *)
(* next one.                                                               *)

\* Records that keep the order of their places stay in order.
LEMMA MovedInOrder ==
    ASSUME InOrder, NEW src \in [Place -> Place],
           \A p \in Place : RecordsAt(p)' = << >> \/ RecordsAt(p)' = RecordsAt(src[p]),
           \A p, q \in Place :
               p < q /\ RecordsAt(p)' # << >> /\ RecordsAt(q)' # << >> => src[p] < src[q]
    PROVE  InOrder'
<1>1. Place' = Place
  BY DEF Place, QueuePlace, CurrentPlace
<1> SUFFICES ASSUME NEW p \in Place, NEW q \in Place,
                    NEW m \in DOMAIN RecordsAt(p)', NEW j \in DOMAIN RecordsAt(q)',
                    p < q \/ (p = q /\ m < j)
             PROVE  RecordsAt(p)'[m] < RecordsAt(q)'[j]
  BY <1>1 DEF InOrder
<1>2. RecordsAt(p)' # << >> /\ RecordsAt(q)' # << >>
  OBVIOUS
<1>3. RecordsAt(p)' = RecordsAt(src[p]) /\ RecordsAt(q)' = RecordsAt(src[q])
  BY <1>2
<1>4. src[p] < src[q] \/ (src[p] = src[q] /\ m < j)
  BY <1>2
<1> QED
  BY <1>3, <1>4 DEF InOrder

LEMMA SameInOrder ==
    ASSUME InOrder, \A p \in Place : RecordsAt(p)' \in {<< >>, RecordsAt(p)}
    PROVE  InOrder'
<1> DEFINE src == [p \in Place |-> p]
<1>1. src \in [Place -> Place] /\ \A p \in Place : src[p] = p
  OBVIOUS
<1> HIDE DEF src
<1> QED
  BY <1>1, MovedInOrder

\* Nothing has happened to the records.
LEMMA UnmovedInOrder ==
    ASSUME InOrder, UNCHANGED <<archive, disk, theLogRecord, fQueueB>>
    PROVE  InOrder'
<1>1. \A p \in Place : RecordsAt(p)' = RecordsAt(p)
  BY DEF RecordsAt, FileAt, HandPlace, QueuePlace, CurrentPlace
<1> QED
  BY <1>1, SameInOrder

LEMMA EnQueueInOrder ==
    ASSUME TypeOK, TypeOK', InOrder, NEW w \in Writer, EnQueue(w)
    PROVE  InOrder'
<1>1. WhatIsWhere /\ WhatIsWhere'
  BY PlacesApart, PlacesApartThen
<1>2. \A p \in Place : p # QueuePlace => RecordsAt(p)' = RecordsAt(p)
  BY DEF EnQueue, threadVars, fileVars, RecordsAt, FileAt, HandPlace, QueuePlace, CurrentPlace
<1>3. /\ RecordsAt(QueuePlace) = fQueueB /\ RecordsAt(QueuePlace)' = Append(fQueueB, accepted + 1)
      /\ fQueueB \in Seq(Records) /\ accepted \in Nat
  BY <1>1 DEF WhatIsWhere, EnQueue, QueuePlace, CurrentPlace, TypeOK
<1>4. \A p \in Place : RecordsAt(p) \in Seq(Records)
  BY <1>1 DEF WhatIsWhere
<1>5. Place' = Place
  BY DEF Place, QueuePlace, CurrentPlace
<1> SUFFICES ASSUME NEW p \in Place, NEW q \in Place,
                    NEW m \in DOMAIN RecordsAt(p)', NEW j \in DOMAIN RecordsAt(q)',
                    p < q \/ (p = q /\ m < j)
             PROVE  RecordsAt(p)'[m] < RecordsAt(q)'[j]
  BY <1>5 DEF InOrder
<1>6. CASE q # QueuePlace
  <2>1. p # QueuePlace
    BY <1>6, PlaceTypes DEF Place
  <2> QED
    BY <1>2, <1>6, <2>1 DEF InOrder
<1>7. CASE q = QueuePlace /\ j = Len(fQueueB) + 1
  <2>1. RecordsAt(q)'[j] = accepted + 1
    BY <1>3, <1>7
  <2>2. CASE p # QueuePlace
    <3>1. RecordsAt(p)'[m] = RecordsAt(p)[m] /\ m \in DOMAIN RecordsAt(p)
      BY <1>2, <2>2
    <3>2. RecordsAt(p)[m] \in Records
      BY <1>4, <3>1
    <3> QED
      BY <1>3, <2>1, <3>1, <3>2 DEF Records
  <2>3. CASE p = QueuePlace
    <3>1. m \in 1 .. Len(fQueueB)
      BY <1>3, <1>7, <2>3, PlaceTypes
    <3>2. RecordsAt(p)'[m] = fQueueB[m] /\ fQueueB[m] \in Records
      BY <1>3, <2>3, <3>1
    <3> QED
      BY <1>3, <2>1, <3>2 DEF Records
  <2> QED
    BY <2>2, <2>3
<1>8. CASE q = QueuePlace /\ j # Len(fQueueB) + 1
  <2>1. j \in DOMAIN fQueueB /\ RecordsAt(q)'[j] = fQueueB[j]
    BY <1>3, <1>8
  <2>2. CASE p # QueuePlace
    BY <1>2, <1>3, <1>8, <2>1, <2>2 DEF InOrder
  <2>3. CASE p = QueuePlace
    <3>0. m < j /\ m \in DOMAIN Append(fQueueB, accepted + 1) /\ j \in DOMAIN fQueueB
      BY <1>3, <1>8, <2>1, <2>3, PlaceTypes
    <3>1. m \in DOMAIN fQueueB /\ RecordsAt(p)'[m] = fQueueB[m]
      BY <1>3, <2>3, <3>0
    <3> QED
      BY <1>3, <1>8, <2>1, <2>3, <3>1 DEF InOrder
  <2> QED
    BY <2>2, <2>3
<1> QED
  BY <1>6, <1>7, <1>8

LEMMA DeQueueInOrder ==
    ASSUME TypeOK, TypeOK', HandsFree, InOrder, DeQueue, UNCHANGED NotOfLogThread
    PROVE  InOrder'
<1>1. WhatIsWhere /\ WhatIsWhere'
  BY PlacesApart, PlacesApartThen
<1>2. \A p \in Place : p # QueuePlace /\ p # HandPlace => RecordsAt(p)' = RecordsAt(p)
  BY DEF DeQueue, fileVars, RecordsAt, FileAt, HandPlace, QueuePlace, CurrentPlace
<1>3. /\ RecordsAt(QueuePlace) = fQueueB /\ RecordsAt(QueuePlace)' = Tail(fQueueB)
      /\ RecordsAt(HandPlace)' = <<Head(fQueueB)>>
      /\ fQueueB \in Seq(Records) /\ fQueueB # << >>
  BY <1>1 DEF WhatIsWhere, DeQueue, HandPlace, QueuePlace, CurrentPlace, TypeOK
<1>4. HandPlace \in Place /\ QueuePlace \in Place /\ HandPlace = QueuePlace - 1
      /\ \A p \in Place : p \in Nat /\ p <= QueuePlace
  BY PlaceTypes DEF Place
<1>5. Place' = Place
  BY DEF Place, QueuePlace, CurrentPlace
\* Every record of the hands and of the queue was in the queue.
<1> DEFINE before(p, m) == IF p = HandPlace THEN 1 ELSE m + 1
<1>6. \A p \in {HandPlace, QueuePlace} : \A m \in DOMAIN RecordsAt(p)' :
        /\ before(p, m) \in DOMAIN fQueueB /\ RecordsAt(p)'[m] = fQueueB[before(p, m)]
        /\ m \in Nat /\ (p = HandPlace => m = 1) /\ (p = QueuePlace => before(p, m) = m + 1 /\ m >= 1)
  <2>1. ASSUME NEW m \in DOMAIN RecordsAt(HandPlace)'
        PROVE  m = 1 /\ 1 \in DOMAIN fQueueB /\ RecordsAt(HandPlace)'[m] = fQueueB[1]
    BY <1>3
  <2>2. ASSUME NEW m \in DOMAIN RecordsAt(QueuePlace)'
        PROVE  m \in Nat /\ m >= 1 /\ m + 1 \in DOMAIN fQueueB /\ RecordsAt(QueuePlace)'[m] = fQueueB[m + 1]
    BY <1>3
  <2> QED
    BY <1>4, <2>1, <2>2
<1> HIDE DEF before
<1> SUFFICES ASSUME NEW p \in Place, NEW q \in Place,
                    NEW m \in DOMAIN RecordsAt(p)', NEW j \in DOMAIN RecordsAt(q)',
                    p < q \/ (p = q /\ m < j)
             PROVE  RecordsAt(p)'[m] < RecordsAt(q)'[j]
  BY <1>5 DEF InOrder
<1>7. CASE q \notin {HandPlace, QueuePlace}
  <2>1. p \notin {HandPlace, QueuePlace}
    BY <1>4, <1>7
  <2> QED
    BY <1>2, <1>7, <2>1 DEF InOrder
<1>8. CASE q \in {HandPlace, QueuePlace} /\ p \notin {HandPlace, QueuePlace}
  <2>1. RecordsAt(p)'[m] = RecordsAt(p)[m] /\ m \in DOMAIN RecordsAt(p)
    BY <1>2, <1>8
  <2>2. before(q, j) \in DOMAIN fQueueB /\ RecordsAt(q)'[j] = fQueueB[before(q, j)]
    BY <1>6, <1>8
  <2>3. p < QueuePlace
    BY <1>4, <1>8
  <2> QED
    BY <1>3, <1>4, <2>1, <2>2, <2>3 DEF InOrder
<1>9. CASE q \in {HandPlace, QueuePlace} /\ p \in {HandPlace, QueuePlace}
  <2>1. /\ before(p, m) \in DOMAIN fQueueB /\ RecordsAt(p)'[m] = fQueueB[before(p, m)]
        /\ before(q, j) \in DOMAIN fQueueB /\ RecordsAt(q)'[j] = fQueueB[before(q, j)]
    BY <1>6, <1>9
  <2>2. before(p, m) < before(q, j)
    <3>1. ASSUME NEW r \in {HandPlace, QueuePlace}, NEW k \in DOMAIN RecordsAt(r)'
          PROVE  /\ k \in Nat /\ k >= 1
                 /\ r = HandPlace => k = 1 /\ before(r, k) = 1
                 /\ r = QueuePlace => before(r, k) = k + 1
      BY <1>4, <1>6 DEF before
    <3> QED
      BY <1>4, <1>9, <3>1
  <2> QED
    BY <1>3, <1>4, <2>1, <2>2 DEF InOrder
<1> QED
  BY <1>7, <1>8, <1>9

LEMMA WriteInOrder ==
    ASSUME TypeOK, TypeOK', InOrder, FlagMatchesFile, WriteRecord, UNCHANGED NotOfLogThread
    PROVE  InOrder'
<1>1. WhatIsWhere /\ WhatIsWhere'
  BY PlacesApart, PlacesApartThen
<1>2. /\ pc \in {"append", "write"} /\ theLogRecord' = << >>
      /\ disk' = IF fLogFileHandle THEN [disk EXCEPT ![Current] = @ \o theLogRecord] ELSE disk
      /\ UNCHANGED <<fQueueB, archive>>
  BY DEF WriteRecord
<1>3. /\ Place' = Place /\ HandPlace' = HandPlace /\ QueuePlace' = QueuePlace
      /\ \A p \in Place : FileAt(p)' = FileAt(p)
  BY DEF Place, QueuePlace, HandPlace, CurrentPlace, FileAt
<1>4. CASE ~fLogFileHandle
  <2>1. \A p \in Place : p # HandPlace => RecordsAt(p)' = RecordsAt(p)
    BY <1>2, <1>4 DEF RecordsAt, FileAt, HandPlace, QueuePlace, CurrentPlace
  <2>2. RecordsAt(HandPlace)' = << >>
    BY <1>1, <1>2, <1>3 DEF WhatIsWhere
  <2> QED
    BY <2>1, <2>2, SameInOrder
<1>5. CASE fLogFileHandle
  <2>1. Current \in DOMAIN disk
    BY <1>2, <1>5 DEF FlagMatchesFile
  <2>2. /\ DOMAIN disk' = DOMAIN disk /\ disk'[Current] = disk[Current] \o theLogRecord
        /\ \A f \in DOMAIN disk : f # Current => disk'[f] = disk[f]
    BY <1>2, <1>5, <2>1
  <2>3. \A p \in Place : p # HandPlace /\ p # CurrentPlace => RecordsAt(p)' = RecordsAt(p)
    <3> TAKE p \in Place
    <3> HAVE p # HandPlace /\ p # CurrentPlace
    <3>1. FileAt(p) # Current
      BY PlaceTypes DEF Current
    <3> QED
      BY <1>2, <1>3, <2>2, <3>1 DEF RecordsAt
  <2>4. RecordsAt(HandPlace)' = << >> /\ RecordsAt(HandPlace) = theLogRecord
    BY <1>1, <1>2, <1>3 DEF WhatIsWhere
  <2>5. RecordsAt(CurrentPlace) = disk[Current] /\ RecordsAt(CurrentPlace)' = disk[Current] \o theLogRecord
    BY <1>1, <1>3, <2>1, <2>2, PlaceTypes DEF WhatIsWhere, CurrentPlace
  <2>6. disk[Current] \in Seq(Records) /\ theLogRecord \in Seq(Records)
    BY <1>1, <2>4, <2>5, PlaceTypes DEF WhatIsWhere
  <2> SUFFICES ASSUME NEW p \in Place, NEW q \in Place,
                      NEW m \in DOMAIN RecordsAt(p)', NEW j \in DOMAIN RecordsAt(q)',
                      p < q \/ (p = q /\ m < j)
               PROVE  RecordsAt(p)'[m] < RecordsAt(q)'[j]
    BY <1>3 DEF InOrder
  <2>7. p # HandPlace /\ q # HandPlace
    BY <2>4
  \* A record of the current file was there or in the hands.
  <2>8. ASSUME NEW k \in DOMAIN RecordsAt(CurrentPlace)'
        PROVE  \/ k \in DOMAIN disk[Current] /\ RecordsAt(CurrentPlace)'[k] = disk[Current][k]
               \/ /\ k - Len(disk[Current]) \in DOMAIN theLogRecord /\ k > Len(disk[Current])
                  /\ RecordsAt(CurrentPlace)'[k] = theLogRecord[k - Len(disk[Current])]
    BY <2>5, <2>6
  <2>9. CASE p # CurrentPlace /\ q # CurrentPlace
    BY <2>3, <2>7, <2>9 DEF InOrder
  <2>10. CASE p # CurrentPlace /\ q = CurrentPlace
    <3>1. RecordsAt(p)' = RecordsAt(p) /\ p < CurrentPlace /\ p < HandPlace
      BY <2>3, <2>7, <2>10, PlaceTypes
    <3>2. CASE j \in DOMAIN disk[Current] /\ RecordsAt(q)'[j] = disk[Current][j]
      BY <2>5, <2>10, <3>1, <3>2 DEF InOrder
    <3>3. CASE /\ j - Len(disk[Current]) \in DOMAIN theLogRecord
               /\ RecordsAt(q)'[j] = theLogRecord[j - Len(disk[Current])]
      BY <2>4, <3>1, <3>3, PlaceTypes DEF InOrder
    <3> QED
      BY <2>8, <2>10, <3>2, <3>3
  <2>11. CASE p = CurrentPlace /\ q # CurrentPlace
    <3>0. p \in Nat /\ q \in Nat /\ p < q
      BY <2>11, PlaceTypes
    <3>1. RecordsAt(q)' = RecordsAt(q) /\ CurrentPlace < q /\ HandPlace < q
      BY <2>3, <2>7, <2>11, <3>0, PlaceTypes
    <3>2. CASE m \in DOMAIN disk[Current] /\ RecordsAt(p)'[m] = disk[Current][m]
      BY <2>5, <2>11, <3>1, <3>2 DEF InOrder
    <3>3. CASE /\ m - Len(disk[Current]) \in DOMAIN theLogRecord
               /\ RecordsAt(p)'[m] = theLogRecord[m - Len(disk[Current])]
      BY <2>4, <3>1, <3>3, PlaceTypes DEF InOrder
    <3> QED
      BY <2>8, <2>11, <3>2, <3>3
  <2>12. CASE p = CurrentPlace /\ q = CurrentPlace
    <3>0. p \in Nat /\ q \in Nat /\ ~(p < q)
      BY <2>12, PlaceTypes
    <3>1. m < j /\ m \in Nat /\ j \in Nat
      BY <2>5, <2>6, <2>12, <3>0
    <3>2. CASE m \in DOMAIN disk[Current] /\ j \in DOMAIN disk[Current]
      <4>1. /\ RecordsAt(p)'[m] = RecordsAt(CurrentPlace)[m]
            /\ RecordsAt(q)'[j] = RecordsAt(CurrentPlace)[j]
        BY <2>5, <2>6, <2>8, <2>12, <3>2
      <4> QED
        BY <2>5, <3>1, <3>2, <4>1, PlaceTypes DEF InOrder
    <3>3. CASE m \in DOMAIN disk[Current] /\ j \notin DOMAIN disk[Current]
      <4>1. /\ RecordsAt(p)'[m] = RecordsAt(CurrentPlace)[m]
            /\ j - Len(disk[Current]) \in DOMAIN RecordsAt(HandPlace)
            /\ RecordsAt(q)'[j] = RecordsAt(HandPlace)[j - Len(disk[Current])]
        BY <2>4, <2>5, <2>6, <2>8, <2>12, <3>3
      <4> QED
        BY <2>5, <3>3, <4>1, PlaceTypes DEF InOrder
    <3>4. CASE m \notin DOMAIN disk[Current]
      <4>1. m > Len(disk[Current]) /\ j > Len(disk[Current]) /\ Len(disk[Current]) \in Nat
        BY <2>6, <2>8, <2>12, <3>1, <3>4
      <4>2. /\ m - Len(disk[Current]) \in DOMAIN RecordsAt(HandPlace)
            /\ j - Len(disk[Current]) \in DOMAIN RecordsAt(HandPlace)
            /\ RecordsAt(p)'[m] = RecordsAt(HandPlace)[m - Len(disk[Current])]
            /\ RecordsAt(q)'[j] = RecordsAt(HandPlace)[j - Len(disk[Current])]
        BY <2>4, <2>6, <2>8, <2>12, <4>1
      <4>3. m - Len(disk[Current]) < j - Len(disk[Current])
        BY <3>1, <4>1
      <4> QED
        BY <4>2, <4>3, PlaceTypes DEF InOrder
    <3> QED
      BY <3>2, <3>3, <3>4
  <2> QED
    BY <2>9, <2>10, <2>11, <2>12
<1> QED
  BY <1>4, <1>5

LEMMA OpenInOrder ==
    ASSUME TypeOK, TypeOK', InOrder, LogOpen \/ ReopenLog
    PROVE  InOrder'
<1>1. WhatIsWhere /\ WhatIsWhere'
  BY PlacesApart, PlacesApartThen
<1>2. /\ UNCHANGED <<theLogRecord, fQueueB, archive>>
      /\ disk' = disk \/ disk' = WithFile(disk, Current, << >>)
  BY DEF LogOpen, ReopenLog
<1>3. CASE disk' = disk
  BY <1>2, <1>3, UnmovedInOrder
<1>4. CASE disk' = WithFile(disk, Current, << >>)
  <2>0. /\ DOMAIN disk' = DOMAIN disk \cup {Current} /\ disk'[Current] = << >>
        /\ \A f \in DOMAIN disk : f # Current => disk'[f] = disk[f]
    BY <1>4 DEF WithFile
  <2> SUFFICES ASSUME NEW p \in Place PROVE RecordsAt(p)' \in {<< >>, RecordsAt(p)}
    BY SameInOrder
  <2>1. /\ p \in Place' /\ FileAt(p)' = FileAt(p)
        /\ HandPlace' = HandPlace /\ QueuePlace' = QueuePlace
    BY DEF Place, QueuePlace, HandPlace, CurrentPlace, FileAt
  <2>2. CASE FileAt(p) = Current
    <3>1. FileAt(p)' \in DOMAIN disk' /\ disk'[FileAt(p)'] = << >>
      BY <2>0, <2>1, <2>2
    <3> QED
      BY <1>1, <2>1, <3>1 DEF WhatIsWhere
  <2>3. CASE FileAt(p) # Current
    <3>1. FileAt(p) \in DOMAIN disk' <=> FileAt(p) \in DOMAIN disk
      BY <2>0, <2>3
    <3>2. FileAt(p) \in DOMAIN disk => disk'[FileAt(p)] = disk[FileAt(p)]
      BY <2>0, <2>3
    <3> QED
      BY <1>2, <2>1, <3>1, <3>2 DEF RecordsAt
  <2> QED
    BY <2>2, <2>3
<1> QED
  BY <1>2, <1>3, <1>4

LEMMA LoopInOrder ==
    ASSUME Framework, TypeOK', InOrder, UnlinkLog \/ RenameLog
    PROVE  InOrder'
<1>1. TypeOK /\ WhatIsWhere /\ WhatIsWhere'
  BY PlacesApart, PlacesApartThen DEF Framework
<1>2. UNCHANGED <<theLogRecord, fQueueB, archive>>
  BY LoopStep
<1>3. /\ Place' = Place /\ HandPlace' = HandPlace /\ QueuePlace' = QueuePlace
      /\ \A p \in Place : FileAt(p)' = FileAt(p)
  BY DEF Place, QueuePlace, HandPlace, CurrentPlace, FileAt
<1>4. CASE disk' = disk
  BY <1>2, <1>4, UnmovedInOrder
<1>5. CASE disk' = [f \in DOMAIN disk \ {i} |-> disk[f]]
  <2>1. DOMAIN disk' = DOMAIN disk \ {i} /\ \A f \in DOMAIN disk' : disk'[f] = disk[f]
    BY <1>5
  <2> SUFFICES ASSUME NEW p \in Place PROVE RecordsAt(p)' \in {<< >>, RecordsAt(p)}
    BY SameInOrder
  <2>2. CASE FileAt(p) \in DOMAIN disk'
    BY <1>1, <1>3, <2>1, <2>2 DEF WhatIsWhere
  <2>3. CASE FileAt(p) \notin DOMAIN disk' /\ p \in DOMAIN archive \cup {HandPlace, QueuePlace}
    BY <1>1, <1>2, <1>3, <2>3 DEF WhatIsWhere
  <2>4. CASE FileAt(p) \notin DOMAIN disk' /\ p \notin DOMAIN archive \cup {HandPlace, QueuePlace}
    BY <1>1, <1>2, <1>3, <2>4 DEF WhatIsWhere
  <2> QED
    BY <2>2, <2>3, <2>4
<1>6. CASE /\ i < fLogHistorySize /\ i \in DOMAIN disk /\ i + 1 \notin DOMAIN disk
           /\ DOMAIN disk' = (DOMAIN disk \ {i}) \cup {i + 1}
           /\ disk'[i + 1] = disk[i]
           /\ \A f \in DOMAIN disk \ {i} : disk'[f] = disk[f]
  <2> DEFINE src == [p \in Place |-> IF FileAt(p) = i + 1 THEN p + 1 ELSE p]
  <2>1. i \in Int /\ -1 <= i /\ i < fLogHistorySize
    BY <1>1, <1>6, LoopType
  \* The place of the next number is the one before that of the file.
  <2>2. ASSUME NEW p \in Place, FileAt(p) = i + 1
        PROVE  p + 1 \in Place /\ FileAt(p + 1) = i /\ p + 1 <= CurrentPlace
    <3>1. p + 1 <= CurrentPlace /\ p + 1 \in Nat /\ p + 1 >= 1
      BY <2>1, <2>2, PlaceTypes
    <3>2. p + 1 \in Place
      BY <3>1, PlaceTypes DEF Place
    <3>3. /\ FileAt(p + 1) = CurrentPlace - 1 - (p + 1) /\ FileAt(p) = CurrentPlace - 1 - p
          /\ CurrentPlace \in Nat /\ p \in Nat
      BY <3>2, PlaceTypes
    <3>4. FileAt(p + 1) = i
      BY <2>1, <2>2, <3>3
    <3> QED
      BY <3>1, <3>2, <3>4
  <2>3. \A p \in Place : src[p] = IF FileAt(p) = i + 1 THEN p + 1 ELSE p
    OBVIOUS
  <2>4. src \in [Place -> Place]
    BY <2>2
  <2> HIDE DEF src
  <2>5. ASSUME NEW p \in Place
        PROVE  RecordsAt(p)' = << >> \/ RecordsAt(p)' = RecordsAt(src[p])
    <3>1. CASE FileAt(p) = i + 1
      <4>1. RecordsAt(p)' = disk[i] /\ RecordsAt(p + 1) = disk[i]
        BY <1>1, <1>3, <1>6, <2>2, <3>1 DEF WhatIsWhere
      <4> QED
        BY <2>3, <3>1, <4>1
    <3>2. CASE FileAt(p) # i + 1 /\ FileAt(p) \in DOMAIN disk'
      BY <1>1, <1>3, <1>6, <2>3, <3>2 DEF WhatIsWhere
    <3>3. CASE FileAt(p) \notin DOMAIN disk' /\ p \in DOMAIN archive \cup {HandPlace, QueuePlace}
      BY <1>1, <1>2, <1>3, <1>6, <2>3, <3>3 DEF WhatIsWhere
    <3>4. CASE FileAt(p) \notin DOMAIN disk' /\ p \notin DOMAIN archive \cup {HandPlace, QueuePlace}
      BY <1>1, <1>2, <1>3, <3>4 DEF WhatIsWhere
    <3> QED
      BY <3>1, <3>2, <3>3, <3>4
  <2>6. ASSUME NEW p \in Place, NEW q \in Place, p < q, RecordsAt(p)' # << >>, RecordsAt(q)' # << >>
        PROVE  src[p] < src[q]
    <3>1. CASE FileAt(p) # i + 1
      BY <2>3, <2>6, <3>1, PlaceTypes
    <3>2. CASE FileAt(p) = i + 1
      \* The place after it is empty now.
      <4>1. FileAt(p + 1) = i /\ i \notin DOMAIN disk' /\ p + 1 \in Place
        BY <1>6, <2>1, <2>2, <3>2
      <4>2. p + 1 \notin DOMAIN archive
        BY <1>1, <1>6, <4>1 DEF WhatIsWhere
      <4>3. p + 1 # HandPlace /\ p + 1 # QueuePlace
        BY <2>2, <3>2, PlaceTypes
      <4>4. RecordsAt(p + 1)' = << >>
        <5>1. PICK r \in Place : r = p + 1
          BY <4>1
        <5>2. RecordsAt(r)' = << >>
          BY <1>1, <1>2, <1>3, <4>1, <4>2, <4>3, <5>1 DEF WhatIsWhere
        <5> QED
          BY <5>1, <5>2
      <4>5. p + 1 # q
        BY <2>6, <4>4
      <4>6. FileAt(q) # i + 1
        BY <2>6, <3>2, PlaceTypes
      <4> QED
        BY <2>3, <2>6, <3>2, <4>5, <4>6, PlaceTypes
    <3> QED
      BY <3>1, <3>2
  <2> QED
    BY <2>4, <2>5, <2>6, MovedInOrder
<1> QED
  BY <1>4, <1>5, <1>6, LoopMoves DEF LoopFiles

LEMMA RenameByDayInOrder ==
    ASSUME Framework, TypeOK', InOrder, RenameByDay
    PROVE  InOrder'
<1>1. TypeOK /\ WhatIsWhere /\ WhatIsWhere'
  BY PlacesApart, PlacesApartThen DEF Framework
<1>2. fRotationPolicy = "daily" /\ UNCHANGED <<theLogRecord, fQueueB>>
  BY DEF RenameByDay
<1>3. /\ Place' = Place /\ HandPlace' = HandPlace /\ QueuePlace' = QueuePlace
      /\ \A p \in Place : FileAt(p)' = FileAt(p)
  BY DEF Place, QueuePlace, HandPlace, CurrentPlace, FileAt
<1>4. CASE UNCHANGED fileVars
  BY <1>2, <1>4, UnmovedInOrder DEF fileVars
<1>5. CASE ~UNCHANGED fileVars
  <2>1. /\ Current \in DOMAIN disk /\ fCurrentDayStart \notin DOMAIN archive
        /\ archive' = WithFile(archive, fCurrentDayStart, disk[Current])
        /\ disk' = [f \in DOMAIN disk \ {Current} |-> disk[f]]
    BY <1>5, DayMoves
  <2>2. DOMAIN disk' = {} /\ DOMAIN archive' = DOMAIN archive \cup {fCurrentDayStart}
    BY <1>2, <2>1, WithFileType DEF Framework, ByPolicy
  <2>0. /\ archive'[fCurrentDayStart] = disk[Current]
        /\ \A d \in DOMAIN archive : d # fCurrentDayStart => archive'[d] = archive[d]
    BY <2>1 DEF WithFile
  <2> DEFINE src == [p \in Place |-> IF p = fCurrentDayStart THEN CurrentPlace ELSE p]
  <2>3. \A p \in Place : src[p] = IF p = fCurrentDayStart THEN CurrentPlace ELSE p
    OBVIOUS
  <2>4. src \in [Place -> Place]
    BY PlaceTypes
  <2> HIDE DEF src
  <2>5. RecordsAt(CurrentPlace) = disk[Current]
    BY <1>1, <2>1, PlaceTypes DEF WhatIsWhere
  <2>6. ASSUME NEW p \in Place
        PROVE  RecordsAt(p)' = << >> \/ RecordsAt(p)' = RecordsAt(src[p])
    <3>1. CASE p = fCurrentDayStart
      BY <1>1, <2>0, <2>2, <2>3, <2>5, <3>1 DEF WhatIsWhere
    <3>2. CASE p # fCurrentDayStart /\ p \in DOMAIN archive
      BY <1>1, <2>0, <2>2, <2>3, <3>2 DEF WhatIsWhere
    <3>3. CASE p # fCurrentDayStart /\ p \notin DOMAIN archive /\ p \in {HandPlace, QueuePlace}
      BY <1>1, <1>2, <1>3, <2>3, <3>3 DEF WhatIsWhere
    <3>4. CASE p # fCurrentDayStart /\ p \notin DOMAIN archive /\ p \notin {HandPlace, QueuePlace}
      BY <1>1, <1>3, <2>2, <3>4 DEF WhatIsWhere
    <3> QED
      BY <3>1, <3>2, <3>3, <3>4
  <2>7. ASSUME NEW p \in Place, NEW q \in Place, p < q, RecordsAt(p)' # << >>, RecordsAt(q)' # << >>
        PROVE  src[p] < src[q]
    <3>1. \A r \in Place : RecordsAt(r)' # << >> => \/ r \in DOMAIN archive \cup {fCurrentDayStart}
                                                   \/ r = HandPlace \/ r = QueuePlace
      BY <1>1, <1>3, <2>2 DEF WhatIsWhere
    <3>2. \A d \in DOMAIN archive : d < fCurrentDayStart /\ d < CurrentPlace
      <4>1. \A d \in DOMAIN archive : d \in Nat /\ fCurrentDayStart \in Nat /\ d <= fCurrentDayStart
        BY DaysType DEF Framework, TypeOK, Calendar
      <4> QED
        BY <1>1, <2>1, <4>1 DEF WhatIsWhere
    <3>3. fCurrentDayStart \in Nat /\ fCurrentDayStart <= Len(DayBegins)
      BY <1>1 DEF TypeOK, Days
    <3>4. fCurrentDayStart < CurrentPlace
      BY <3>3, PlaceTypes, DaysType, LogAssumption
    <3>5. \A d \in DOMAIN archive : d \in Nat
      BY <1>1, PlaceTypes DEF WhatIsWhere
    <3>6. CASE p = fCurrentDayStart
      <4>1. q \in {HandPlace, QueuePlace}
        BY <2>7, <3>1, <3>2, <3>3, <3>5, <3>6
      <4> QED
        BY <2>3, <3>4, <3>6, <4>1, PlaceTypes
    <3>7. CASE p # fCurrentDayStart /\ q = fCurrentDayStart
      BY <2>3, <2>7, <3>4, <3>7, PlaceTypes
    <3>8. CASE p # fCurrentDayStart /\ q # fCurrentDayStart
      BY <2>3, <2>7, <3>8
    <3> QED
      BY <3>6, <3>7, <3>8
  <2> QED
    BY <2>4, <2>6, <2>7, MovedInOrder
<1> QED
  BY <1>4, <1>5

LEMMA RestartInOrder ==
    ASSUME TypeOK, TypeOK', InOrder, Restart
    PROVE  InOrder'
<1>1. WhatIsWhere'
  BY PlacesApartThen
<1>2. RecordsAt(HandPlace)' = << >> /\ RecordsAt(QueuePlace)' = << >>
  BY <1>1 DEF Restart, WhatIsWhere, HandPlace, QueuePlace, CurrentPlace
<1>3. \A p \in Place : p # HandPlace /\ p # QueuePlace => RecordsAt(p)' = RecordsAt(p)
  BY DEF Restart, fileVars, RecordsAt, FileAt, HandPlace, QueuePlace, CurrentPlace
<1> QED
  BY <1>2, <1>3, SameInOrder

LEMMA NextInOrder ==
    ASSUME Framework, InOrder, [Next]_vars
    PROVE  InOrder'
<1>1. TypeOK /\ TypeOK' /\ HandsFree /\ FlagMatchesFile
  BY NextFramework DEF Framework
<1>2. CASE UNCHANGED <<archive, disk, theLogRecord, fQueueB>>
  BY <1>2, UnmovedInOrder
<1>3. ASSUME NEW w \in Writer, LogWrite(w) PROVE UNCHANGED <<archive, disk, theLogRecord, fQueueB>>
  BY <1>3 DEF LogWrite, threadVars, fileVars
<1>4. ASSUME NEW w \in Writer, EnQueue(w) PROVE InOrder'
  BY <1>1, <1>4, EnQueueInOrder
<1>5. CASE LogThread
  <2>1. UNCHANGED NotOfLogThread
    BY <1>5 DEF LogThread, NotOfLogThread
  <2>2. CASE LogOpen \/ ReopenLog
    BY <1>1, <2>2, OpenInOrder
  <2>3. CASE DeQueue
    BY <1>1, <2>1, <2>3, DeQueueInOrder
  <2>4. CASE TimedOut \/ CloseLog
    BY <1>2, <2>4 DEF TimedOut, CloseLog, fileVars
  <2>5. CASE UnlinkLog \/ RenameLog
    BY <1>1, <2>5, LoopInOrder
  <2>6. CASE RenameByDay
    BY <1>1, <2>6, RenameByDayInOrder
  <2>7. CASE WriteRecord
    BY <1>1, <2>1, <2>7, WriteInOrder
  <2> QED
    BY <1>5, <2>2, <2>3, <2>4, <2>5, <2>6, <2>7 DEF LogThread
<1>6. CASE Restart
  BY <1>1, <1>6, RestartInOrder
<1>7. CASE Tick \/ SendStopRequest \/ UNCHANGED vars
  BY <1>2, <1>7 DEF Tick, SendStopRequest, vars, threadVars, fileVars
<1> QED
  BY <1>2, <1>3, <1>4, <1>5, <1>6, <1>7 DEF Next

\* The files hold the records in the order they were queued, none of them
\* twice, whatever the policy, whatever fails and however often the process is
\* started again (RotateLog, WriteLogRecordToFile).
THEOREM AlwaysInOrder == Spec => []InOrder
<1>1. Init => InOrder
  <2> SUFFICES ASSUME Init PROVE InOrder
    OBVIOUS
  <2>1. WhatIsWhere
    BY InitFramework, PlacesApart DEF Framework
  <2>2. DOMAIN archive = {} /\ DOMAIN disk = {} /\ theLogRecord = << >> /\ fQueueB = << >>
    BY DEF Init
  <2>3. \A p \in Place : RecordsAt(p) = << >>
    BY <2>1, <2>2 DEF WhatIsWhere
  <2> QED
    BY <2>3 DEF InOrder
<1>2. Framework /\ InOrder /\ [Next]_vars => InOrder'
  BY NextInOrder
<1> QED
  BY <1>1, <1>2, AlwaysFramework, PTL DEF Spec

-----------------------------------------------------------------------------
(* What is lost.  While nothing has happened that the code has no answer   *)
(* to, the history has no gaps, the log thread has a file to write to, and *)
(* the file that RotateLog opens anew is not there.                        *)

Intact ==
    ~mishap =>
        /\ pc \in {"dequeue", "write", "append", "full"} => fLogFileHandle
        /\ pc = "rotate" => Current \in DOMAIN disk
        /\ pc = "reopen" => Current \notin DOMAIN disk
        /\ i < fLogHistorySize => i + 1 \notin DOMAIN disk

LEMMA LoopIntact ==
    ASSUME Framework, Intact, UnlinkLog \/ RenameLog
    PROVE  Intact'
<1> SUFFICES ASSUME ~mishap'
             PROVE  /\ pc' \in {"dequeue", "write", "append", "full"} => fLogFileHandle'
                    /\ pc' = "rotate" => Current \in DOMAIN disk'
                    /\ pc' = "reopen" => Current \notin DOMAIN disk'
                    /\ i' < fLogHistorySize => i' + 1 \notin DOMAIN disk'
  BY DEF Intact, Current
<1>1. /\ pc = "rotate" /\ ~mishap
      /\ \/ i = Current /\ pc' = "reopen" /\ i' = fLogHistorySize
         \/ i # Current /\ pc' = "rotate" /\ i' = i - 1
  BY LoopStep
<1>2. /\ Current \in DOMAIN disk /\ (i < fLogHistorySize => i + 1 \notin DOMAIN disk)
      /\ i \in Int /\ -1 <= i /\ i <= fLogHistorySize /\ fLogHistorySize \in Nat
  BY <1>1, LoopType, LogAssumption DEF Framework, Intact
<1>3. i \notin DOMAIN disk' /\ (i # Current => Current \in DOMAIN disk')
  BY <1>1, <1>2, LoopMoves DEF LoopFiles, Current
<1> QED
  BY <1>1, <1>2, <1>3 DEF Current

LEMMA NextIntact ==
    ASSUME Framework, Intact, [Next]_vars
    PROVE  Intact'
<1>1. ASSUME NEW w \in Writer, LogWrite(w) \/ EnQueue(w) PROVE Intact'
  BY <1>1 DEF LogWrite, EnQueue, Intact, threadVars, fileVars, Current
<1>2. CASE Tick \/ SendStopRequest \/ UNCHANGED vars
  BY <1>2 DEF Tick, SendStopRequest, Intact, vars, threadVars, fileVars, Current
<1>3. CASE Restart
  <2>1. ~(i' < fLogHistorySize) /\ pc' = "open"
    BY <1>3, LogAssumption DEF Restart
  <2> QED
    BY <2>1 DEF Intact
<1>4. CASE LogOpen \/ ReopenLog
  <2>1. /\ ~(i < fLogHistorySize) /\ i' = i
        /\ ~mishap' => /\ pc' = "ended" \/ (pc' \in {"dequeue", "append"} /\ fLogFileHandle')
    <3>1. CASE LogOpen
      <4>1. PICK opened \in BOOLEAN : /\ pc = "open" /\ i' = i /\ fLogFileHandle' = opened
                                      /\ pc' = IF opened THEN "dequeue" ELSE "ended"
        BY <3>1 DEF LogOpen, Goto
      <4> QED
        BY <4>1 DEF Framework, ByPolicy
    <3>2. CASE ReopenLog
      <4>1. pc = "reopen" /\ i' = i
        BY <3>2 DEF ReopenLog, Goto
      <4>2. PICK opened \in BOOLEAN : /\ fLogFileHandle' = opened /\ mishap' = (mishap \/ ~opened)
                                      /\ pc' \in {"ended", "dequeue", "append"}
        BY <3>2 DEF ReopenLog, Goto, AfterRecord
      <4> QED
        BY <4>1, <4>2 DEF Framework, ByPolicy
    <3> QED
      BY <1>4, <3>1, <3>2
  <2> QED
    BY <2>1 DEF Intact
<1>5. CASE DeQueue \/ TimedOut
  BY <1>5 DEF DeQueue, TimedOut, Goto, Intact, fileVars, Current
<1>6. CASE CloseLog
  BY <1>6 DEF CloseLog, Goto, Intact, fileVars, Framework, FlagMatchesFile, Current
<1>7. CASE WriteRecord
  <2>1. /\ pc \in {"append", "write"} /\ pc' \in {"full", "dequeue", "ended"} /\ i' = i
        /\ DOMAIN disk' = DOMAIN disk /\ mishap' = mishap /\ fLogFileHandle' = fLogFileHandle
    BY <1>7 DEF WriteRecord, IsFull, AfterRecord
  <2> QED
    BY <2>1 DEF Intact
<1>8. CASE RenameByDay
  BY <1>8 DEF RenameByDay, Goto, Intact, Framework, ByPolicy
<1>9. CASE LogThread
  BY <1>4, <1>5, <1>6, <1>7, <1>8, <1>9, LoopIntact DEF LogThread
<1> QED
  BY <1>1, <1>2, <1>3, <1>9 DEF Next

-----------------------------------------------------------------------------
(* Free numbers.  Below a file of the history there are no more of them    *)
(* than the loop has left behind, and the one it has free now.             *)

Missing(f) == {g \in 0 .. (f - 1) : g \notin DOMAIN disk}

Free(f) == IF i + 1 < f THEN cutShort + 1 ELSE cutShort

FewMissing(f) == Cardinality(Missing(f)) <= Free(f)

GapsBelow == ~mishap => \A f \in DOMAIN disk : FewMissing(f)

LEMMA MissingFinite ==
    ASSUME NEW f \in Int
    PROVE  IsFiniteSet(Missing(f)) /\ Cardinality(Missing(f)) \in Nat
<1>1. IsFiniteSet(0 .. (f - 1))
  BY FS_Interval
<1>2. Missing(f) \subseteq 0 .. (f - 1)
  BY DEF Missing
<1> QED
  BY <1>1, <1>2, FS_Subset, FS_CardinalityType

\* Of all the files together no more are missing than below the next number.
LEMMA FullIsFewMissing ==
    ASSUME TypeOK
    PROVE  HistoryIsFull <=> FewMissing(fLogHistorySize + 1)
<1>1. History \ DOMAIN disk = Missing(fLogHistorySize + 1)
  BY LogAssumption DEF History, Missing
<1>2. i + 1 < fLogHistorySize + 1 <=> i < fLogHistorySize
  BY LoopType, LogAssumption
<1>3. cutShort \in Nat
  BY DEF TypeOK
<1> QED
  BY <1>1, <1>2, <1>3 DEF HistoryIsFull, FewMissing, Free

LEMMA FullIsFewMissingThen == TypeOK' => (HistoryIsFull' <=> FewMissing(fLogHistorySize + 1)')
  BY FullIsFewMissing, PTL

\* Whatever leaves the numbers of the history and the loop alone.
LEMMA SameMissing ==
    ASSUME \A f \in Int : f >= 0 => (f \in DOMAIN disk' <=> f \in DOMAIN disk), UNCHANGED <<i, cutShort>>
    PROVE  \A f \in Int : FewMissing(f)' <=> FewMissing(f)
<1> SUFFICES ASSUME NEW f \in Int PROVE FewMissing(f)' <=> FewMissing(f)
  OBVIOUS
<1>1. Missing(f)' = Missing(f)
  BY DEF Missing
<1> QED
  BY <1>1 DEF FewMissing, Free

\* One more number is missing, and one other is not: as many as before.
LEMMA OneForAnother ==
    ASSUME NEW S, IsFiniteSet(S), NEW a \in S, NEW b, b \notin S
    PROVE  /\ IsFiniteSet((S \ {a}) \cup {b})
           /\ Cardinality((S \ {a}) \cup {b}) = Cardinality(S)
           /\ Cardinality(S \ {a}) = Cardinality(S) - 1
           /\ Cardinality(S \cup {b}) = Cardinality(S) + 1
<1>1. IsFiniteSet(S \ {a}) /\ Cardinality(S \ {a}) = Cardinality(S) - 1
  BY FS_RemoveElement
<1>2. /\ IsFiniteSet((S \ {a}) \cup {b})
      /\ Cardinality((S \ {a}) \cup {b}) = Cardinality(S \ {a}) + 1
  BY <1>1, FS_AddElement
<1>3. Cardinality(S \cup {b}) = Cardinality(S) + 1
  BY FS_AddElement
<1>4. Cardinality(S) \in Nat
  BY FS_CardinalityType
<1> QED
  BY <1>1, <1>2, <1>3, <1>4

\* As many numbers are missing as before, and as many may be.
LEMMA StillFew ==
    ASSUME NEW f \in Int, FewMissing(f), Missing(f)' = Missing(f),
           cutShort \in Nat, UNCHANGED cutShort, i + 1 < f => i' + 1 < f
    PROVE  FewMissing(f)'
<1>1. Cardinality(Missing(f)) \in Nat
  BY MissingFinite
<1>2. Free(f) \in Nat /\ Free(f)' \in Nat /\ Free(f) <= Free(f)'
  <2>1. CASE i + 1 < f
    BY <2>1 DEF Free
  <2>2. CASE ~(i + 1 < f)
    BY <2>2 DEF Free
  <2> QED
    BY <2>1, <2>2
<1>3. Cardinality(Missing(f)) <= Free(f)
  BY DEF FewMissing
<1>4. Cardinality(Missing(f)) <= Free(f)'
  BY <1>1, <1>2, <1>3
<1>5. Cardinality(Missing(f)') <= Free(f)'
  BY <1>4
<1> QED
  BY <1>5 DEF FewMissing

\* A call of the loop.  The files and, if records have been lost, the number
\* after the last one are what the bound is about.
LEMMA LoopFewMissing ==
    ASSUME Framework, Intact, UnlinkLog \/ RenameLog, ~mishap',
           \A f \in DOMAIN disk : FewMissing(f),
           NEW f \in Int, 0 <= f, f <= fLogHistorySize + 1,
           UNCHANGED cutShort,
           f \in DOMAIN disk' \/ (f = fLogHistorySize + 1 /\ (FewMissing(f) \/ (i = fLogHistorySize /\ i \in DOMAIN disk)))
    PROVE  FewMissing(f)'
<1>1. /\ pc = "rotate" /\ ~mishap
      /\ \/ i = Current /\ i' = fLogHistorySize
         \/ i # Current /\ i' = i - 1
  BY LoopStep
<1>2. /\ Current \in DOMAIN disk /\ (i < fLogHistorySize => i + 1 \notin DOMAIN disk)
      /\ i \in Int /\ -1 <= i /\ i <= fLogHistorySize /\ fLogHistorySize \in Nat
      /\ cutShort \in Nat
  BY <1>1, LoopType, LogAssumption DEF Framework, Intact, TypeOK
<1>3. \A g \in Int : IsFiniteSet(Missing(g)) /\ Cardinality(Missing(g)) \in Nat
  BY MissingFinite
\* Nothing is moved: there is no file of the number.
<1>4. CASE disk' = disk
  <2>1. i # Current /\ i \notin DOMAIN disk /\ i' = i - 1
    BY <1>1, <1>2, <1>4, LoopMoves DEF LoopFiles
  <2>2. Missing(f)' = Missing(f)
    BY <1>4 DEF Missing
  <2>3. FewMissing(f)
    BY <1>4, <2>1
  <2>4. i + 1 < f => i' + 1 < f
    BY <1>2, <2>1
  <2> QED
    BY <1>2, <2>2, <2>3, <2>4, StillFew
\* The last file of the history is deleted.
<1>5. CASE i = fLogHistorySize /\ disk' = [g \in DOMAIN disk \ {i} |-> disk[g]]
  <2>1. DOMAIN disk' = DOMAIN disk \ {i} /\ i' = i - 1 /\ i >= 0
    BY <1>1, <1>2, <1>5 DEF Current
  <2>2. CASE f \in DOMAIN disk'
    <3>0. f < i
      <4>1. \A g \in DOMAIN disk : g \in Int /\ g <= fLogHistorySize
        BY FileNumbers DEF Framework
      <4> QED
        BY <1>2, <1>5, <2>1, <2>2, <4>1
    <3>1. Missing(f)' = Missing(f)
      BY <1>2, <2>1, <3>0 DEF Missing
    <3>2. FewMissing(f)
      BY <2>1, <2>2
    <3>3. i + 1 < f => i' + 1 < f
      BY <1>2, <2>1
    <3> QED
      BY <1>2, <3>1, <3>2, <3>3, StillFew
  <2>3. CASE f \notin DOMAIN disk' /\ i \notin DOMAIN disk
    <3>1. Missing(f)' = Missing(f)
      BY <2>1, <2>3 DEF Missing
    <3>2. FewMissing(f)
      BY <2>3
    <3>3. i + 1 < f => i' + 1 < f
      BY <1>2, <2>1
    <3> QED
      BY <1>2, <3>1, <3>2, <3>3, StillFew
  <2>4. CASE f \notin DOMAIN disk' /\ i \in DOMAIN disk
    <3>1. f = i + 1 /\ Missing(f)' = Missing(i) \cup {i} /\ i \notin Missing(i)
      BY <1>2, <1>5, <2>1, <2>4 DEF Missing
    <3>2. Cardinality(Missing(i) \cup {i}) = Cardinality(Missing(i)) + 1
      BY <1>2, <1>3, <3>1, FS_AddElement
    <3>3. Cardinality(Missing(i)) <= cutShort /\ Free(f)' = cutShort + 1
      BY <1>2, <2>1, <2>4, <3>1 DEF FewMissing, Free
    <3> QED
      BY <1>2, <1>3, <3>1, <3>2, <3>3 DEF FewMissing
  <2> QED
    BY <2>2, <2>3, <2>4
\* A file has the next number.
<1>6. CASE /\ i < fLogHistorySize /\ i \in DOMAIN disk /\ i + 1 \notin DOMAIN disk
           /\ DOMAIN disk' = (DOMAIN disk \ {i}) \cup {i + 1}
  <2>1. CASE f < i
    <3>1. Missing(f)' = Missing(f)
      BY <1>2, <1>6, <2>1 DEF Missing
    <3>2. FewMissing(f) /\ Free(f) = cutShort /\ Free(f)' = cutShort
      BY <1>1, <1>2, <1>6, <2>1 DEF Free
    <3> QED
      BY <3>1, <3>2 DEF FewMissing
  <2>2. CASE f = i + 1 /\ i # Current
    <3>1. Missing(f)' = Missing(i) \cup {i} /\ i \notin Missing(i)
      BY <1>2, <1>6, <2>2 DEF Missing, Current
    <3>2. Cardinality(Missing(i) \cup {i}) = Cardinality(Missing(i)) + 1
      BY <1>2, <1>3, <3>1, FS_AddElement
    <3>3. Cardinality(Missing(i)) <= cutShort /\ Free(f)' = cutShort + 1
      BY <1>1, <1>2, <1>6, <2>2 DEF FewMissing, Free
    <3> QED
      BY <1>2, <1>3, <3>1, <3>2, <3>3 DEF FewMissing
  <2>3. CASE f = i + 1 /\ i = Current
    <3>1. Missing(f)' = {}
      BY <2>3 DEF Missing, Current
    <3>2. Cardinality(Missing(f)') = 0 /\ Free(f)' \in Nat
      BY <1>2, <3>1, FS_EmptySet DEF Free
    <3> QED
      BY <3>2 DEF FewMissing
  <2>4. CASE f > i + 1 /\ i # Current
    <3>1. /\ Missing(f)' = (Missing(f) \ {i + 1}) \cup {i}
          /\ i + 1 \in Missing(f) /\ i \notin Missing(f)
      BY <1>2, <1>6, <2>4 DEF Missing, Current
    <3>2. Cardinality((Missing(f) \ {i + 1}) \cup {i}) = Cardinality(Missing(f))
      BY <1>3, <3>1, OneForAnother
    <3>3. FewMissing(f) /\ Free(f) = cutShort + 1 /\ Free(f)' = cutShort + 1
      BY <1>1, <1>2, <1>6, <2>4 DEF Free
    <3> QED
      BY <3>1, <3>2, <3>3 DEF FewMissing
  <2>5. CASE f > i + 1 /\ i = Current
    <3>1. Missing(f)' = Missing(f) \ {i + 1} /\ i + 1 \in Missing(f)
      BY <1>2, <1>6, <2>5 DEF Missing, Current
    <3>2. Cardinality(Missing(f) \ {i + 1}) = Cardinality(Missing(f)) - 1
      BY <1>3, <3>1, FS_RemoveElement
    <3>3. FewMissing(f) /\ Free(f) = cutShort + 1 /\ Free(f)' = cutShort
      BY <1>1, <1>2, <1>6, <2>5 DEF Free, Current
    <3> QED
      BY <1>2, <1>3, <3>1, <3>2, <3>3 DEF FewMissing
  <2> QED
    BY <1>2, <1>6, <2>1, <2>2, <2>3, <2>4, <2>5
<1> QED
  BY <1>4, <1>5, <1>6, LoopMoves DEF LoopFiles

LEMMA NextGapsBelow ==
    ASSUME Framework, Intact, GapsBelow, [Next]_vars
    PROVE  GapsBelow'
<1> SUFFICES ASSUME ~mishap' PROVE \A f \in DOMAIN disk' : FewMissing(f)'
  BY DEF GapsBelow
<1>1. /\ \A f \in DOMAIN disk : f \in Int /\ -1 <= f /\ f <= fLogHistorySize
      /\ \A f \in DOMAIN disk' : f \in Int /\ -1 <= f /\ f <= fLogHistorySize
      /\ cutShort \in Nat /\ cutShort' \in Nat
      /\ ~(i < fLogHistorySize) \/ (pc = "rotate" /\ fRotationPolicy = "by_size")
  <2>1. TypeOK /\ TypeOK'
    BY NextFramework DEF Framework
  <2>2. \A f \in DOMAIN disk' : f \in Int /\ -1 <= f /\ f <= fLogHistorySize
    <3>1. DOMAIN disk' \subseteq {Current} \cup History
      BY <2>1 DEF TypeOK, Current, History
    <3>2. \A f \in {Current} \cup History : f \in Int /\ -1 <= f /\ f <= fLogHistorySize
      BY LogAssumption DEF Current, History
    <3> QED
      BY <3>1, <3>2
  <2> QED
    BY <2>1, <2>2, FileNumbers DEF TypeOK, Framework, ByPolicy
\* Below the current file there are no numbers.
<1>2. FewMissing(Current)'
  <2>1. Missing(Current)' = {}
    BY DEF Missing, Current
  <2>2. Cardinality({}) = 0
    BY FS_EmptySet
  <2>3. Free(Current)' >= 0
    <3>1. Free(Current)' = cutShort' \/ Free(Current)' = cutShort' + 1
      BY DEF Free
    <3> QED
      BY <1>1, <3>1
  <2> QED
    BY <2>1, <2>2, <2>3 DEF FewMissing, Current
<1>3. ASSUME UNCHANGED <<i, cutShort>>, mishap => mishap',
             \A f \in Int : f >= 0 => (f \in DOMAIN disk' <=> f \in DOMAIN disk)
      PROVE  \A f \in DOMAIN disk' : FewMissing(f)'
  <2> SUFFICES ASSUME NEW f \in DOMAIN disk', f # Current PROVE FewMissing(f)'
    BY <1>2
  <2>1. f \in Int /\ f >= 0 /\ f \in DOMAIN disk
    BY <1>1, <1>3 DEF Current
  <2>2. FewMissing(f)
    BY <1>3, <2>1 DEF GapsBelow
  <2> QED
    BY <1>3, <2>1, <2>2, SameMissing
<1>4. ASSUME NEW w \in Writer, LogWrite(w) \/ EnQueue(w) PROVE \A f \in DOMAIN disk' : FewMissing(f)'
  BY <1>3, <1>4 DEF LogWrite, EnQueue, threadVars, fileVars
<1>5. CASE Tick \/ SendStopRequest \/ UNCHANGED vars
  BY <1>3, <1>5 DEF Tick, SendStopRequest, vars, threadVars, fileVars
<1>6. CASE Restart
  <2> SUFFICES ASSUME NEW f \in DOMAIN disk' PROVE FewMissing(f)'
    OBVIOUS
  <2>1. f \in DOMAIN disk /\ ~mishap /\ Missing(f)' = Missing(f)
    BY <1>6 DEF Restart, fileVars, Missing
  <2>2. FewMissing(f) /\ IsFiniteSet(Missing(f)) /\ Cardinality(Missing(f)) \in Nat
    BY <1>1, <2>1, MissingFinite DEF GapsBelow
  <2>3. Free(f) <= Free(f)' /\ Free(f) \in Nat /\ Free(f)' \in Nat
    <3>1. f \in Int /\ f <= fLogHistorySize /\ i' = fLogHistorySize /\ fLogHistorySize \in Nat
      BY <1>1, <1>6, <2>1, LogAssumption DEF Restart
    <3>2. i \in Int /\ i <= fLogHistorySize
      BY LoopType DEF Framework
    <3>3. cutShort' = IF i < fLogHistorySize THEN cutShort + 1 ELSE cutShort
      BY <1>6 DEF Restart
    <3> QED
      BY <1>1, <3>1, <3>2, <3>3 DEF Free
  <2> QED
    BY <2>1, <2>2, <2>3 DEF FewMissing
<1>7. CASE LogThread
  <2>1. UNCHANGED cutShort
    BY <1>7 DEF LogThread
  <2>2. CASE LogOpen \/ ReopenLog
    <3>1. i' = i /\ (mishap => mishap') /\ (disk' = disk \/ disk' = WithFile(disk, Current, << >>))
      <4>1. CASE LogOpen
        BY <4>1 DEF LogOpen
      <4>2. CASE ReopenLog
        BY <4>2 DEF ReopenLog
      <4> QED
        BY <2>2, <4>1, <4>2
    <3> QED
      BY <1>3, <2>1, <3>1 DEF WithFile, Current
  <2>3. CASE DeQueue \/ TimedOut \/ CloseLog
    BY <1>3, <2>1, <2>3 DEF DeQueue, TimedOut, CloseLog, fileVars
  <2>4. CASE WriteRecord
    <3>1. i' = i /\ mishap' = mishap /\ DOMAIN disk' = DOMAIN disk
      BY <2>4 DEF WriteRecord
    <3> QED
      BY <1>3, <2>1, <3>1
  <2>5. CASE RenameByDay
    <3>1. i' = i /\ (mishap => mishap') /\ DOMAIN disk' \subseteq DOMAIN disk /\ fRotationPolicy = "daily"
      BY <2>5 DEF RenameByDay, Restrict, fileVars
    <3>2. DOMAIN disk' \subseteq {Current}
      BY <3>1 DEF Framework, ByPolicy
    <3> QED
      BY <1>2, <3>2
  <2>6. CASE UnlinkLog \/ RenameLog
    <3> SUFFICES ASSUME NEW f \in DOMAIN disk', f # Current PROVE FewMissing(f)'
      BY <1>2
    <3>1. f \in Int /\ 0 <= f /\ f <= fLogHistorySize /\ fLogHistorySize \in Nat
      BY <1>1, LogAssumption DEF Current
    <3>2. \A g \in DOMAIN disk : FewMissing(g)
      BY <2>6, LoopStep DEF GapsBelow
    <3> QED
      BY <2>1, <2>6, <3>1, <3>2, LoopFewMissing
  <2> QED
    BY <1>7, <2>2, <2>3, <2>4, <2>5, <2>6 DEF LogThread
<1> QED
  BY <1>4, <1>5, <1>6, <1>7 DEF Next

-----------------------------------------------------------------------------
(* What is held.                                                           *)

LEMMA SameFull ==
    ASSUME History \cap DOMAIN disk' = History \cap DOMAIN disk, UNCHANGED <<i, cutShort>>
    PROVE  HistoryIsFull' <=> HistoryIsFull
<1>1. History' \ DOMAIN disk' = History \ DOMAIN disk
  BY DEF History
<1> QED
  BY <1>1 DEF HistoryIsFull

\* As long as every place holds what it held nothing is lost.
LEMMA UnmovedNothingLost ==
    ASSUME NothingLost, UNCHANGED accepted, mishap => mishap',
           \A p \in Place : RecordsAt(p)' = RecordsAt(p),
           HistoryIsFull => HistoryIsFull'
    PROVE  NothingLost'
<1>1. Place' = Place /\ Records' = Records
  BY DEF Place, QueuePlace, CurrentPlace, Records
<1>2. \A r : Held(r)' <=> Held(r)
  BY <1>1 DEF Held
<1> QED
  BY <1>1, <1>2 DEF NothingLost

\* As above, with the records moved.
LEMMA HeldNothingLost ==
    ASSUME NothingLost, UNCHANGED accepted, mishap => mishap', \A r : Held(r)' <=> Held(r),
           HistoryIsFull => HistoryIsFull'
    PROVE  NothingLost'
  BY DEF NothingLost, Records

LEMMA EnQueueNothingLost ==
    ASSUME TypeOK, TypeOK', NothingLost, NEW w \in Writer, EnQueue(w)
    PROVE  NothingLost'
<1>1. WhatIsWhere /\ WhatIsWhere'
  BY PlacesApart, PlacesApartThen
<1>2. \A p \in Place : p # QueuePlace => RecordsAt(p)' = RecordsAt(p)
  BY DEF EnQueue, threadVars, fileVars, RecordsAt, FileAt, HandPlace, QueuePlace, CurrentPlace
<1>3. /\ RecordsAt(QueuePlace) = fQueueB /\ RecordsAt(QueuePlace)' = Append(fQueueB, accepted + 1)
      /\ fQueueB \in Seq(Records) /\ accepted \in Nat /\ accepted' = accepted + 1
  BY <1>1 DEF WhatIsWhere, EnQueue, QueuePlace, CurrentPlace, TypeOK
<1>4. ToSet(RecordsAt(QueuePlace)') = ToSet(RecordsAt(QueuePlace)) \cup {accepted + 1}
  BY <1>3 DEF ToSet
<1>5. \A r : Held(r)' <=> Held(r) \/ r = accepted + 1
  <2>1. Place' = Place
    BY DEF Place, QueuePlace, CurrentPlace
  <2> QED
    BY <1>2, <1>4, <2>1, PlaceTypes DEF Held
<1>6. mishap' = mishap /\ (HistoryIsFull' <=> HistoryIsFull)
  BY SameFull DEF EnQueue, fileVars, threadVars
<1> SUFFICES ASSUME ~mishap'
             PROVE  /\ \A r \in Records' : Held(r)' => \A s \in r .. accepted' : Held(s)'
                    /\ (\E r \in Records' : ~Held(r)') => HistoryIsFull'
  BY DEF NothingLost
<1>7. /\ \A r \in Records : Held(r) => \A s \in r .. accepted : Held(s)
      /\ (\E r \in Records : ~Held(r)) => HistoryIsFull
  BY <1>6 DEF NothingLost
<1>8. \A r \in Records' : r \in Records \/ r = accepted + 1
  BY <1>3 DEF Records
<1>9. ASSUME NEW r \in Records', Held(r)', NEW s \in r .. accepted' PROVE Held(s)'
  <2>1. CASE s = accepted + 1
    BY <1>5, <2>1
  <2>2. CASE s # accepted + 1
    <3>1. r \in Records /\ s \in r .. accepted /\ r # accepted + 1
      BY <1>3, <1>8, <2>2 DEF Records
    <3> QED
      BY <1>5, <1>7, <1>9, <3>1
  <2> QED
    BY <2>1, <2>2
<1>10. ASSUME NEW r \in Records', ~Held(r)' PROVE HistoryIsFull'
  BY <1>5, <1>6, <1>7, <1>8, <1>10
<1> QED
  BY <1>9, <1>10

LEMMA DeQueueNothingLost ==
    ASSUME TypeOK, TypeOK', HandsFree, NothingLost, DeQueue, UNCHANGED NotOfLogThread
    PROVE  NothingLost'
<1>1. WhatIsWhere /\ WhatIsWhere'
  BY PlacesApart, PlacesApartThen
<1>2. \A p \in Place : p # QueuePlace /\ p # HandPlace => RecordsAt(p)' = RecordsAt(p)
  BY DEF DeQueue, fileVars, RecordsAt, FileAt, HandPlace, QueuePlace, CurrentPlace
<1>3. /\ RecordsAt(QueuePlace) = fQueueB /\ RecordsAt(QueuePlace)' = Tail(fQueueB)
      /\ RecordsAt(HandPlace) = << >> /\ RecordsAt(HandPlace)' = <<Head(fQueueB)>>
      /\ fQueueB \in Seq(Records) /\ fQueueB # << >>
  BY <1>1 DEF WhatIsWhere, DeQueue, Goto, HandsFree, HandPlace, QueuePlace, CurrentPlace, TypeOK
<1>4. /\ \A r : r \in ToSet(fQueueB) <=> r = Head(fQueueB) \/ r \in ToSet(Tail(fQueueB))
      /\ \A r : r \in ToSet(<<Head(fQueueB)>>) <=> r = Head(fQueueB)
      /\ \A r : r \notin ToSet(<< >>)
  <2>1. /\ \A m \in DOMAIN Tail(fQueueB) : m + 1 \in DOMAIN fQueueB /\ Tail(fQueueB)[m] = fQueueB[m + 1]
        /\ \A m \in DOMAIN fQueueB : m = 1 \/ m - 1 \in DOMAIN Tail(fQueueB)
        /\ \A m \in DOMAIN fQueueB : m # 1 => fQueueB[m] = Tail(fQueueB)[m - 1]
        /\ 1 \in DOMAIN fQueueB /\ Head(fQueueB) = fQueueB[1]
    BY <1>3
  <2> QED
    BY <2>1 DEF ToSet
<1>5. \A r : Held(r)' <=> Held(r)
  <2>1. Place' = Place
    BY DEF Place, QueuePlace, CurrentPlace
  <2>2. HandPlace \in Place /\ QueuePlace \in Place
    BY PlaceTypes
  <2>3. ASSUME NEW r, Held(r) PROVE Held(r)'
    <3>1. PICK p \in Place : r \in ToSet(RecordsAt(p))
      BY <2>3 DEF Held
    <3>2. \E q \in Place : r \in ToSet(RecordsAt(q)')
      BY <1>2, <1>3, <1>4, <2>2, <3>1
    <3> QED
      BY <2>1, <3>2 DEF Held
  <2>4. ASSUME NEW r, Held(r)' PROVE Held(r)
    <3>1. PICK p \in Place : r \in ToSet(RecordsAt(p)')
      BY <2>1, <2>4 DEF Held
    <3>2. \E q \in Place : r \in ToSet(RecordsAt(q))
      BY <1>2, <1>3, <1>4, <2>2, <3>1
    <3> QED
      BY <3>2 DEF Held
  <2> QED
    BY <2>3, <2>4
<1> QED
  BY <1>5, HeldNothingLost, SameFull DEF DeQueue, NotOfLogThread, fileVars

LEMMA WriteNothingLost ==
    ASSUME Framework, TypeOK', Intact, NothingLost, WriteRecord, UNCHANGED NotOfLogThread
    PROVE  NothingLost'
<1> SUFFICES ASSUME ~mishap' PROVE NothingLost'
  BY DEF NothingLost
<1>1. TypeOK /\ WhatIsWhere /\ WhatIsWhere'
  BY PlacesApart, PlacesApartThen DEF Framework
<1>2. fLogFileHandle /\ Current \in DOMAIN disk
  BY DEF WriteRecord, Intact, Framework, FlagMatchesFile
<1>3. /\ disk' = [disk EXCEPT ![Current] = @ \o theLogRecord] /\ theLogRecord' = << >>
      /\ UNCHANGED <<fQueueB, archive, mishap, accepted, i, cutShort>>
  BY <1>2 DEF WriteRecord, NotOfLogThread
<1>4. /\ DOMAIN disk' = DOMAIN disk /\ disk'[Current] = disk[Current] \o theLogRecord
      /\ \A f \in DOMAIN disk : f # Current => disk'[f] = disk[f]
  BY <1>2, <1>3
<1>5. /\ Place' = Place /\ HandPlace' = HandPlace /\ QueuePlace' = QueuePlace
      /\ \A p \in Place : FileAt(p)' = FileAt(p)
  BY DEF Place, QueuePlace, HandPlace, CurrentPlace, FileAt
<1>6. \A p \in Place : p # HandPlace /\ p # CurrentPlace => RecordsAt(p)' = RecordsAt(p)
  <2> TAKE p \in Place
  <2> HAVE p # HandPlace /\ p # CurrentPlace
  <2>1. FileAt(p) # Current
    BY PlaceTypes DEF Current
  <2> QED
    BY <1>3, <1>4, <1>5, <2>1 DEF RecordsAt
<1>7. RecordsAt(HandPlace)' = << >> /\ RecordsAt(HandPlace) = theLogRecord
  BY <1>1, <1>3, <1>5 DEF WhatIsWhere
<1>8. RecordsAt(CurrentPlace) = disk[Current] /\ RecordsAt(CurrentPlace)' = disk[Current] \o theLogRecord
  BY <1>1, <1>2, <1>4, <1>5, PlaceTypes DEF WhatIsWhere, CurrentPlace
<1>9. disk[Current] \in Seq(Records) /\ theLogRecord \in Seq(Records)
  BY <1>1, <1>7, <1>8, PlaceTypes DEF WhatIsWhere
<1>10. /\ \A r : r \in ToSet(disk[Current] \o theLogRecord)
                   <=> r \in ToSet(disk[Current]) \/ r \in ToSet(theLogRecord)
       /\ \A r : r \notin ToSet(<< >>)
  <2> DEFINE s == disk[Current]
             t == theLogRecord
  <2>1. s \in Seq(Records) /\ t \in Seq(Records)
    BY <1>9
  <2> HIDE DEF s, t
  <2>2. /\ \A m \in DOMAIN s : m \in DOMAIN (s \o t) /\ (s \o t)[m] = s[m]
        /\ \A m \in DOMAIN t : m + Len(s) \in DOMAIN (s \o t) /\ (s \o t)[m + Len(s)] = t[m]
        /\ \A m \in DOMAIN (s \o t) : \/ m \in DOMAIN s
                                      \/ m - Len(s) \in DOMAIN t /\ (s \o t)[m] = t[m - Len(s)]
    BY <2>1
  <2>3. \A r : r \in ToSet(s \o t) <=> r \in ToSet(s) \/ r \in ToSet(t)
    BY <2>2 DEF ToSet
  <2>4. \A r : r \notin ToSet(<< >>)
    BY DEF ToSet
  <2> QED
    BY <2>3, <2>4 DEF s, t
<1>11. \A r : Held(r)' <=> Held(r)
  <2>1. HandPlace \in Place /\ CurrentPlace \in Place
    BY PlaceTypes
  <2>2. ASSUME NEW r, Held(r) PROVE Held(r)'
    <3>1. PICK p \in Place : r \in ToSet(RecordsAt(p))
      BY <2>2 DEF Held
    <3>2. \E q \in Place : r \in ToSet(RecordsAt(q)')
      BY <1>6, <1>7, <1>8, <1>10, <2>1, <3>1
    <3> QED
      BY <1>5, <3>2 DEF Held
  <2>3. ASSUME NEW r, Held(r)' PROVE Held(r)
    <3>1. PICK p \in Place : r \in ToSet(RecordsAt(p)')
      BY <1>5, <2>3 DEF Held
    <3>2. \E q \in Place : r \in ToSet(RecordsAt(q))
      BY <1>6, <1>7, <1>8, <1>10, <2>1, <3>1
    <3> QED
      BY <3>2 DEF Held
  <2> QED
    BY <2>2, <2>3
<1> QED
  BY <1>3, <1>4, <1>11, HeldNothingLost, SameFull

LEMMA OpenNothingLost ==
    ASSUME Framework, TypeOK', Intact, NothingLost, LogOpen \/ ReopenLog, UNCHANGED NotOfLogThread
    PROVE  NothingLost'
<1> SUFFICES ASSUME ~mishap' PROVE NothingLost'
  BY DEF NothingLost
<1>1. TypeOK /\ WhatIsWhere /\ WhatIsWhere'
  BY PlacesApart, PlacesApartThen DEF Framework
<1>2. /\ UNCHANGED <<theLogRecord, fQueueB, archive, mishap, accepted, i, cutShort>>
      /\ disk' = disk \/ (Current \notin DOMAIN disk /\ disk' = WithFile(disk, Current, << >>))
  <2>1. CASE LogOpen
    BY <2>1 DEF LogOpen, NotOfLogThread
  <2>2. CASE ReopenLog
    BY <2>2 DEF ReopenLog, Goto, Intact, Framework, TypeOK, NotOfLogThread
  <2> QED
    BY <2>1, <2>2
<1>3. /\ DOMAIN disk \subseteq DOMAIN disk'
      /\ \A f \in DOMAIN disk : disk'[f] = disk[f]
      /\ \A f \in DOMAIN disk' : f \notin DOMAIN disk => disk'[f] = << >>
  BY <1>2 DEF WithFile
<1>4. /\ Place' = Place /\ HandPlace' = HandPlace /\ QueuePlace' = QueuePlace
      /\ \A p \in Place : FileAt(p)' = FileAt(p)
  BY DEF Place, QueuePlace, HandPlace, CurrentPlace, FileAt
<1>5. ASSUME NEW p \in Place PROVE RecordsAt(p)' = RecordsAt(p)
  <2>1. CASE FileAt(p) \in DOMAIN disk'
    <3>1. RecordsAt(p)' = disk'[FileAt(p)] /\ p \notin DOMAIN archive' /\ p # HandPlace /\ p # QueuePlace
      <4>1. /\ p <= CurrentPlace' /\ CurrentPlace' = CurrentPlace
            /\ RecordsAt(p)' = disk'[FileAt(p)] /\ p \notin DOMAIN archive'
        BY <1>1, <1>4, <2>1 DEF WhatIsWhere, CurrentPlace
      <4> QED
        BY <4>1, PlaceTypes
    <3>2. CASE FileAt(p) \in DOMAIN disk
      BY <1>1, <1>3, <3>1, <3>2 DEF WhatIsWhere
    <3>3. CASE FileAt(p) \notin DOMAIN disk
      BY <1>1, <1>2, <1>3, <2>1, <3>1, <3>3 DEF WhatIsWhere
    <3> QED
      BY <3>2, <3>3
  <2>2. CASE FileAt(p) \notin DOMAIN disk'
    BY <1>2, <1>3, <1>4, <2>2 DEF RecordsAt
  <2> QED
    BY <2>1, <2>2
<1>6. History \cap DOMAIN disk' = History \cap DOMAIN disk
  BY <1>2, LogAssumption DEF WithFile, History, Current
<1> QED
  BY <1>2, <1>5, <1>6, UnmovedNothingLost, SameFull

\* By day the current file becomes the file of its day.
LEMMA RenameByDayNothingLost ==
    ASSUME Framework, TypeOK', NothingLost, RenameByDay, ~UNCHANGED fileVars,
           UNCHANGED <<accepted, cutShort>>
    PROVE  NothingLost'
<1>1. TypeOK /\ WhatIsWhere /\ WhatIsWhere'
  BY PlacesApart, PlacesApartThen DEF Framework
<1>2. /\ Current \in DOMAIN disk /\ fCurrentDayStart \notin DOMAIN archive
      /\ archive' = WithFile(archive, fCurrentDayStart, disk[Current])
      /\ disk' = [f \in DOMAIN disk \ {Current} |-> disk[f]]
  BY DayMoves
<1>3. /\ DOMAIN disk = {Current} /\ DOMAIN disk' = {}
      /\ UNCHANGED <<theLogRecord, fQueueB, i>> /\ (mishap => mishap')
  BY <1>2 DEF Framework, ByPolicy, RenameByDay
<1>4. /\ DOMAIN archive' = DOMAIN archive \cup {fCurrentDayStart}
      /\ archive'[fCurrentDayStart] = disk[Current]
      /\ \A d \in DOMAIN archive : archive'[d] = archive[d]
  BY <1>2 DEF WithFile
<1>5. /\ Place' = Place /\ HandPlace' = HandPlace /\ QueuePlace' = QueuePlace
      /\ \A p \in Place : FileAt(p)' = FileAt(p)
  BY DEF Place, QueuePlace, HandPlace, CurrentPlace, FileAt
<1>0. PICK day : day = fCurrentDayStart
  OBVIOUS
<1>6. /\ day \in Place /\ RecordsAt(day)' = disk[Current]
      /\ RecordsAt(CurrentPlace) = disk[Current] /\ CurrentPlace \in Place
  <2>1. day \in DOMAIN archive' /\ archive'[day] = disk[Current]
    BY <1>0, <1>4
  <2>2. day \in Place /\ RecordsAt(day)' = disk[Current]
    BY <1>1, <1>5, <2>1 DEF WhatIsWhere
  <2> QED
    BY <1>1, <1>2, <2>2, PlaceTypes DEF WhatIsWhere
<1>7. \A r : r \notin ToSet(<< >>)
  BY DEF ToSet
<1>8. \A p \in DOMAIN archive : p \in Place /\ RecordsAt(p)' = RecordsAt(p)
  BY <1>1, <1>4 DEF WhatIsWhere
<1>9. \A p \in {HandPlace, QueuePlace} : p \in Place /\ RecordsAt(p)' = RecordsAt(p)
  BY <1>1, <1>3, <1>5, PlaceTypes DEF WhatIsWhere
<1>10. ASSUME NEW r, Held(r) PROVE Held(r)'
  <2>1. PICK p \in Place : r \in ToSet(RecordsAt(p))
    BY <1>10 DEF Held
  <2>2. \/ p \in DOMAIN archive \cup {HandPlace, QueuePlace}
        \/ RecordsAt(p) = disk[Current]
    BY <1>1, <1>3, <1>7, <2>1 DEF WhatIsWhere
  <2>3. \E q \in Place : r \in ToSet(RecordsAt(q)')
    BY <1>6, <1>8, <1>9, <2>1, <2>2
  <2> QED
    BY <1>5, <2>3 DEF Held
<1>11. ASSUME NEW r, Held(r)' PROVE Held(r)
  <2>1. PICK p \in Place : r \in ToSet(RecordsAt(p)')
    BY <1>5, <1>11 DEF Held
  <2>2. p \in DOMAIN archive \cup {day, HandPlace, QueuePlace}
    BY <1>0, <1>1, <1>3, <1>4, <1>5, <1>7, <2>1 DEF WhatIsWhere
  <2>3. \E q \in Place : r \in ToSet(RecordsAt(q))
    BY <1>6, <1>8, <1>9, <2>1, <2>2
  <2> QED
    BY <2>3 DEF Held
<1>12. History \cap DOMAIN disk' = History \cap DOMAIN disk
  BY <1>3, LogAssumption DEF History, Current
<1> QED
  BY <1>3, <1>10, <1>11, <1>12, HeldNothingLost, SameFull

\* What the calls of the loop do to the places.  A file is moved to the place
\* before its own; of the records that were held only those of the oldest file
\* are not held any more, when it is deleted.
OldestPlace == CurrentPlace - 1 - fLogHistorySize

LEMMA LoopPlaces ==
    ASSUME Framework, TypeOK', UnlinkLog \/ RenameLog
    PROVE  /\ Place' = Place
           /\ \A p \in {HandPlace, QueuePlace} : p \in Place /\ RecordsAt(p)' = RecordsAt(p)
           /\ \A p \in Place : FileAt(p) \in DOMAIN disk => RecordsAt(p) = disk[FileAt(p)]
           /\ \A p \in Place : FileAt(p) \in DOMAIN disk' => RecordsAt(p)' = disk'[FileAt(p)]
           /\ \A p \in Place : p \notin {HandPlace, QueuePlace} =>
                 /\ FileAt(p) \notin DOMAIN disk => RecordsAt(p) = << >>
                 /\ FileAt(p) \notin DOMAIN disk' => RecordsAt(p)' = << >>
<1>1. TypeOK /\ WhatIsWhere /\ WhatIsWhere'
  BY PlacesApart, PlacesApartThen DEF Framework
<1>2. /\ fRotationPolicy = "by_size" /\ UNCHANGED <<theLogRecord, fQueueB, archive>>
  BY LoopStep
<1>3. /\ Place' = Place /\ HandPlace' = HandPlace /\ QueuePlace' = QueuePlace
      /\ \A p \in Place : FileAt(p)' = FileAt(p)
  BY DEF Place, QueuePlace, HandPlace, CurrentPlace, FileAt
<1>4. DOMAIN archive = {} /\ DOMAIN archive' = {}
  BY <1>2 DEF Framework, ByPolicy
<1>5. \A p \in {HandPlace, QueuePlace} : p \in Place /\ RecordsAt(p)' = RecordsAt(p)
  BY <1>1, <1>2, <1>3, PlaceTypes DEF WhatIsWhere
<1>6. \A p \in Place : /\ FileAt(p) \in DOMAIN disk => RecordsAt(p) = disk[FileAt(p)]
                       /\ FileAt(p) \in DOMAIN disk' => RecordsAt(p)' = disk'[FileAt(p)]
  BY <1>1, <1>3 DEF WhatIsWhere
<1>7. \A p \in Place : p \notin {HandPlace, QueuePlace} =>
        /\ FileAt(p) \notin DOMAIN disk => RecordsAt(p) = << >>
        /\ FileAt(p) \notin DOMAIN disk' => RecordsAt(p)' = << >>
  BY <1>1, <1>3, <1>4 DEF WhatIsWhere
<1> QED
  BY <1>3, <1>5, <1>6, <1>7

\* The place of a file.
LEMMA PlaceOfFile ==
    ASSUME NEW f \in {Current} \cup History
    PROVE  /\ CurrentPlace - 1 - f \in Place /\ FileAt(CurrentPlace - 1 - f) = f
           /\ CurrentPlace - 1 - f \notin {HandPlace, QueuePlace}
<1>1. f \in Int /\ -1 <= f /\ f <= fLogHistorySize
  BY LogAssumption DEF Current, History
<1>2. CurrentPlace - 1 - f \in Nat /\ CurrentPlace - 1 - f >= 1 /\ CurrentPlace - 1 - f <= CurrentPlace
  BY <1>1, PlaceTypes, DaysType, LogAssumption
<1>3. CurrentPlace - 1 - f \in Place
  BY <1>2, PlaceTypes DEF Place
<1>4. FileAt(CurrentPlace - 1 - f) = CurrentPlace - 1 - (CurrentPlace - 1 - f)
  BY <1>3, PlaceTypes
<1> QED
  BY <1>1, <1>2, <1>3, <1>4, PlaceTypes

LEMMA MoveHeld ==
    ASSUME Framework, TypeOK', UnlinkLog \/ RenameLog,
           i < fLogHistorySize, i \in DOMAIN disk, i + 1 \notin DOMAIN disk,
           DOMAIN disk' = (DOMAIN disk \ {i}) \cup {i + 1}, disk'[i + 1] = disk[i],
           \A f \in DOMAIN disk \ {i} : disk'[f] = disk[f]
    PROVE  \A r : Held(r)' <=> Held(r)
<1>1. i \in {Current} \cup History /\ i + 1 \in {Current} \cup History
  BY LoopType, LogAssumption DEF Framework, TypeOK, Current, History
<1>0. PICK from, to : from = CurrentPlace - 1 - i /\ to = CurrentPlace - 1 - (i + 1)
  OBVIOUS
<1>2. /\ from \in Place /\ FileAt(from) = i /\ to \in Place /\ FileAt(to) = i + 1
      /\ {from, to} \cap {HandPlace, QueuePlace} = {}
  BY <1>0, <1>1, PlaceOfFile
<1>3. \A p \in Place : (FileAt(p) = i => p = from) /\ (FileAt(p) = i + 1 => p = to)
  <2> SUFFICES ASSUME NEW p \in Place PROVE (FileAt(p) = i => p = from) /\ (FileAt(p) = i + 1 => p = to)
    OBVIOUS
  <2>1. p \in Nat /\ CurrentPlace \in Nat /\ FileAt(p) = CurrentPlace - 1 - p /\ i \in Int
    BY PlaceTypes, LoopType DEF Framework
  <2> QED
    BY <1>0, <2>1
<1>4. i # i + 1
  BY LoopType DEF Framework
<1>5. RecordsAt(to)' = RecordsAt(from) /\ RecordsAt(to) = << >> /\ RecordsAt(from)' = << >>
  BY <1>2, <1>4, LoopPlaces
<1>6. \A p \in Place : p # from /\ p # to => RecordsAt(p)' = RecordsAt(p)
  <2> SUFFICES ASSUME NEW p \in Place, p # from, p # to PROVE RecordsAt(p)' = RecordsAt(p)
    OBVIOUS
  <2>1. FileAt(p) # i /\ FileAt(p) # i + 1
    BY <1>3
  <2> QED
    BY <2>1, LoopPlaces
<1>7. Place' = Place /\ \A r : r \notin ToSet(<< >>)
  BY LoopPlaces DEF ToSet
<1>8. ASSUME NEW r, Held(r) PROVE Held(r)'
  <2>1. PICK p \in Place : r \in ToSet(RecordsAt(p))
    BY <1>8 DEF Held
  <2>2. \E q \in Place : r \in ToSet(RecordsAt(q)')
    BY <1>2, <1>5, <1>6, <1>7, <2>1
  <2> QED
    BY <1>7, <2>2 DEF Held
<1>9. ASSUME NEW r, Held(r)' PROVE Held(r)
  <2>1. PICK p \in Place : r \in ToSet(RecordsAt(p)')
    BY <1>7, <1>9 DEF Held
  <2>2. \E q \in Place : r \in ToSet(RecordsAt(q))
    BY <1>2, <1>5, <1>6, <1>7, <2>1
  <2> QED
    BY <2>2 DEF Held
<1> QED
  BY <1>8, <1>9

LEMMA DeleteHeld ==
    ASSUME Framework, TypeOK', UnlinkLog \/ RenameLog,
           i = fLogHistorySize, disk' = [f \in DOMAIN disk \ {i} |-> disk[f]]
    PROVE  /\ \A r : Held(r)' => \E p \in Place : r \in ToSet(RecordsAt(p)) /\ OldestPlace < p
           /\ \A r : Held(r) /\ ~Held(r)' =>
                 i \in DOMAIN disk /\ OldestPlace \in Place /\ r \in ToSet(RecordsAt(OldestPlace))
<1>1. i \in {Current} \cup History /\ i \in Int
  BY LoopType, LogAssumption DEF Framework, TypeOK, History
<1>2. OldestPlace \in Place /\ FileAt(OldestPlace) = i /\ OldestPlace \notin {HandPlace, QueuePlace}
  BY <1>1, PlaceOfFile DEF OldestPlace
<1>3. \A p \in Place : FileAt(p) = i => p = OldestPlace
  BY <1>1, PlaceTypes DEF OldestPlace
<1>4. /\ DOMAIN disk' = DOMAIN disk \ {i} /\ \A f \in DOMAIN disk' : disk'[f] = disk[f]
      /\ Place' = Place /\ \A r : r \notin ToSet(<< >>)
  BY LoopPlaces DEF ToSet
<1>5. \A p \in Place : p # OldestPlace => RecordsAt(p)' = RecordsAt(p)
  <2> SUFFICES ASSUME NEW p \in Place, p # OldestPlace PROVE RecordsAt(p)' = RecordsAt(p)
    OBVIOUS
  <2>1. FileAt(p) # i
    BY <1>3
  <2> QED
    BY <1>4, <2>1, LoopPlaces
<1>6. RecordsAt(OldestPlace)' = << >>
  BY <1>2, <1>4, LoopPlaces
<1>7. \A p \in Place : p # OldestPlace /\ RecordsAt(p) # << >> => OldestPlace < p
  <2> SUFFICES ASSUME NEW p \in Place, p # OldestPlace, RecordsAt(p) # << >> PROVE OldestPlace < p
    OBVIOUS
  <2>1. CASE p \in {HandPlace, QueuePlace}
    BY <2>1, PlaceTypes, LogAssumption DEF OldestPlace
  <2>2. CASE p \notin {HandPlace, QueuePlace}
    <3>1. FileAt(p) \in DOMAIN disk /\ FileAt(p) # i
      BY <1>3, <2>2, LoopPlaces
    <3>2. FileAt(p) \in Int /\ FileAt(p) < fLogHistorySize /\ fLogHistorySize \in Nat
      BY <3>1, FileNumbers, LogAssumption DEF Framework
    <3>3. p \in Nat /\ CurrentPlace \in Nat /\ FileAt(p) = CurrentPlace - 1 - p
      BY PlaceTypes
    <3> QED
      BY <3>2, <3>3 DEF OldestPlace
  <2> QED
    BY <2>1, <2>2
<1>8. ASSUME NEW r, Held(r)' PROVE \E p \in Place : r \in ToSet(RecordsAt(p)) /\ OldestPlace < p
  <2>1. PICK p \in Place : r \in ToSet(RecordsAt(p)')
    BY <1>4, <1>8 DEF Held
  <2>2. p # OldestPlace
    BY <1>4, <1>6, <2>1
  <2>3. RecordsAt(p)' = RecordsAt(p) /\ RecordsAt(p) # << >>
    BY <1>4, <1>5, <2>1, <2>2
  <2> QED
    BY <1>7, <2>1, <2>2, <2>3
<1>9. ASSUME NEW r, Held(r), ~Held(r)'
      PROVE  i \in DOMAIN disk /\ OldestPlace \in Place /\ r \in ToSet(RecordsAt(OldestPlace))
  <2>1. PICK p \in Place : r \in ToSet(RecordsAt(p))
    BY <1>9 DEF Held
  <2>2. \A q \in Place : r \notin ToSet(RecordsAt(q)')
    BY <1>4, <1>9 DEF Held
  <2>3. p = OldestPlace
    BY <1>5, <2>1, <2>2
  <2>4. i \in DOMAIN disk
    BY <1>2, <1>4, <2>1, <2>3, LoopPlaces
  <2> QED
    BY <1>2, <2>1, <2>3, <2>4
<1> QED
  BY <1>8, <1>9

LEMMA LoopNothingLost ==
    ASSUME Framework, TypeOK', InOrder, Intact, GapsBelow, NothingLost, UnlinkLog \/ RenameLog,
           UNCHANGED NotOfLogThread
    PROVE  NothingLost'
<1> SUFFICES ASSUME ~mishap'
             PROVE  /\ \A r \in Records' : Held(r)' => \A s \in r .. accepted' : Held(s)'
                    /\ (\E r \in Records' : ~Held(r)') => HistoryIsFull'
  BY DEF NothingLost
<1>1. ~mishap /\ Records' = Records /\ UNCHANGED <<accepted, cutShort>>
  BY LoopStep DEF NotOfLogThread, Records
<1>2. /\ \A r \in Records : Held(r) => \A s \in r .. accepted : Held(s)
      /\ (\E r \in Records : ~Held(r)) => HistoryIsFull
      /\ \A f \in DOMAIN disk : FewMissing(f)
  BY <1>1 DEF NothingLost, GapsBelow
<1>3. TypeOK /\ fLogHistorySize + 1 \in Int /\ 0 <= fLogHistorySize + 1
  BY LogAssumption DEF Framework
\* Whatever was lost before, or is now.
<1>4. ASSUME HistoryIsFull \/ (i = fLogHistorySize /\ i \in DOMAIN disk) PROVE HistoryIsFull'
  <2>1. FewMissing(fLogHistorySize + 1) \/ (i = fLogHistorySize /\ i \in DOMAIN disk)
    BY <1>3, <1>4, FullIsFewMissing
  <2>2. FewMissing(fLogHistorySize + 1)'
    BY <1>1, <1>2, <1>3, <2>1, LoopFewMissing
  <2> QED
    BY <2>2, FullIsFewMissingThen
<1>5. CASE disk' = disk
  <2>1. \A p \in Place : RecordsAt(p)' = RecordsAt(p)
    BY <1>5, LoopStep DEF RecordsAt, FileAt, HandPlace, QueuePlace, CurrentPlace
  <2>2. Place' = Place
    BY LoopPlaces
  <2>3. \A r : Held(r)' <=> Held(r)
    BY <2>1, <2>2 DEF Held
  <2> QED
    BY <1>1, <1>2, <1>4, <2>3
<1>6. CASE i = fLogHistorySize /\ disk' = [f \in DOMAIN disk \ {i} |-> disk[f]]
  <2>1. /\ \A r : Held(r)' => \E p \in Place : r \in ToSet(RecordsAt(p)) /\ OldestPlace < p
        /\ \A r : Held(r) /\ ~Held(r)' =>
              i \in DOMAIN disk /\ OldestPlace \in Place /\ r \in ToSet(RecordsAt(OldestPlace))
    BY <1>6, DeleteHeld
  \* By the order of the records, all that is kept is newer than what is deleted.
  <2>2. ASSUME NEW r \in Records, Held(r)', NEW s \in r .. accepted PROVE Held(s)'
    <3> SUFFICES ASSUME ~Held(s)' PROVE FALSE
      OBVIOUS
    <3>1. PICK p \in Place : r \in ToSet(RecordsAt(p)) /\ OldestPlace < p
      BY <2>1, <2>2
    <3>2. Held(s)
      BY <1>2, <3>1 DEF Held
    <3>3. OldestPlace \in Place /\ s \in ToSet(RecordsAt(OldestPlace))
      BY <2>1, <3>2
    <3>4. PICK k \in DOMAIN RecordsAt(p) : r = RecordsAt(p)[k]
      BY <3>1 DEF ToSet
    <3>5. PICK l \in DOMAIN RecordsAt(OldestPlace) : s = RecordsAt(OldestPlace)[l]
      BY <3>3 DEF ToSet
    <3>6. s < r
      BY <3>1, <3>3, <3>4, <3>5 DEF InOrder
    <3> QED
      BY <3>6 DEF Records
  <2>3. ASSUME NEW r \in Records, ~Held(r)' PROVE HistoryIsFull'
    BY <1>2, <1>4, <1>6, <2>1, <2>3
  <2> QED
    BY <1>1, <2>2, <2>3
<1>7. CASE /\ i < fLogHistorySize /\ i \in DOMAIN disk /\ i + 1 \notin DOMAIN disk
           /\ DOMAIN disk' = (DOMAIN disk \ {i}) \cup {i + 1}
           /\ disk'[i + 1] = disk[i]
           /\ \A f \in DOMAIN disk \ {i} : disk'[f] = disk[f]
  <2>1. \A r : Held(r)' <=> Held(r)
    BY <1>7, MoveHeld
  <2> QED
    BY <1>1, <1>2, <1>4, <2>1
<1> QED
  BY <1>5, <1>6, <1>7, LoopMoves DEF LoopFiles

LEMMA NextNothingLost ==
    ASSUME Framework, InOrder, Intact, GapsBelow, NothingLost, [Next]_vars
    PROVE  NothingLost'
<1>1. TypeOK /\ TypeOK' /\ HandsFree
  BY NextFramework DEF Framework
<1>2. ASSUME UNCHANGED <<archive, disk, theLogRecord, fQueueB, i, accepted, mishap, cutShort>>
      PROVE  NothingLost'
  <2>1. \A p \in Place : RecordsAt(p)' = RecordsAt(p)
    BY <1>2 DEF RecordsAt, FileAt, HandPlace, QueuePlace, CurrentPlace
  <2> QED
    BY <1>2, <2>1, UnmovedNothingLost, SameFull
<1>3. ASSUME NEW w \in Writer, LogWrite(w) PROVE NothingLost'
  BY <1>2, <1>3 DEF LogWrite, threadVars, fileVars
<1>4. ASSUME NEW w \in Writer, EnQueue(w) PROVE NothingLost'
  BY <1>1, <1>4, EnQueueNothingLost
<1>5. CASE Tick \/ SendStopRequest \/ UNCHANGED vars
  BY <1>2, <1>5 DEF Tick, SendStopRequest, vars, threadVars, fileVars, counters
<1>6. CASE Restart
  <2>1. CASE fQueueB = << >> /\ theLogRecord = << >>
    <3>1. \A p \in Place : RecordsAt(p)' = RecordsAt(p)
      BY <1>6, <2>1 DEF Restart, fileVars, RecordsAt, FileAt, HandPlace, QueuePlace, CurrentPlace
    <3>2. HistoryIsFull => HistoryIsFull'
      <4>0. fLogHistorySize \in Int
        BY LogAssumption
      <4>1. IsFiniteSet(History) /\ History \ DOMAIN disk \subseteq History
        BY <4>0, FS_Interval DEF History
      <4>2. Cardinality(History \ DOMAIN disk) \in Nat
        BY <4>1, FS_Subset, FS_CardinalityType
      <4>3. History' \ DOMAIN disk' = History \ DOMAIN disk
        BY <1>6 DEF Restart, fileVars, History
      <4>4. /\ i' = fLogHistorySize /\ fLogHistorySize \in Nat /\ cutShort \in Nat
            /\ cutShort' = IF i < fLogHistorySize THEN cutShort + 1 ELSE cutShort
        BY <1>1, <1>6, LogAssumption DEF Restart, TypeOK
      <4> QED
        BY <4>2, <4>3, <4>4 DEF HistoryIsFull
    <3>3. UNCHANGED accepted /\ (mishap => mishap')
      BY <1>6 DEF Restart
    <3> QED
      BY <3>1, <3>2, <3>3, UnmovedNothingLost
  <2>2. CASE ~(fQueueB = << >> /\ theLogRecord = << >>)
    BY <1>6, <2>2 DEF Restart, NothingLost
  <2> QED
    BY <2>1, <2>2
<1>7. CASE LogThread
  <2>1. UNCHANGED NotOfLogThread /\ UNCHANGED accepted
    BY <1>7 DEF LogThread, NotOfLogThread
  <2>2. CASE LogOpen \/ ReopenLog
    BY <1>1, <2>1, <2>2, OpenNothingLost
  <2>3. CASE DeQueue
    BY <1>1, <2>1, <2>3, DeQueueNothingLost
  <2>4. CASE TimedOut \/ CloseLog
    BY <1>2, <2>1, <2>4 DEF TimedOut, CloseLog, fileVars, NotOfLogThread
  <2>5. CASE WriteRecord
    BY <1>1, <2>1, <2>5, WriteNothingLost
  <2>6. CASE RenameByDay /\ UNCHANGED fileVars
    <3>1. /\ \A p \in Place : RecordsAt(p)' = RecordsAt(p)
          /\ UNCHANGED <<i, cutShort, disk>> /\ (mishap => mishap')
      BY <2>1, <2>6 DEF RenameByDay, RecordsAt, FileAt, HandPlace, QueuePlace, CurrentPlace, fileVars, NotOfLogThread
    <3> QED
      BY <2>1, <3>1, UnmovedNothingLost, SameFull
  <2>7. CASE RenameByDay /\ ~UNCHANGED fileVars
    BY <1>1, <2>1, <2>7, RenameByDayNothingLost DEF NotOfLogThread
  <2>8. CASE UnlinkLog \/ RenameLog
    BY <1>1, <2>1, <2>8, LoopNothingLost
  <2> QED
    BY <1>7, <2>2, <2>3, <2>4, <2>5, <2>6, <2>7, <2>8 DEF LogThread
<1> QED
  BY <1>3, <1>4, <1>5, <1>6, <1>7 DEF Next

\* But for a mishap, the files hold all of the newest records, and one is
\* deleted only when the history is full; at most one number of it is free for
\* each time the process ended in the loop of RotateLog, and one in that loop.
THEOREM AlwaysNothingLost == Spec => []NothingLost
<1>1. Init => Intact /\ GapsBelow /\ NothingLost
  <2>1. ASSUME Init PROVE Intact
    BY <2>1, LogAssumption DEF Init, Intact
  <2>2. ASSUME Init PROVE GapsBelow
    BY <2>2 DEF Init, GapsBelow
  <2>3. ASSUME Init PROVE NothingLost
    <3>1. Records = {}
      BY <2>3 DEF Init, Records
    <3> QED
      BY <3>1 DEF NothingLost
  <2> QED
    BY <2>1, <2>2, <2>3
<1>2. Framework /\ Intact /\ [Next]_vars => Intact'
  BY NextIntact
<1>3. Framework /\ Intact /\ GapsBelow /\ [Next]_vars => GapsBelow'
  BY NextGapsBelow
<1>4. Framework /\ InOrder /\ Intact /\ GapsBelow /\ NothingLost /\ [Next]_vars => NothingLost'
  BY NextNothingLost
<1> QED
  BY <1>1, <1>2, <1>3, <1>4, AlwaysFramework, AlwaysInOrder, PTL DEF Spec

=============================================================================
