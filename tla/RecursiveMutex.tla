--------------------------- MODULE RecursiveMutex ---------------------------
(***************************************************************************)
(* The Mutex of CommonLib/Mutex.cpp: a critical section with the holder    *)
(* and a count, so that its holder may lock it again.                      *)
(***************************************************************************)
EXTENDS Naturals

CONSTANTS
    Thread,
    None      \* no thread

ASSUME MutexAssumption == None \notin Thread

Mutex == [fHolder : Thread \cup {None}, fHolderCount : Nat]

\* Of a Mutex that nobody holds.
Free == [fHolder |-> None, fHolderCount |-> 0]

\* Does RecursiveLock return to t at once?
MayLock(mutex, t) == mutex.fHolder \in {None, t}

\* RecursiveLock, and RecursiveTryLock where it succeeds.
Locked(mutex, t) == [fHolder |-> t, fHolderCount |-> mutex.fHolderCount + 1]

\* Mutant: the first unlock frees the mutex, as if it were not recursive.
UnlockedAtOnce(mutex, t) == IF mutex.fHolder = t THEN Free ELSE mutex

\* RecursiveUnlock does nothing for a thread that is not the holder.
Unlocked(mutex, t) ==
    IF mutex.fHolder # t THEN mutex
    ELSE IF mutex.fHolderCount = 1 THEN Free
    ELSE [mutex EXCEPT !.fHolderCount = @ - 1]

\* How often t has to unlock it.
HeldBy(mutex, t) == IF mutex.fHolder = t THEN mutex.fHolderCount ELSE 0

\* It is counted exactly while it is held.
Counted(mutex) == mutex.fHolder = None <=> mutex.fHolderCount = 0
=============================================================================
