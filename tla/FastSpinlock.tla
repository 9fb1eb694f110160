---------------------------- MODULE FastSpinlock ----------------------------
(***************************************************************************)
(* The reader/writer spinlock of HW_05_MT (FastSpinlock.cpp): one word,    *)
(* mLockFlag, holds the writers' announcements in its high bits and the    *)
(* readers in its low 20 bits.  Every access is optimistic: a thread adds  *)
(* its flag first, looks at the sum it got, and takes the flag back when   *)
(* somebody else was there, so the word counts threads that do not hold    *)
(* the lock.                                                               *)
(*                                                                         *)
(* One step is one read of the word or one interlocked operation on it.    *)
(* The debug-only LLockOrderChecker calls touch only their own thread's    *)
(* stack and are not part of this module.                                  *)
(***************************************************************************)
EXTENDS Integers, FiniteSets

CONSTANT Thread         (* the threads that use the lock *)

LF_WRITE_FLAG == 1048576        \* 0x00100000
WriteFieldSize == 2048          \* LF_WRITE_MASK has 11 bits

\* mLockFlag & LF_WRITE_MASK, in units of LF_WRITE_FLAG, and mLockFlag & LF_READ_MASK.
WriteField(flag) == (flag \div LF_WRITE_FLAG) % WriteFieldSize
ReadField(flag) == flag % LF_WRITE_FLAG

\* Both fields have room for every thread at once (the server starts 4 I/O threads).
ASSUME ThreadAssumption ==
  IsFiniteSet(Thread) /\ Cardinality(Thread) < WriteFieldSize

VARIABLES mLockFlag, pc

vars == <<mLockFlag, pc>>

Location == {
  "out",                                                \* does not use the lock
  "waitNoWriter", "announce", "waitNoReader", "write",  \* EnterWriteLock ... LeaveWriteLock
  "takeBack",
  "readWaitNoWriter", "count", "read", "uncount" }      \* EnterReadLock ... LeaveReadLock

Init ==
  /\ mLockFlag = 0
  /\ pc = [t \in Thread |-> "out"]

Goto(t, from, to) ==
  /\ pc[t] = from
  /\ pc' = [pc EXCEPT ![t] = to]

EnterWriteLock(t) == Goto(t, "out", "waitNoWriter") /\ UNCHANGED mLockFlag

EnterReadLock(t) == Goto(t, "out", "readWaitNoWriter") /\ UNCHANGED mLockFlag

\* Faulty: a reader that was turned away retries without waiting.
ReaderDoesNotSpin(t) ==
  /\ \/ WriteField(mLockFlag) = 0 /\ Goto(t, "waitNoWriter", "announce")
     \/ Goto(t, "readWaitNoWriter", "count")
  /\ UNCHANGED mLockFlag

\* The spin of either Enter: leaves when no writer is announced.
SeeNoWriter(t) ==
  /\ WriteField(mLockFlag) = 0
  /\ Goto(t, "waitNoWriter", "announce") \/ Goto(t, "readWaitNoWriter", "count")
  /\ UNCHANGED mLockFlag

\* Faulty: any number of announced writers will do.
AnnounceWithOthers(t) ==
  /\ mLockFlag' = mLockFlag + LF_WRITE_FLAG
  /\ Goto(t, "announce", IF WriteField(mLockFlag') > 0 THEN "waitNoReader" ELSE "takeBack")

\* The writer's InterlockedAdd: alone, it waits for the readers only.
AnnounceWriter(t) ==
  /\ mLockFlag' = mLockFlag + LF_WRITE_FLAG
  /\ Goto(t, "announce", IF WriteField(mLockFlag') = 1 THEN "waitNoReader" ELSE "takeBack")

TakeBackWriter(t) ==
  /\ Goto(t, "takeBack", "waitNoWriter")
  /\ mLockFlag' = mLockFlag - LF_WRITE_FLAG

SeeNoReader(t) ==
  /\ ReadField(mLockFlag) = 0
  /\ Goto(t, "waitNoReader", "write")
  /\ UNCHANGED mLockFlag

LeaveWriteLock(t) ==
  /\ Goto(t, "write", "out")
  /\ mLockFlag' = mLockFlag - LF_WRITE_FLAG

\* Faulty, the test in the code's commented-out variant: only exactly one
\* announced writer keeps the reader out.
CountUnlessOneWriter(t) ==
  /\ mLockFlag' = mLockFlag + 1
  /\ Goto(t, "count", IF WriteField(mLockFlag') # 1 THEN "read" ELSE "uncount")

\* The reader's InterlockedIncrement.
CountReader(t) ==
  /\ mLockFlag' = mLockFlag + 1
  /\ Goto(t, "count", IF WriteField(mLockFlag') = 0 THEN "read" ELSE "uncount")

UncountReader(t) ==
  /\ Goto(t, "uncount", "readWaitNoWriter")
  /\ mLockFlag' = mLockFlag - 1

\* Faulty: leaves as a writer would.
LeaveReadAsWriter(t) ==
  /\ Goto(t, "read", "out")
  /\ mLockFlag' = mLockFlag - LF_WRITE_FLAG

LeaveReadLock(t) ==
  /\ Goto(t, "read", "out")
  /\ mLockFlag' = mLockFlag - 1

\* A step of a thread that asked for the lock or holds it.
Proceed(t) ==
  \/ SeeNoWriter(t) \/ AnnounceWriter(t) \/ TakeBackWriter(t) \/ SeeNoReader(t)
  \/ CountReader(t) \/ UncountReader(t)
  \/ LeaveWriteLock(t) \/ LeaveReadLock(t)

Next == \E t \in Thread : EnterWriteLock(t) \/ EnterReadLock(t) \/ Proceed(t)

\* Threads are scheduled and critical sections end; nobody has to ask for the lock.
Fairness == \A t \in Thread : WF_vars(Proceed(t))

Spec == Init /\ [][Next]_vars
FairSpec == Spec /\ Fairness

-----------------------------------------------------------------------------
Writers == {t \in Thread : pc[t] = "write"}
Readers == {t \in Thread : pc[t] = "read"}
\* Threads whose LF_WRITE_FLAG, or whose 1, is in the word.
Announced == {t \in Thread : pc[t] \in {"waitNoReader", "write", "takeBack"}}
Counted == {t \in Thread : pc[t] \in {"read", "uncount"}}

TypeOK ==
  /\ mLockFlag \in Nat
  /\ pc \in [Thread -> Location]

\* "exclusive mode" and "shared mode" of FastSpinlock.h: a writer is alone.
Exclusion ==
  \A t \in Writers : Writers = {t} /\ Readers = {}

\* The word is the sum of what the threads added and have not taken back, so no
\* flag is left behind by a thread that gave up or left.
FlagIsSum ==
  mLockFlag = LF_WRITE_FLAG * Cardinality(Announced) + Cardinality(Counted)

\* Once a writer is the one that goes on to wait for the readers, no reader gets in
\* any more: the set of readers can only shrink until it is through.
NoReaderOvertakes ==
  [][(\E t \in Thread : pc[t] = "waitNoReader") => Readers' \subseteq Readers]_vars

\* The writer that won its announcement gets the lock, whatever the others retry.
WinnerEnters ==
  \A t \in Thread : pc[t] = "waitNoReader" ~> pc[t] = "write"

\* Retrying threads never block each other for ever: while somebody wants to
\* write, somebody writes.
SomeWriterEnters ==
  (\E t \in Thread : pc[t] = "waitNoWriter") ~> (Writers # {})
=============================================================================
