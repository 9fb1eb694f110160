------------------------- MODULE FastSpinlockProofs -------------------------
(***************************************************************************)
(* The reader/writer spinlock is exclusive for every set of fewer than     *)
(* 2048 threads.                                                           *)
(***************************************************************************)
EXTENDS FastSpinlock, FiniteSetTheorems, TLAPS

\* The writer that saw itself alone, whether or not the readers have left.
Winners == {t \in Thread : pc[t] \in {"waitNoReader", "write"}}

\* Exclusion holds because the word never lies: one winner at a time, and no reader
\* inside once the winner has seen the read field at 0.
OneWinner == \A t, u \in Winners : t = u
WriterWithoutReaders == Writers # {} => Readers = {}

LockInv == TypeOK /\ FlagIsSum /\ OneWinner /\ WriterWithoutReaders

\* Decoding the word: both counts come back as long as they fit their fields.
LEMMA Fields ==
  ASSUME NEW w \in Nat, w < WriteFieldSize, NEW r \in Nat, r < WriteFieldSize
  PROVE  /\ WriteField(LF_WRITE_FLAG * w + r) = w
         /\ ReadField(LF_WRITE_FLAG * w + r) = r
  BY SMT DEF WriteField, ReadField, LF_WRITE_FLAG, WriteFieldSize

LEMMA CountsFit ==
  ASSUME NEW S, S \subseteq Thread
  PROVE  /\ IsFiniteSet(S)
         /\ Cardinality(S) \in Nat
         /\ Cardinality(S) < WriteFieldSize
         /\ Cardinality(S) = 0 <=> S = {}
  BY ThreadAssumption, FS_Subset, FS_CardinalityType, FS_EmptySet, SMT DEF WriteFieldSize

LEMMA CountOneThread ==
  ASSUME NEW S, S \subseteq Thread, NEW t \in Thread
  PROVE  /\ t \notin S => Cardinality(S \cup {t}) = Cardinality(S) + 1
         /\ t \in S => Cardinality(S \ {t}) = Cardinality(S) - 1
  BY CountsFit, FS_AddElement, FS_RemoveElement

\* What a thread that reads the word learns.
LEMMA WordTellsTruth ==
  ASSUME FlagIsSum
  PROVE  /\ WriteField(mLockFlag) = Cardinality(Announced)
         /\ ReadField(mLockFlag) = Cardinality(Counted)
         /\ ReadField(mLockFlag) = 0 => Counted = {}
  BY Fields, CountsFit DEF FlagIsSum, Announced, Counted

LEMMA LockInvInit == Init => LockInv
<1> SUFFICES ASSUME Init PROVE LockInv
  OBVIOUS
<1>1. Announced = {} /\ Counted = {} /\ Winners = {} /\ Writers = {}
  BY DEF Init, Announced, Counted, Winners, Writers
<1>2. TypeOK
  BY DEF Init, TypeOK, Location
<1>3. Cardinality(Announced) = 0 /\ Cardinality(Counted) = 0
  BY <1>1, FS_EmptySet
<1>4. FlagIsSum
  BY <1>3, SMT DEF Init, FlagIsSum, LF_WRITE_FLAG
<1> QED
  BY <1>1, <1>2, <1>4 DEF LockInv, OneWinner, WriterWithoutReaders

\* The sum survives every step, which is what makes a read of the word reliable.
LEMMA FlagIsSumStep == TypeOK /\ FlagIsSum /\ [Next]_vars => TypeOK' /\ FlagIsSum'
<1> SUFFICES ASSUME TypeOK, FlagIsSum, [Next]_vars PROVE TypeOK' /\ FlagIsSum'
  OBVIOUS
<1> USE DEF TypeOK
<1>a. Announced \subseteq Thread /\ Counted \subseteq Thread
  BY DEF Announced, Counted
<1>b. Cardinality(Announced) \in Nat /\ Cardinality(Counted) \in Nat
  BY <1>a, CountsFit
<1>c. mLockFlag = LF_WRITE_FLAG * Cardinality(Announced) + Cardinality(Counted)
  BY DEF FlagIsSum
\* The four ways a step can change the word.
<1>1. ASSUME NEW t \in Thread, t \notin Announced, Announced' = Announced \cup {t},
             Counted' = Counted, mLockFlag' = mLockFlag + LF_WRITE_FLAG
      PROVE  mLockFlag' \in Nat /\ FlagIsSum'
  <2>1. Cardinality(Announced') = Cardinality(Announced) + 1
    BY <1>a, <1>1, CountOneThread
  <2> QED
    BY <1>1, <1>b, <1>c, <2>1, SMT DEF FlagIsSum, LF_WRITE_FLAG
<1>2. ASSUME NEW t \in Thread, t \in Announced, Announced' = Announced \ {t},
             Counted' = Counted, mLockFlag' = mLockFlag - LF_WRITE_FLAG
      PROVE  mLockFlag' \in Nat /\ FlagIsSum'
  <2>1. /\ Cardinality(Announced') = Cardinality(Announced) - 1
        /\ Cardinality(Announced') \in Nat
    BY <1>a, <1>2, CountOneThread, CountsFit
  <2> QED
    BY <1>2, <1>b, <1>c, <2>1, SMT DEF FlagIsSum, LF_WRITE_FLAG
<1>3. ASSUME NEW t \in Thread, t \notin Counted, Counted' = Counted \cup {t},
             Announced' = Announced, mLockFlag' = mLockFlag + 1
      PROVE  mLockFlag' \in Nat /\ FlagIsSum'
  <2>1. Cardinality(Counted') = Cardinality(Counted) + 1
    BY <1>a, <1>3, CountOneThread
  <2> QED
    BY <1>3, <1>b, <1>c, <2>1, SMT DEF FlagIsSum, LF_WRITE_FLAG
<1>4. ASSUME NEW t \in Thread, t \in Counted, Counted' = Counted \ {t},
             Announced' = Announced, mLockFlag' = mLockFlag - 1
      PROVE  mLockFlag' \in Nat /\ FlagIsSum'
  <2>1. /\ Cardinality(Counted') = Cardinality(Counted) - 1
        /\ Cardinality(Counted') \in Nat
    BY <1>a, <1>4, CountOneThread, CountsFit
  <2> QED
    BY <1>4, <1>b, <1>c, <2>1, SMT DEF FlagIsSum, LF_WRITE_FLAG
<1>5. ASSUME Announced' = Announced, Counted' = Counted, mLockFlag' = mLockFlag
      PROVE  mLockFlag' \in Nat /\ FlagIsSum'
  BY <1>5 DEF FlagIsSum
<1>6. pc' \in [Thread -> Location]
  BY DEF Next, Proceed, EnterWriteLock, EnterReadLock, SeeNoWriter, AnnounceWriter,
         TakeBackWriter, SeeNoReader, CountReader, UncountReader, LeaveWriteLock,
         LeaveReadLock, Goto, Location, vars
<1>7. mLockFlag' \in Nat /\ FlagIsSum'
  <2> USE DEF Announced, Counted, Goto
  <2>1. ASSUME NEW t \in Thread, AnnounceWriter(t) PROVE mLockFlag' \in Nat /\ FlagIsSum'
    BY <1>1, <2>1 DEF AnnounceWriter
  <2>2. ASSUME NEW t \in Thread, TakeBackWriter(t) \/ LeaveWriteLock(t)
        PROVE  mLockFlag' \in Nat /\ FlagIsSum'
    BY <1>2, <2>2 DEF TakeBackWriter, LeaveWriteLock
  <2>3. ASSUME NEW t \in Thread, CountReader(t) PROVE mLockFlag' \in Nat /\ FlagIsSum'
    BY <1>3, <2>3 DEF CountReader
  <2>4. ASSUME NEW t \in Thread, UncountReader(t) \/ LeaveReadLock(t)
        PROVE  mLockFlag' \in Nat /\ FlagIsSum'
    BY <1>4, <2>4 DEF UncountReader, LeaveReadLock
  <2>5. ASSUME NEW t \in Thread,
               EnterWriteLock(t) \/ EnterReadLock(t) \/ SeeNoWriter(t) \/ SeeNoReader(t)
        PROVE  mLockFlag' \in Nat /\ FlagIsSum'
    BY <1>5, <2>5 DEF EnterWriteLock, EnterReadLock, SeeNoWriter, SeeNoReader
  <2>6. CASE UNCHANGED vars
    BY <1>5, <2>6 DEF vars
  <2> QED
    BY <2>1, <2>2, <2>3, <2>4, <2>5, <2>6 DEF Next, Proceed
<1> QED
  BY <1>6, <1>7

\* A flag written by this step decodes to the counts after the step.
LEMMA NewWordTellsTruth ==
  ASSUME FlagIsSum'
  PROVE  /\ WriteField(mLockFlag') = Cardinality(Announced')
         /\ ReadField(mLockFlag') = Cardinality(Counted')
<1>1. /\ Cardinality(Announced') \in Nat /\ Cardinality(Announced') < WriteFieldSize
      /\ Cardinality(Counted') \in Nat /\ Cardinality(Counted') < WriteFieldSize
  <2>1. Announced' \subseteq Thread /\ Counted' \subseteq Thread
    BY DEF Announced, Counted
  <2> QED
    BY <2>1, CountsFit
<1>2. mLockFlag' = LF_WRITE_FLAG * Cardinality(Announced') + Cardinality(Counted')
  BY DEF FlagIsSum
<1> QED
  BY <1>1, <1>2, Fields

\* No step makes a second winner, or a writer beside a reader.
LEMMA ExclusionStep == LockInv /\ [Next]_vars => OneWinner' /\ WriterWithoutReaders'
<1> SUFFICES ASSUME LockInv, [Next]_vars PROVE OneWinner' /\ WriterWithoutReaders'
  OBVIOUS
<1> USE DEF LockInv, TypeOK, OneWinner, WriterWithoutReaders, Winners, Writers, Readers
<1>0. FlagIsSum'
  BY FlagIsSumStep DEF LockInv
<1>1. ASSUME NEW t \in Thread, AnnounceWriter(t)
      PROVE  OneWinner' /\ WriterWithoutReaders'
  <2>1. CASE WriteField(mLockFlag') = 1
    <3>1. t \in Announced' /\ t \notin Announced /\ Announced' = Announced \cup {t}
      BY <1>1, <2>1 DEF AnnounceWriter, Goto, Announced
    <3>2. Cardinality(Announced') = 1
      BY <1>0, <2>1, NewWordTellsTruth
    <3>3. Cardinality(Announced) = 0
      <4>1. Announced \subseteq Thread
        BY DEF Announced
      <4> QED
        BY <3>1, <3>2, <4>1, CountOneThread, CountsFit
    <3>4. Announced = {}
      <4>1. Announced \subseteq Thread
        BY DEF Announced
      <4> QED
        BY <3>3, <4>1, CountsFit
    <3> QED
      BY <1>1, <2>1, <3>4 DEF AnnounceWriter, Goto, Announced
  <2>2. CASE WriteField(mLockFlag') # 1
    BY <1>1, <2>2 DEF AnnounceWriter, Goto
  <2> QED
    BY <2>1, <2>2
<1>2. ASSUME NEW t \in Thread, SeeNoReader(t)
      PROVE  OneWinner' /\ WriterWithoutReaders'
  <2>1. Counted = {}
    BY <1>2, WordTellsTruth DEF SeeNoReader
  <2>2. Readers' = {}
    BY <1>2, <2>1 DEF SeeNoReader, Goto, Counted
  <2>3. Winners' = Winners
    BY <1>2 DEF SeeNoReader, Goto
  <2> QED
    BY <2>2, <2>3
<1>3. ASSUME NEW t \in Thread, CountReader(t)
      PROVE  OneWinner' /\ WriterWithoutReaders'
  <2>1. Winners' = Winners /\ Writers' = Writers /\ Announced' = Announced
    BY <1>3 DEF CountReader, Goto, Announced
  <2>2. CASE WriteField(mLockFlag') = 0
    <3>1. Cardinality(Announced) = 0 /\ Announced \subseteq Thread
      BY <1>0, <2>1, <2>2, NewWordTellsTruth DEF Announced
    <3>2. Announced = {}
      BY <3>1, CountsFit
    <3>3. Writers = {}
      BY <3>2 DEF Announced
    <3> QED
      BY <2>1, <3>3
  <2>3. CASE WriteField(mLockFlag') # 0
    <3>1. Readers' = Readers
      BY <1>3, <2>3 DEF CountReader, Goto
    <3> QED
      BY <2>1, <3>1
  <2> QED
    BY <2>2, <2>3
<1>4. ASSUME NEW t \in Thread,
             \/ EnterWriteLock(t) \/ EnterReadLock(t) \/ SeeNoWriter(t)
             \/ TakeBackWriter(t) \/ UncountReader(t)
             \/ LeaveWriteLock(t) \/ LeaveReadLock(t)
      PROVE  OneWinner' /\ WriterWithoutReaders'
  <2>1. Winners' \subseteq Winners /\ Writers' \subseteq Writers /\ Readers' \subseteq Readers
    BY <1>4 DEF EnterWriteLock, EnterReadLock, SeeNoWriter, TakeBackWriter, UncountReader,
                LeaveWriteLock, LeaveReadLock, Goto
  <2> QED
    BY <2>1
<1>5. CASE UNCHANGED vars
  BY <1>5 DEF vars
<1> QED
  BY <1>1, <1>2, <1>3, <1>4, <1>5 DEF Next, Proceed

LEMMA LockInvariant == Spec => []LockInv
<1>1. LockInv /\ [Next]_vars => LockInv'
  BY FlagIsSumStep, ExclusionStep DEF LockInv
<1> QED
  BY <1>1, LockInvInit, PTL DEF Spec

\* The lock word is a natural number and every thread is at a place of the code.
THEOREM TypeCorrect == Spec => []TypeOK
  BY LockInvariant, PTL DEF LockInv

\* No flag is lost or left behind: the word is always the sum of the threads' parts.
THEOREM FlagExact == Spec => []FlagIsSum
  BY LockInvariant, PTL DEF LockInv

\* A thread in the write section is alone in the lock, for any number of threads
\* below 2048 and any schedule of their optimistic adds.
THEOREM MutualExclusion == Spec => []Exclusion
<1>1. LockInv => Exclusion
  BY DEF LockInv, Exclusion, OneWinner, WriterWithoutReaders, Winners, Writers, Readers
<1> QED
  BY <1>1, LockInvariant, PTL

\* Readers do not overtake a writer that already won: a thread that adds its 1 while
\* a winner waits finds the winner's flag in the sum.
THEOREM NoOvertaking == Spec => NoReaderOvertakes
<1>1. LockInv /\ [Next]_vars
        => [(\E t \in Thread : pc[t] = "waitNoReader") => Readers' \subseteq Readers]_vars
  <2> SUFFICES ASSUME LockInv, [Next]_vars, NEW w \in Thread, pc[w] = "waitNoReader"
               PROVE  Readers' \subseteq Readers
    BY DEF vars
  <2>0. FlagIsSum'
    BY FlagIsSumStep DEF LockInv
  <2>1. ASSUME NEW t \in Thread, CountReader(t) PROVE Readers' \subseteq Readers
    <3>1. w \in Announced'
      BY <2>1 DEF CountReader, Goto, Announced, LockInv, TypeOK
    <3>2. Cardinality(Announced') # 0
      <4>1. Announced' \subseteq Thread
        BY DEF Announced
      <4> QED
        BY <3>1, <4>1, CountsFit
    <3>3. WriteField(mLockFlag') # 0
      BY <2>0, <3>2, NewWordTellsTruth
    <3> QED
      BY <2>1, <3>3 DEF CountReader, Goto, Readers, LockInv, TypeOK
  <2>2. CASE UNCHANGED vars
    BY <2>2 DEF vars, Readers
  <2>3. ASSUME NEW t \in Thread,
               \/ EnterWriteLock(t) \/ EnterReadLock(t) \/ SeeNoWriter(t)
               \/ AnnounceWriter(t) \/ SeeNoReader(t) \/ TakeBackWriter(t)
               \/ UncountReader(t) \/ LeaveWriteLock(t) \/ LeaveReadLock(t)
        PROVE  Readers' \subseteq Readers
    BY <2>3 DEF EnterWriteLock, EnterReadLock, SeeNoWriter, AnnounceWriter, SeeNoReader,
                TakeBackWriter, UncountReader, LeaveWriteLock, LeaveReadLock, Goto,
                Readers, LockInv, TypeOK
  <2> QED
    BY <2>1, <2>2, <2>3 DEF Next, Proceed
<1> QED
  BY <1>1, LockInvariant, PTL DEF Spec, NoReaderOvertakes
=============================================================================
