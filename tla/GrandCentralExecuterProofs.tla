--------------------- MODULE GrandCentralExecuterProofs ---------------------
(***************************************************************************)
(* Proofs about the central executer, for any finite set of threads and    *)
(* any number of calls.                                                    *)
(***************************************************************************)
EXTENDS GrandCentralExecuter, FiniteSetTheorems, SequenceTheorems, TLAPS

\* The counter of mRemainTaskCount cannot be kept a natural number without the
\* owner of the drain: a decrement is only reached by the owner, and there is an
\* owner only while the counter is positive.
DrainInv == TypeOK /\ SingleDrainer /\ CountHasDrainer

LEMMA DrainInvInit == Init => DrainInv
  BY MaxDispatchAssumption
     DEF Init, DrainInv, TypeOK, SingleDrainer, CountHasDrainer, Draining, Task, Location

\* Every step keeps one owner of the drain, present exactly while the counter
\* is positive.
LEMMA DrainInvStep == DrainInv /\ [Next]_vars => DrainInv'
<1> SUFFICES ASSUME DrainInv, [Next]_vars PROVE DrainInv'
  OBVIOUS
<1> USE DEF DrainInv, TypeOK, SingleDrainer, CountHasDrainer, Draining, Location
<1>1. ASSUME NEW t \in Thread, Dispatch(t) PROVE DrainInv'
  <2>1. TypeOK'
    BY <1>1, MaxDispatchAssumption DEF Dispatch, Task
  <2>2. mRemainTaskCount' = mRemainTaskCount + 1
    BY <1>1 DEF Dispatch
  <2>3. CASE mRemainTaskCount = 0
    BY <1>1, <2>1, <2>2, <2>3 DEF Dispatch
  <2>4. CASE mRemainTaskCount > 0
    BY <1>1, <2>1, <2>2, <2>4 DEF Dispatch
  <2> QED
    BY <2>3, <2>4
<1>2. ASSUME NEW t \in Thread, Push(t) PROVE DrainInv'
  BY <1>2 DEF Push, Pushing
<1>3. ASSUME NEW t \in Thread, TryPop(t) PROVE DrainInv'
  BY <1>3 DEF TryPop
<1>4. ASSUME NEW t \in Thread, Run(t) PROVE DrainInv'
  BY <1>4 DEF Run
<1>5. ASSUME NEW t \in Thread, Decrement(t) PROVE DrainInv'
  <2>1. Draining(t) /\ mRemainTaskCount > 0
    BY <1>5 DEF Decrement
  <2>2. TypeOK'
    BY <1>5, <2>1 DEF Decrement
  <2>3. SingleDrainer' /\ CountHasDrainer'
    BY <1>5, <2>1, <2>2 DEF Decrement
  <2> QED
    BY <2>2, <2>3
<1>6. CASE UNCHANGED vars
  BY <1>6 DEF vars
<1> QED
  BY <1>1, <1>2, <1>3, <1>4, <1>5, <1>6 DEF Next, Proceed

LEMMA DrainInvariant == Spec => []DrainInv
  BY DrainInvInit, DrainInvStep, PTL DEF Spec

\* Every variable keeps its type; in particular the counter never goes below 0.
THEOREM TypeCorrect == Spec => []TypeOK
  BY DrainInvariant, PTL DEF DrainInv

\* No schedule makes two threads drain: of any number of threads that call
\* DoDispatch together, one increment alone sees the counter at 0.
THEOREM OneDrainer == Spec => []SingleDrainer
  BY DrainInvariant, PTL DEF DrainInv

-----------------------------------------------------------------------------
(***************************************************************************)
(* The counter counts the calls between the increment and the decrement.   *)
(***************************************************************************)
PushingThreads == {t \in Thread : Pushing(t)}
HoldingThreads == {t \in Thread : Holding(t)}

LEMMA ThreadsFinite ==
  ASSUME NEW S, S \subseteq Thread
  PROVE  IsFiniteSet(S) /\ Cardinality(S) \in Nat
  BY ThreadAssumption, FS_Subset, FS_CardinalityType

\* A step of one thread adds it to a set of threads, removes it, or leaves the set.
LEMMA CountOneThread ==
  ASSUME NEW S, S \subseteq Thread, NEW t \in Thread
  PROVE  /\ t \notin S => Cardinality(S \cup {t}) = Cardinality(S) + 1
         /\ t \in S => Cardinality(S \ {t}) = Cardinality(S) - 1
  BY ThreadsFinite, FS_AddElement, FS_RemoveElement

LEMMA CountIsExactInit == Init => CountIsExact
<1> SUFFICES ASSUME Init PROVE CountIsExact
  OBVIOUS
<1>1. PushingThreads = {} /\ HoldingThreads = {}
  BY DEF Init, PushingThreads, HoldingThreads, Pushing, Holding
<1>2. Len(mCentralTaskQueue) = 0
  BY DEF Init
<1>3. Cardinality(PushingThreads) = 0 /\ Cardinality(HoldingThreads) = 0
  BY <1>1, FS_EmptySet
<1>4. mRemainTaskCount = 0
  BY DEF Init
<1>5. mRemainTaskCount = Cardinality(PushingThreads) + Len(mCentralTaskQueue)
                           + Cardinality(HoldingThreads)
  BY <1>2, <1>3, <1>4
<1> QED
  BY <1>5 DEF CountIsExact, PushingThreads, HoldingThreads

LEMMA CountIsExactStep == DrainInv /\ CountIsExact /\ [Next]_vars => CountIsExact'
<1> SUFFICES ASSUME TypeOK, CountIsExact, [Next]_vars PROVE CountIsExact'
  BY DEF DrainInv
<1>0. mRemainTaskCount = Cardinality(PushingThreads) + Len(mCentralTaskQueue)
                           + Cardinality(HoldingThreads)
  BY DEF CountIsExact, PushingThreads, HoldingThreads
<1>a. /\ Cardinality(PushingThreads) \in Nat
      /\ Cardinality(HoldingThreads) \in Nat
      /\ Len(mCentralTaskQueue) \in Nat
  BY ThreadsFinite DEF PushingThreads, HoldingThreads, TypeOK
<1> DEFINE Counted == Cardinality(PushingThreads) + Len(mCentralTaskQueue)
                        + Cardinality(HoldingThreads)
<1> SUFFICES mRemainTaskCount' = Counted'
  BY DEF CountIsExact, PushingThreads, HoldingThreads
<1>b. PushingThreads \subseteq Thread /\ HoldingThreads \subseteq Thread
  BY DEF PushingThreads, HoldingThreads
<1>1. ASSUME NEW t \in Thread, Dispatch(t) PROVE mRemainTaskCount' = Counted'
  <2>1. /\ t \notin PushingThreads
        /\ PushingThreads' = PushingThreads \cup {t}
        /\ HoldingThreads' = HoldingThreads
    BY <1>1 DEF Dispatch, TypeOK, PushingThreads, HoldingThreads, Pushing, Holding
  <2> QED
    BY <1>0, <1>1, <1>a, <1>b, <2>1, CountOneThread DEF Dispatch
<1>2. ASSUME NEW t \in Thread, Push(t) PROVE mRemainTaskCount' = Counted'
  <2>1. /\ t \in PushingThreads
        /\ PushingThreads' = PushingThreads \ {t}
        /\ HoldingThreads' = HoldingThreads
    BY <1>2 DEF Push, TypeOK, PushingThreads, HoldingThreads, Pushing, Holding
  <2>2. Len(mCentralTaskQueue') = Len(mCentralTaskQueue) + 1
    BY <1>2 DEF Push, TypeOK
  <2>3. Cardinality(PushingThreads') = Cardinality(PushingThreads) - 1
    BY <1>b, <2>1, CountOneThread
  <2>4. mRemainTaskCount' = mRemainTaskCount
    BY <1>2 DEF Push
  <2> QED
    BY <1>0, <1>a, <2>1, <2>2, <2>3, <2>4
<1>3. ASSUME NEW t \in Thread, TryPop(t) PROVE mRemainTaskCount' = Counted'
  <2>1. /\ t \notin HoldingThreads
        /\ HoldingThreads' = HoldingThreads \cup {t}
        /\ PushingThreads' = PushingThreads
    BY <1>3 DEF TryPop, TypeOK, PushingThreads, HoldingThreads, Pushing, Holding
  <2>2. Len(mCentralTaskQueue') = Len(mCentralTaskQueue) - 1
    BY <1>3 DEF TryPop, TypeOK
  <2> QED
    BY <1>0, <1>3, <1>a, <1>b, <2>1, <2>2, CountOneThread DEF TryPop
<1>4. ASSUME NEW t \in Thread, Run(t) PROVE mRemainTaskCount' = Counted'
  <2>1. HoldingThreads' = HoldingThreads /\ PushingThreads' = PushingThreads
    BY <1>4 DEF Run, TypeOK, PushingThreads, HoldingThreads, Pushing, Holding
  <2> QED
    BY <1>0, <1>4, <2>1 DEF Run
<1>5. ASSUME NEW t \in Thread, Decrement(t) PROVE mRemainTaskCount' = Counted'
  <2>1. /\ t \in HoldingThreads
        /\ HoldingThreads' = HoldingThreads \ {t}
        /\ PushingThreads' = PushingThreads
    BY <1>5 DEF Decrement, TypeOK, PushingThreads, HoldingThreads, Pushing, Holding
  <2> QED
    BY <1>0, <1>5, <1>a, <1>b, <2>1, CountOneThread DEF Decrement
<1>6. CASE UNCHANGED vars
  BY <1>0, <1>6 DEF vars, PushingThreads, HoldingThreads, Pushing, Holding
<1> QED
  BY <1>1, <1>2, <1>3, <1>4, <1>5, <1>6 DEF Next, Proceed

\* mRemainTaskCount is exactly the number of tasks announced and not finished.
THEOREM CountExact == Spec => []CountIsExact
<1>1. Spec => [](DrainInv /\ CountIsExact)
  BY DrainInvariant, CountIsExactInit, CountIsExactStep, PTL DEF Spec
<1> QED
  BY <1>1, PTL

\* A task in the queue, or about to be put there by a thread that then leaves,
\* always has a thread that will come to it.
THEOREM NoTaskStranded == Spec => []NothingStranded
<1>1. DrainInv /\ CountIsExact => NothingStranded
  <2> SUFFICES ASSUME DrainInv, CountIsExact,
                      mCentralTaskQueue # << >> \/ \E t \in Thread : pc[t] = "push"
               PROVE  \E t \in Thread : Draining(t)
    BY DEF NothingStranded
  <2>1. /\ Cardinality(PushingThreads) \in Nat
        /\ Cardinality(HoldingThreads) \in Nat
        /\ IsFiniteSet(PushingThreads)
        /\ Len(mCentralTaskQueue) \in Nat
    BY ThreadsFinite DEF PushingThreads, HoldingThreads, DrainInv, TypeOK
  <2>2. CASE mCentralTaskQueue # << >>
    <3>1. Len(mCentralTaskQueue) > 0
      BY <2>1, <2>2 DEF DrainInv, TypeOK
    <3> QED
      BY <2>1, <3>1 DEF CountIsExact, PushingThreads, HoldingThreads, DrainInv, CountHasDrainer
  <2>3. CASE \E t \in Thread : pc[t] = "push"
    <3>1. PushingThreads # {}
      BY <2>3 DEF PushingThreads, Pushing
    <3>2. Cardinality(PushingThreads) > 0
      BY <2>1, <3>1, FS_EmptySet
    <3> QED
      BY <2>1, <3>2 DEF CountIsExact, PushingThreads, HoldingThreads, DrainInv, CountHasDrainer
  <2> QED
    BY <2>2, <2>3
<1>2. Spec => [](DrainInv /\ CountIsExact)
  BY DrainInvariant, CountExact, PTL
<1> QED
  BY <1>1, <1>2, PTL

-----------------------------------------------------------------------------
(***************************************************************************)
(* The executer implements a serial one.                                   *)
(***************************************************************************)
RunningTasks == {task[t] : t \in {u \in Thread : pc[u] = "run"}}

LEMMA SerialInit == Init => Serial!Init
  BY DEF Init, Serial!Init

\* A push submits, a successful try_pop starts, the end of a task finishes it.
LEMMA SerialStep == DrainInv /\ [Next]_vars => [Serial!Next]_(Serial!vars)
<1> SUFFICES ASSUME DrainInv, [Next]_vars PROVE [Serial!Next]_(Serial!vars)
  OBVIOUS
<1> USE DEF DrainInv, TypeOK
<1>1. ASSUME NEW t \in Thread, Dispatch(t) PROVE UNCHANGED Serial!vars
  <2>1. RunningTasks' = RunningTasks
    BY <1>1 DEF Dispatch, RunningTasks
  <2> QED
    BY <1>1, <2>1 DEF Dispatch, Serial!vars, RunningTasks
<1>2. ASSUME NEW t \in Thread, Push(t) PROVE Serial!Next
  <2>1. RunningTasks' = RunningTasks
    BY <1>2 DEF Push, Pushing, RunningTasks
  <2>2. Serial!Submit(task[t])
    BY <1>2, <2>1 DEF Push, Serial!Submit, RunningTasks
  <2>3. task[t] \in Task
    OBVIOUS
  <2> QED
    BY <2>2, <2>3 DEF Serial!Next
<1>3. ASSUME NEW t \in Thread, TryPop(t) PROVE Serial!Next
  <2>1. \A u \in Thread : pc[u] = "run" => FALSE
    BY <1>3 DEF TryPop, SingleDrainer, Draining
  <2>2. RunningTasks = {}
    BY <2>1 DEF RunningTasks
  <2>3. \A u \in Thread : pc'[u] = "run" <=> u = t
    BY <1>3, <2>1 DEF TryPop
  <2>4. RunningTasks' = {task'[t]}
    BY <2>3 DEF RunningTasks
  <2>5. task'[t] = Head(mCentralTaskQueue)
    BY <1>3 DEF TryPop
  <2>6. Serial!Start
    BY <1>3, <2>2, <2>4, <2>5 DEF TryPop, Serial!Start, RunningTasks
  <2> QED
    BY <2>6 DEF Serial!Next
<1>4. ASSUME NEW t \in Thread, Run(t) PROVE Serial!Next
  <2>1. \A u \in Thread : pc[u] = "run" <=> u = t
    BY <1>4 DEF Run, SingleDrainer, Draining
  <2>2. RunningTasks = {task[t]}
    BY <2>1 DEF RunningTasks
  <2>3. \A u \in Thread : pc'[u] # "run"
    BY <1>4, <2>1 DEF Run
  <2>4. RunningTasks' = {}
    BY <2>3 DEF RunningTasks
  <2>5. /\ task[t] \in Task
        /\ executed' = Append(executed, task[t])
        /\ UNCHANGED mCentralTaskQueue
    BY <1>4 DEF Run
  <2>6. \E j \in Task : /\ RunningTasks = {j}
                        /\ RunningTasks' = {}
                        /\ executed' = Append(executed, j)
                        /\ UNCHANGED mCentralTaskQueue
    BY <2>2, <2>4, <2>5
  <2> QED
    BY <2>6 DEF Serial!Next, Serial!Finish, RunningTasks
<1>5. ASSUME NEW t \in Thread, Decrement(t) PROVE UNCHANGED Serial!vars
  <2>1. RunningTasks' = RunningTasks
    BY <1>5 DEF Decrement, RunningTasks
  <2> QED
    BY <1>5, <2>1 DEF Decrement, Serial!vars, RunningTasks
<1>6. CASE UNCHANGED vars
  BY <1>6 DEF vars, Serial!vars
<1> QED
  BY <1>1, <1>2, <1>3, <1>4, <1>5, <1>6 DEF Next, Proceed

\* Whatever the threads do, tasks run one at a time, once each, in push order.
THEOREM SerialRefinement == Spec => ImplementsSerial
  BY DrainInvariant, SerialInit, SerialStep, PTL DEF Spec, ImplementsSerial, Serial!Spec
=============================================================================
