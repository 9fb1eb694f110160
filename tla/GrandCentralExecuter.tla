------------------------ MODULE GrandCentralExecuter ------------------------
(***************************************************************************)
(* GrandCentralExecuter::DoDispatch (HW_05_MT): any I/O thread hands over a *)
(* task; the thread that moves mRemainTaskCount from 0 to 1 becomes the     *)
(* one that drains the queue until its decrement brings the counter back   *)
(* to 0, every other thread only pushes and leaves.                        *)
(*                                                                         *)
(* One step is one atomic access to shared state: an interlocked operation *)
(* on the counter, a push to or a try_pop from concurrent_queue, or the    *)
(* end of a task.  A try_pop that finds nothing changes nothing, so the    *)
(* draining thread's spin is its TryPop step being disabled.               *)
(***************************************************************************)
EXTENDS Naturals, Sequences, FiniteSets

CONSTANTS
  Thread,               (* the I/O worker threads, the only callers allowed *)
  MaxDispatch           (* how many times one thread calls DoDispatch *)

ASSUME ThreadAssumption == IsFiniteSet(Thread)
ASSUME MaxDispatchAssumption == MaxDispatch \in Nat \ {0}

VARIABLES
  mRemainTaskCount,
  mCentralTaskQueue,
  pc,                   (* where each thread is in DoDispatch *)
  task,                 (* the task each thread holds: its argument, then the popped one *)
  dispatched,           (* how many calls each thread has made *)
  executed              (* the tasks run so far, in order (history) *)

vars == <<mRemainTaskCount, mCentralTaskQueue, pc, task, dispatched, executed>>

\* A task is named by the thread that dispatched it and the number of the call.
Task == Thread \X (1..MaxDispatch)

Location == {"away", "push", "pushAndDrain", "pop", "run", "decrement"}

\* The drain loop and the push that leads to it.
Draining(t) == pc[t] \in {"pushAndDrain", "pop", "run", "decrement"}
\* Counted by mRemainTaskCount, not in the queue yet.
Pushing(t) == pc[t] \in {"push", "pushAndDrain"}
\* Popped and still counted.
Holding(t) == pc[t] \in {"run", "decrement"}

Init ==
  /\ mRemainTaskCount = 0
  /\ mCentralTaskQueue = << >>
  /\ pc = [t \in Thread |-> "away"]
  /\ task = [t \in Thread |-> <<t, 1>>]
  /\ dispatched = [t \in Thread |-> 0]
  /\ executed = << >>

\* DoDispatch entered: the interlocked increment decides the thread's role.
Dispatch(t) ==
  /\ pc[t] = "away"
  /\ dispatched[t] < MaxDispatch
  /\ dispatched' = [dispatched EXCEPT ![t] = @ + 1]
  /\ task' = [task EXCEPT ![t] = <<t, dispatched[t] + 1>>]
  /\ mRemainTaskCount' = mRemainTaskCount + 1
  /\ pc' = [pc EXCEPT ![t] = IF mRemainTaskCount' > 1 THEN "push" ELSE "pushAndDrain"]
  /\ UNCHANGED <<mCentralTaskQueue, executed>>

\* Faulty: a stack instead of a queue.
PushInFront(t) ==
  /\ Pushing(t)
  /\ mCentralTaskQueue' = <<task[t]>> \o mCentralTaskQueue
  /\ pc' = [pc EXCEPT ![t] = IF @ = "push" THEN "away" ELSE "pop"]
  /\ UNCHANGED <<mRemainTaskCount, task, dispatched, executed>>

\* The push of either branch; the first comer goes on to the loop.
Push(t) ==
  /\ Pushing(t)
  /\ mCentralTaskQueue' = Append(mCentralTaskQueue, task[t])
  /\ pc' = [pc EXCEPT ![t] = IF @ = "push" THEN "away" ELSE "pop"]
  /\ UNCHANGED <<mRemainTaskCount, task, dispatched, executed>>

\* Faulty: the task is taken off the counter when popped, and again when run.
PopUncounts(t) ==
  /\ pc[t] = "pop"
  /\ mCentralTaskQueue # << >>
  /\ task' = [task EXCEPT ![t] = Head(mCentralTaskQueue)]
  /\ mCentralTaskQueue' = Tail(mCentralTaskQueue)
  /\ mRemainTaskCount' = mRemainTaskCount - 1
  /\ pc' = [pc EXCEPT ![t] = "run"]
  /\ UNCHANGED <<dispatched, executed>>

TryPop(t) ==
  /\ pc[t] = "pop"
  /\ mCentralTaskQueue # << >>
  /\ task' = [task EXCEPT ![t] = Head(mCentralTaskQueue)]
  /\ mCentralTaskQueue' = Tail(mCentralTaskQueue)
  /\ pc' = [pc EXCEPT ![t] = "run"]
  /\ UNCHANGED <<mRemainTaskCount, dispatched, executed>>

\* task() returns.  The tasks of this program (PlayerWideEvent) dispatch nothing.
Run(t) ==
  /\ pc[t] = "run"
  /\ executed' = Append(executed, task[t])
  /\ pc' = [pc EXCEPT ![t] = "decrement"]
  /\ UNCHANGED <<mRemainTaskCount, mCentralTaskQueue, task, dispatched>>

\* Faulty: the drain ends when the queue looks empty.
DecrementUntilEmpty(t) ==
  /\ pc[t] = "decrement"
  /\ mRemainTaskCount' = mRemainTaskCount - 1
  /\ pc' = [pc EXCEPT ![t] = IF mCentralTaskQueue = << >> THEN "away" ELSE "pop"]
  /\ UNCHANGED <<mCentralTaskQueue, task, dispatched, executed>>

\* The decrement that reaches zero ends the drain, any other one loops.
Decrement(t) ==
  /\ pc[t] = "decrement"
  /\ mRemainTaskCount' = mRemainTaskCount - 1
  /\ pc' = [pc EXCEPT ![t] = IF mRemainTaskCount' = 0 THEN "away" ELSE "pop"]
  /\ UNCHANGED <<mCentralTaskQueue, task, dispatched, executed>>

\* One step of a call that was entered.
Proceed(t) == Push(t) \/ TryPop(t) \/ Run(t) \/ Decrement(t)

Next == \E t \in Thread : Dispatch(t) \/ Proceed(t)

\* The operating system runs every thread; nobody has to call DoDispatch.
Fairness == \A t \in Thread : WF_vars(Proceed(t))

Spec == Init /\ [][Next]_vars
FairSpec == Spec /\ Fairness

-----------------------------------------------------------------------------
TypeOK ==
  /\ mRemainTaskCount \in Nat
  /\ mCentralTaskQueue \in Seq(Task)
  /\ pc \in [Thread -> Location]
  /\ task \in [Thread -> Task]
  /\ dispatched \in [Thread -> 0..MaxDispatch]
  /\ executed \in Seq(Task)

\* DoDispatch's comment "the one who comes in first takes care of everything":
\* never two threads between winning the increment and leaving the loop.
SingleDrainer ==
  \A t, u \in Thread : Draining(t) /\ Draining(u) => t = u

\* The counter is the number of tasks between the increment and the decrement,
\* wherever they are: announced and not pushed, queued, or popped.
CountIsExact ==
  mRemainTaskCount = Cardinality({t \in Thread : Pushing(t)})
                       + Len(mCentralTaskQueue)
                       + Cardinality({t \in Thread : Holding(t)})

\* The counter is positive exactly while some thread owns the drain.
CountHasDrainer ==
  mRemainTaskCount > 0 <=> \E t \in Thread : Draining(t)

\* Nobody is left to run a queued task if this fails: a task stays in the queue,
\* or a thread that only pushes goes away, only while another thread drains.
NothingStranded ==
  (mCentralTaskQueue # << >> \/ \E t \in Thread : pc[t] = "push")
    => \E t \in Thread : Draining(t)

\* Every dispatched task is run, although most dispatchers only push and leave.
EveryTaskRuns ==
  \A t \in Thread, n \in 1..MaxDispatch :
    dispatched[t] >= n ~> \E i \in 1..Len(executed) : executed[i] = <<t, n>>

\* The executer behaves as a serial one whose jobs enter when they are pushed.
Serial == INSTANCE SerialExecuter WITH
  Job <- Task,
  waiting <- mCentralTaskQueue,
  running <- {task[t] : t \in {u \in Thread : pc[u] = "run"}},
  finished <- executed

ImplementsSerial == Serial!Spec
=============================================================================
