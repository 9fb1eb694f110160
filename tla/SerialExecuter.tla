--------------------------- MODULE SerialExecuter ---------------------------
(***************************************************************************)
(* What a caller of GCEDispatch is promised: jobs handed to the central    *)
(* executer by any thread are run one at a time, each exactly once, in the *)
(* order in which they entered the executer.  Nothing is said of which     *)
(* thread runs them.                                                       *)
(***************************************************************************)
EXTENDS Sequences

CONSTANT Job            (* the jobs that can be dispatched *)

VARIABLES
  waiting,              (* the jobs that entered and have not started, oldest first *)
  running,              (* the set of jobs being run *)
  finished              (* the jobs that were run, oldest first *)

vars == <<waiting, running, finished>>

Init ==
  /\ waiting = << >>
  /\ running = {}
  /\ finished = << >>

Submit(j) ==
  /\ waiting' = Append(waiting, j)
  /\ UNCHANGED <<running, finished>>

\* No job starts while another one runs.
Start ==
  /\ running = {}
  /\ waiting # << >>
  /\ running' = {Head(waiting)}
  /\ waiting' = Tail(waiting)
  /\ UNCHANGED finished

Finish(j) ==
  /\ running = {j}
  /\ running' = {}
  /\ finished' = Append(finished, j)
  /\ UNCHANGED waiting

Next ==
  \/ \E j \in Job : Submit(j) \/ Finish(j)
  \/ Start

Spec == Init /\ [][Next]_vars
=============================================================================
