------------------------- MODULE PlayerEventsProofs -------------------------
(***************************************************************************)
(* Players that are alive keep their next tick and their place in the map, *)
(* for any number of players, threads, ticks and accepts.  A task runs     *)
(* through a reference to the top of its thread's queue and under the lock *)
(* of its player: nothing that is pushed meanwhile may come before it, and *)
(* what a start or a reset has half done is seen by nobody else.           *)
(***************************************************************************)
EXTENDS PlayerEvents, FiniteSetTheorems, TLAPS

\* The places of DoTimerJob where a task runs.
Inside == {"Start", "register", "OnTick", "decay", "again", "leave"}

\* What the variables look like that the invariants relate.
TimerShapes ==
  /\ now \in 0 .. MaxTick /\ LTickCount \in [IoThread -> 0 .. MaxTick]
  /\ mTimerJobQueue \in [IoThread -> Seq(Job)]
  /\ pc \in [IoThread -> Location]
  /\ running \in [IoThread -> Seq(Job)]
  /\ \A t \in IoThread : Len(running[t]) <= 1

PlayerShapes ==
  /\ session \in [Player -> {"pooled", "connected"}]
  /\ accepted \in 0 .. MaxAccept
  /\ returning \in [IoThread -> SUBSET Player]
  /\ mLock \in [Player -> IoThread \cup {NoThread}]
  /\ mPlayerId \in [Player -> {-1} \cup 1 .. mCurrentIssueId]
  /\ mHeartBeat \in [Player -> {-1, HeartBeat}]
  /\ mIsAlive \in [Player -> BOOLEAN]
  /\ mCurrentIssueId \in Nat
  /\ mPlayerMap \in [DOMAIN mPlayerMap -> Player]
  /\ DOMAIN mPlayerMap \subseteq 1 .. mCurrentIssueId

EventShapes ==
  /\ mBuffList = [p \in Player |-> mBuffList[p]]
  /\ \A p \in Player : DOMAIN mBuffList[p] \subseteq 1 .. MaxAccept
  /\ mRemainTaskCount \in Int
  /\ mCentralTaskQueue \in Seq(Event)
  /\ draining \in [IoThread -> BOOLEAN]
  /\ event \in [IoThread -> Event \cup {NoEvent}]
  /\ currentPlayers \in [IoThread -> Seq(Player)]

Shapes == TimerShapes /\ PlayerShapes /\ EventShapes

-----------------------------------------------------------------------------
(***************************************************************************)
(* The inductive invariant.                                                *)
(***************************************************************************)
\* A thread runs a task just where it is inside DoTimerJob, and what it runs was due.
TaskRuns ==
  \A t \in IoThread :
    /\ pc[t] \in Inside <=> running[t] # << >>
    /\ running[t] # << >> => running[t][1].tick <= LTickCount[t]
    /\ pc[t] \in {"Start", "register"} => running[t][1].task = "Start"

\* A thread resets one player, under its lock.
ResetRuns ==
  \A t \in IoThread :
    /\ pc[t] \in {"reset", "unregistered"} => \E p \in Player : returning[t] = {p}
    /\ pc[t] = "unregistered" => \A p \in returning[t] : mLock[p] = t

\* A player is half way through its registration, or its reset.
Registering(p) ==
  \E t \in IoThread :
    \/ pc[t] = "register" /\ Owner(t) = p
    \/ pc[t] = "unregistered" /\ p \in returning[t]

Registered(p) ==
  IF mIsAlive[p] THEN mPlayerId[p] \in DOMAIN mPlayerMap /\ mPlayerMap[mPlayerId[p]] = p
  ELSE mPlayerId[p] = -1

Registration ==
  /\ \A p \in Player : Registering(p) \/ Registered(p)
  /\ \A t \in IoThread : pc[t] = "register" => mIsAlive[Owner(t)]

\* A tick of p that waits in the queue of t.
Waits(t, i, p) ==
  /\ i \in DOMAIN mTimerJobQueue[t]
  /\ mTimerJobQueue[t][i].owner = p
  /\ mTimerJobQueue[t][i].task = "OnTick"

\* Before the job that ran is popped, the next tick waits behind it.
NextTickWaits ==
  /\ \A p \in Player : mIsAlive[p] => mHeartBeat[p] = HeartBeat
  /\ \A t \in IoThread : pc[t] = "leave" /\ mIsAlive[Owner(t)]
       => \E i \in Nat : i > 1 /\ Waits(t, i, Owner(t))

\* The starts that have an id to come.
Starts ==
  {x \in IoThread \X Nat :
    /\ x[2] \in DOMAIN mTimerJobQueue[x[1]]
    /\ mTimerJobQueue[x[1]][x[2]].task = "Start"
    /\ x[2] = 1 => pc[x[1]] \notin Inside \ {"Start", "register"}}

\* Each accept brings one id at most.
IdsAreFew ==
  IsFiniteSet(Starts) /\ Cardinality(Starts) + mCurrentIssueId <= accepted

Executing == \E t \in IoThread : event[t] # NoEvent

\* One thread drains, and the count is that of the events in the queue and in its hand.
Drains ==
  /\ \A t \in IoThread : draining[t] => pc[t] \in {"decay", "again"} /\ mRemainTaskCount > 0
  /\ \A t, u \in IoThread : draining[t] /\ draining[u] => t = u
  /\ \A t \in IoThread : event[t] # NoEvent => draining[t]
  /\ mRemainTaskCount = Len(mCentralTaskQueue) + (IF Executing THEN 1 ELSE 0)

IInv ==
  /\ Shapes /\ TaskRuns /\ ResetRuns /\ TopIsRunning
  /\ Registration /\ NextTickWaits /\ AliveHasTick /\ IdsAreFew /\ Drains

-----------------------------------------------------------------------------
(***************************************************************************)
(* Sequences.                                                              *)
(***************************************************************************)
\* r is what an insertion of e leaves of the jobs q.
HasInserted(r, q, i, e) ==
  /\ r \in Seq(Job)
  /\ Len(r) = Len(q) + 1
  /\ \A j \in 1 .. Len(q) + 1 :
       r[j] = IF j < i THEN q[j] ELSE IF j = i THEN e ELSE q[j - 1]

LEMMA InsertedAt ==
  ASSUME NEW q \in Seq(Job), NEW i \in 1 .. Len(q) + 1, NEW e \in Job
  PROVE  HasInserted(InsertAt(q, i, e), q, i, e)
<1> DEFINE before == SubSeq(q, 1, i - 1)
           after == SubSeq(q, i, Len(q))
<1>1. before \in Seq(Job) /\ Len(before) = i - 1
  OBVIOUS
<1>2. \A j \in 1 .. i - 1 : before[j] = q[j]
  OBVIOUS
<1>3. after \in Seq(Job) /\ Len(after) = Len(q) - i + 1
  OBVIOUS
<1>4. \A j \in 1 .. Len(q) - i + 1 : after[j] = q[i + j - 1]
  OBVIOUS
<1>5. <<e>> \in Seq(Job) /\ Len(<<e>>) = 1 /\ <<e>>[1] = e
  OBVIOUS
<1> DEFINE front == before \o <<e>>
<1> DEFINE all == InsertAt(q, i, e)
<1>6. all = front \o after
  BY DEF InsertAt
<1> HIDE DEF before, after, front, all
<1>7. /\ front \in Seq(Job)
      /\ Len(front) = i
      /\ \A j \in 1 .. i : front[j] = IF j < i THEN before[j] ELSE e
  BY <1>1, <1>5 DEF front
<1>8. /\ all \in Seq(Job)
      /\ Len(all) = Len(q) + 1
      /\ \A j \in 1 .. Len(q) + 1 :
           all[j] = IF j <= i THEN front[j] ELSE after[j - i]
  BY <1>3, <1>6, <1>7
<1>9. ASSUME NEW j \in 1 .. Len(q) + 1
      PROVE  all[j] = IF j < i THEN q[j] ELSE IF j = i THEN e ELSE q[j - 1]
  <2> /\ i \in Nat /\ j \in Nat
    OBVIOUS
  <2>1. CASE j <= i
    BY <1>2, <1>7, <1>8, <2>1
  <2>2. CASE j > i
    <3>1. j - i \in 1 .. Len(q) - i + 1 /\ i + (j - i) - 1 = j - 1
      BY <2>2
    <3>2. after[j - i] = q[i + (j - i) - 1]
      BY <3>1, <1>4
    <3> QED
      <4>1. all[j] = after[j - i]
        BY <2>2, <1>8
      <4>2. all[j] = q[j - 1]
        BY <3>1, <3>2, <4>1
      <4> QED
        BY <2>2, <4>2
  <2> QED
    BY <2>1, <2>2
<1> QED
  BY <1>8, <1>9 DEF all, HasInserted

\* The queue of t gets a job at place i.
Inserted(t, i, job) ==
  /\ mTimerJobQueue' \in [IoThread -> Seq(Job)]
  /\ \A u \in IoThread \ {t} : mTimerJobQueue'[u] = mTimerJobQueue[u]
  /\ i \in 1 .. Len(mTimerJobQueue[t]) + 1
  /\ Len(mTimerJobQueue'[t]) = Len(mTimerJobQueue[t]) + 1
  /\ \A j \in 1 .. Len(mTimerJobQueue[t]) + 1 :
       mTimerJobQueue'[t][j] = IF j < i THEN mTimerJobQueue[t][j]
                               ELSE IF j = i THEN job ELSE mTimerJobQueue[t][j - 1]

JobAfter(t, p, task, after) == [owner |-> p, task |-> task, tick |-> LTickCount[t] + after]

\* PushTimerJob inserts one job, and before the top only if it is due earlier.
LEMMA Pushed ==
  ASSUME TimerShapes, NEW t \in IoThread, NEW p \in Player, NEW task \in Task, NEW after \in Nat,
         PushTimerJob(t, p, task, after)
  PROVE  \E i \in Nat :
           /\ Inserted(t, i, JobAfter(t, p, task, after))
           /\ i = 1 /\ mTimerJobQueue[t] # << >>
                => LTickCount[t] + after < mTimerJobQueue[t][1].tick
<1> DEFINE q == mTimerJobQueue[t]
           job == JobAfter(t, p, task, after)
<1>1. q \in Seq(Job) /\ mTimerJobQueue \in [IoThread -> Seq(Job)]
  BY DEF TimerShapes
<1>2. job \in Job
  BY BoundAssumption DEF TimerShapes, JobAfter, Job
<1>3. PICK i \in 1 .. Len(q) + 1 :
        /\ (i = 1 /\ q # << >>) => LTickCount[t] + after < q[1].tick
        /\ mTimerJobQueue' = [mTimerJobQueue EXCEPT ![t] = InsertAt(q, i, job)]
  BY <1>1 DEF PushTimerJob, JobAfter
<1> HIDE DEF job, q
<1>4. HasInserted(InsertAt(q, i, job), q, i, job)
  <2>1. i \in 1 .. Len(q) + 1
    OBVIOUS
  <2> QED
    BY ONLY <1>1, <1>2, <2>1, InsertedAt
<1>5. mTimerJobQueue'[t] = InsertAt(q, i, job)
  BY <1>1, <1>3 DEF q
<1>6. \A u \in IoThread \ {t} : mTimerJobQueue'[u] = mTimerJobQueue[u]
  BY <1>1, <1>3
<1>7. mTimerJobQueue' \in [IoThread -> Seq(Job)]
  BY <1>1, <1>3, <1>4 DEF HasInserted
<1>8. Inserted(t, i, job)
  BY <1>4, <1>5, <1>6, <1>7 DEF Inserted, HasInserted, q
<1> QED
  BY <1>3, <1>8 DEF job, q

\* The jobs of a queue, and the tail that is left of it.
LEMMA Popped ==
  ASSUME NEW S, NEW q \in Seq(S), q # << >>
  PROVE  /\ Len(q) \in Nat /\ Len(q) > 0 /\ 1 \in DOMAIN q /\ Head(q) = q[1]
         /\ Tail(q) \in Seq(S) /\ Len(Tail(q)) = Len(q) - 1
         /\ \A j \in 1 .. Len(q) - 1 : Tail(q)[j] = q[j + 1]
OBVIOUS

\* Starts that were there before add nothing.
LEMMA FewerStarts ==
  ASSUME IdsAreFew, PlayerShapes, Starts' \subseteq Starts,
         mCurrentIssueId' = mCurrentIssueId, accepted' = accepted
  PROVE  IdsAreFew'
<1>1. IsFiniteSet(Starts') /\ Cardinality(Starts') <= Cardinality(Starts)
  BY FS_Subset DEF IdsAreFew
<1>2. Cardinality(Starts) \in Nat /\ Cardinality(Starts') \in Nat
  BY <1>1, FS_CardinalityType DEF IdsAreFew
<1> QED
  BY <1>1, <1>2 DEF IdsAreFew, PlayerShapes

\* One start more, moved or not, for one accept more.
LEMMA OneMoreStart ==
  ASSUME IdsAreFew, PlayerShapes, NEW x, NEW f \in Injection(Starts' \ {x}, Starts)
  PROVE  /\ IsFiniteSet(Starts')
         /\ Cardinality(Starts') \in Nat
         /\ Cardinality(Starts') <= Cardinality(Starts) + 1
         /\ x \notin Starts' => Cardinality(Starts') <= Cardinality(Starts)
<1> DEFINE rest == Starts' \ {x}
<1> f \in Injection(rest, Starts)
  OBVIOUS
<1> HIDE DEF rest
<1>1. IsFiniteSet(rest) /\ Cardinality(rest) <= Cardinality(Starts)
  BY FS_Injection DEF IdsAreFew
<1>2. Cardinality(rest) \in Nat /\ Cardinality(Starts) \in Nat
  BY <1>1, FS_CardinalityType DEF IdsAreFew
<1>3. CASE x \notin Starts'
  <2>1. rest = Starts'
    BY <1>3 DEF rest
  <2> QED
    BY <1>1, <1>2, <2>1
<1>4. CASE x \in Starts'
  <2>1. Starts' = rest \cup {x} /\ x \notin rest
    BY <1>4 DEF rest
  <2>2. IsFiniteSet(rest \cup {x}) /\ Cardinality(rest \cup {x}) = Cardinality(rest) + 1
    BY <1>1, <2>1, FS_AddElement
  <2> QED
    BY <1>1, <1>2, <2>1, <2>2, <1>4
<1> QED
  BY <1>3, <1>4

-----------------------------------------------------------------------------
(***************************************************************************)
(* What the steps leave as it was.                                         *)
(***************************************************************************)
\* A step that is neither inside a task nor in a reset.
Outside == {"port", "timer"}

\* A step that leaves the tasks, the players and the map alone keeps what is said of them.
LEMMA StillRegistered ==
  ASSUME Registration, UNCHANGED <<running, returning, mIsAlive, mPlayerId, mPlayerMap>>,
         \A t \in IoThread : (pc[t] = "register" <=> pc'[t] = "register")
                             /\ (pc[t] = "unregistered" <=> pc'[t] = "unregistered")
  PROVE  Registration'
BY DEF Registration, Registering, Registered, Owner

LEMMA StillDrains ==
  ASSUME Drains, NEW t \in IoThread, ~draining[t], \A u \in IoThread \ {t} : pc'[u] = pc[u],
         UNCHANGED <<mRemainTaskCount, mCentralTaskQueue, draining, event>>
  PROVE  Drains'
BY DEF Drains, Executing

\* Only t moves, to "to".
LEMMA Moves ==
  ASSUME TimerShapes, NEW t \in IoThread, NEW from, NEW to, Goto(t, from, to)
  PROVE  /\ pc[t] = from /\ pc'[t] = to /\ ~draining[t]
         /\ \A u \in IoThread \ {t} : pc'[u] = pc[u]
         /\ to \in Location => pc' \in [IoThread -> Location]
BY DEF TimerShapes, Goto

\* Whose task a thread runs.
LEMMA OwnerType ==
  ASSUME TimerShapes, NEW t \in IoThread, running[t] # << >>
  PROVE  running[t][1] \in Job /\ Owner(t) \in Player /\ running[t] = <<running[t][1]>>
<1>1. running[t] \in Seq(Job) /\ Len(running[t]) <= 1
  BY DEF TimerShapes
<1>2. running[t][1] \in Job /\ running[t] = <<running[t][1]>>
  BY <1>1
<1> QED
  BY <1>2 DEF Owner, Job

\* The clock.
LEMMA TickIInv == IInv /\ Tick => IInv'
<1> SUFFICES ASSUME IInv, Tick PROVE IInv'
  OBVIOUS
<1> USE DEF IInv
<1>1. Shapes'
  BY BoundAssumption DEF Tick, Shapes, TimerShapes, PlayerShapes, EventShapes, timer, player,
    manager, executer, pool
<1>2. TaskRuns' /\ ResetRuns' /\ TopIsRunning'
  BY DEF TaskRuns, ResetRuns, TopIsRunning, Tick, timer, player, pool, Owner
<1>3. Registration' /\ NextTickWaits' /\ AliveHasTick'
  BY DEF Registration, Registering, Registered, NextTickWaits, Waits, AliveHasTick, Owner, Tick,
    timer, player, manager, pool
<1>4. IdsAreFew' /\ Drains'
  BY DEF IdsAreFew, Starts, Drains, Executing, Tick, timer, manager, executer, pool
<1> QED
  BY <1>1, <1>2, <1>3, <1>4

LEMMA NothingDueIInv == ASSUME IInv, NEW t \in IoThread, NothingDue(t) PROVE IInv'
<1> USE DEF IInv
<1>1. /\ pc[t] = "timer" /\ pc'[t] = "port" /\ ~draining[t]
      /\ \A u \in IoThread \ {t} : pc'[u] = pc[u]
      /\ pc' \in [IoThread -> Location]
  BY Moves DEF NothingDue, Shapes, Location
<1>2. Shapes'
  BY <1>1 DEF NothingDue, Shapes, TimerShapes, PlayerShapes, EventShapes, timer, player, manager,
    executer, pool
<1>3. TaskRuns' /\ ResetRuns' /\ TopIsRunning'
  BY <1>1 DEF TaskRuns, ResetRuns, TopIsRunning, NothingDue, timer, player, pool, Owner, Inside
<1>4. Registration' /\ NextTickWaits' /\ AliveHasTick'
  BY <1>1, StillRegistered DEF Registration, Registering, Registered, NextTickWaits, Waits,
    AliveHasTick, Owner, NothingDue, timer, player, manager, pool
<1>5. Starts' \subseteq Starts
  BY <1>1 DEF Starts, NothingDue, timer, Inside
<1>6. IdsAreFew'
  BY <1>5, FewerStarts DEF NothingDue, manager, pool, Shapes
<1>7. Drains'
  BY <1>1, StillDrains DEF NothingDue, executer
<1> QED
  BY <1>2, <1>3, <1>4, <1>6, <1>7

LEMMA WakeUpIInv == ASSUME IInv, NEW t \in IoThread, WakeUp(t) PROVE IInv'
<1> USE DEF IInv
<1>1. /\ pc[t] = "port" /\ pc'[t] = "timer" /\ ~draining[t]
      /\ \A u \in IoThread \ {t} : pc'[u] = pc[u]
      /\ pc' \in [IoThread -> Location]
  BY Moves DEF WakeUp, EnterTimerJob, Shapes, Location
<1>2. Shapes'
  BY <1>1 DEF WakeUp, EnterTimerJob, Shapes, TimerShapes, PlayerShapes, EventShapes, player,
              manager, executer, pool
<1>3. /\ LTickCount' \in [IoThread -> 0 .. MaxTick]
      /\ \A u \in IoThread \ {t} : LTickCount'[u] = LTickCount[u]
  BY DEF WakeUp, EnterTimerJob, Shapes, TimerShapes
<1>4. TaskRuns' /\ ResetRuns' /\ TopIsRunning'
  BY <1>1, <1>3 DEF TaskRuns, ResetRuns, TopIsRunning, WakeUp, player, pool, Owner, Inside
<1>5. Registration'
  BY <1>1, StillRegistered DEF WakeUp, player, manager, pool
<1>6. NextTickWaits' /\ AliveHasTick'
  BY <1>1 DEF NextTickWaits, Waits, AliveHasTick, Owner, WakeUp, player
<1>7. Starts' \subseteq Starts
  BY <1>1 DEF Starts, WakeUp, Inside
<1>8. IdsAreFew'
  BY <1>7, FewerStarts DEF WakeUp, manager, pool, Shapes
<1>9. Drains'
  BY <1>1, StillDrains DEF WakeUp, executer
<1> QED
  BY <1>2, <1>4, <1>5, <1>6, <1>8, <1>9

LEMMA ReturnIInv ==
  ASSUME IInv, NEW t \in IoThread, NEW p \in Player, ReturnClientSession(t, p) PROVE IInv'
<1> USE DEF IInv
<1>1. /\ pc[t] = "port" /\ pc'[t] = "reset" /\ ~draining[t]
      /\ \A u \in IoThread \ {t} : pc'[u] = pc[u]
      /\ pc' \in [IoThread -> Location]
  BY Moves DEF ReturnClientSession, Shapes, Location
<1>2. /\ returning' \in [IoThread -> SUBSET Player]
      /\ returning'[t] = {p}
      /\ \A u \in IoThread \ {t} : returning'[u] = returning[u]
  BY DEF ReturnClientSession, Shapes, PlayerShapes
<1>3. Shapes'
  BY <1>1, <1>2 DEF ReturnClientSession, Shapes, TimerShapes, PlayerShapes, EventShapes, timer,
                    player, manager, executer
<1>4. TaskRuns' /\ ResetRuns' /\ TopIsRunning'
  BY <1>1, <1>2 DEF TaskRuns, ResetRuns, TopIsRunning, ReturnClientSession, timer, player, Owner,
                    Inside
<1>5. Registration'
  BY <1>1, <1>2 DEF Registration, Registering, Registered, ReturnClientSession, timer, player,
                    manager, Owner
<1>6. NextTickWaits' /\ AliveHasTick'
  BY <1>1 DEF NextTickWaits, Waits, AliveHasTick, Owner, ReturnClientSession, timer, player
<1>7. Starts' \subseteq Starts
  BY <1>1 DEF Starts, ReturnClientSession, timer, Inside
<1>8. IdsAreFew'
  BY <1>7, FewerStarts DEF ReturnClientSession, manager, Shapes
<1>9. Drains'
  BY <1>1, StillDrains DEF ReturnClientSession, executer
<1> QED
  BY <1>3, <1>4, <1>5, <1>6, <1>8, <1>9

\* What is left of the map belongs to others.
LEMMA UnregisterIInv == ASSUME IInv, NEW t \in IoThread, UnregisterPlayer(t) PROVE IInv'
<1> USE DEF IInv
<1>1. /\ pc[t] = "reset" /\ pc'[t] = "unregistered" /\ ~draining[t]
      /\ \A u \in IoThread \ {t} : pc'[u] = pc[u]
      /\ pc' \in [IoThread -> Location]
  BY Moves DEF UnregisterPlayer, Shapes, Location
<1>2. PICK p \in Player : returning[t] = {p}
  BY <1>1 DEF ResetRuns
<1>3. /\ mLock[p] = NoThread
      /\ mLock' = [mLock EXCEPT ![p] = t]
      /\ mPlayerMap' = [id \in DOMAIN mPlayerMap \ {mPlayerId[p]} |-> mPlayerMap[id]]
  BY <1>2 DEF UnregisterPlayer
<1>4. /\ mLock' \in [Player -> IoThread \cup {NoThread}]
      /\ mLock'[p] = t
      /\ \A q \in Player \ {p} : mLock'[q] = mLock[q]
  BY <1>3 DEF Shapes, PlayerShapes
<1>5. /\ DOMAIN mPlayerMap' = DOMAIN mPlayerMap \ {mPlayerId[p]}
      /\ \A id \in DOMAIN mPlayerMap' : mPlayerMap'[id] = mPlayerMap[id]
      /\ mPlayerMap' \in [DOMAIN mPlayerMap' -> Player]
  BY <1>3 DEF Shapes, PlayerShapes
<1>6. \A u \in IoThread : running[u] # << >> => Owner(u) # p
  BY <1>3, ThreadAssumption DEF TopIsRunning, Owner
<1>7. Shapes'
  BY <1>1, <1>4, <1>5 DEF UnregisterPlayer, Shapes, TimerShapes, PlayerShapes, EventShapes, timer,
                    executer, pool
<1>8. TaskRuns'
  BY <1>1 DEF TaskRuns, UnregisterPlayer, timer, Inside
<1>9. ResetRuns'
  BY <1>1, <1>2, <1>3, <1>4, ThreadAssumption DEF ResetRuns, UnregisterPlayer, pool, Shapes,
                                                   PlayerShapes
<1>10. TopIsRunning'
  BY <1>4, <1>6 DEF TopIsRunning, UnregisterPlayer, timer, Owner, Shapes, TimerShapes
<1>11. \A q \in Player \ {p} : Registered(q) => Registered(q)'
  <2> SUFFICES ASSUME NEW q \in Player \ {p}, Registered(q) PROVE Registered(q)'
    OBVIOUS
  <2>1. ~(\E u \in IoThread : pc[u] = "register" /\ Owner(u) = p)
    BY <1>6 DEF TaskRuns, Inside
  <2>2. ~(\E u \in IoThread : pc[u] = "unregistered" /\ p \in returning[u])
    BY <1>3, ThreadAssumption DEF ResetRuns
  <2>3. Registered(p)
    BY <2>1, <2>2 DEF Registration, Registering
  <2>4. mIsAlive[q] => mPlayerId[q] # mPlayerId[p]
    BY <2>3, BoundAssumption DEF Registered, Shapes, PlayerShapes
  <2> QED
    BY <1>5, <2>4 DEF Registered, UnregisterPlayer
<1>12. Registration'
  <2>1. \A q \in Player : Registering(q) => Registering(q)'
    BY <1>1 DEF Registering, UnregisterPlayer, timer, pool, Owner
  <2>2. Registering(p)'
    BY <1>1, <1>2 DEF Registering, UnregisterPlayer, pool
  <2> QED
    BY <1>1, <1>11, <2>1, <2>2 DEF Registration, UnregisterPlayer, timer, Owner
<1>13. NextTickWaits' /\ AliveHasTick'
  BY <1>1 DEF NextTickWaits, Waits, AliveHasTick, Owner, UnregisterPlayer, timer
<1>14. Starts' \subseteq Starts
  BY <1>1 DEF Starts, UnregisterPlayer, timer, Inside
<1>15. IdsAreFew'
  BY <1>14, FewerStarts DEF UnregisterPlayer, pool, Shapes
<1>16. Drains'
  BY <1>1, StillDrains DEF UnregisterPlayer, executer
<1> QED
  BY <1>7, <1>8, <1>9, <1>10, <1>12, <1>13, <1>15, <1>16

LEMMA ResetIInv == ASSUME IInv, NEW t \in IoThread, PlayerReset(t) PROVE IInv'
<1> USE DEF IInv
<1>1. /\ pc[t] = "unregistered" /\ pc'[t] = "timer" /\ ~draining[t]
      /\ \A u \in IoThread \ {t} : pc'[u] = pc[u]
      /\ pc' \in [IoThread -> Location]
  BY Moves DEF PlayerReset, EnterTimerJob, Shapes, Location
<1>2. PICK p \in Player : returning[t] = {p}
  BY <1>1 DEF ResetRuns
<1>3. mLock[p] = t
  BY <1>1, <1>2 DEF ResetRuns
<1>4. /\ mPlayerId' \in [Player -> {-1} \cup 1 .. mCurrentIssueId] /\ mPlayerId'[p] = -1
      /\ mHeartBeat' \in [Player -> {-1, HeartBeat}]
      /\ mIsAlive' \in [Player -> BOOLEAN] /\ mIsAlive'[p] = FALSE
      /\ mLock' \in [Player -> IoThread \cup {NoThread}]
      /\ session' \in [Player -> {"pooled", "connected"}]
  BY <1>2 DEF PlayerReset, Shapes, PlayerShapes
<1>5. \A q \in Player \ {p} : /\ mPlayerId'[q] = mPlayerId[q] /\ mHeartBeat'[q] = mHeartBeat[q]
                              /\ mIsAlive'[q] = mIsAlive[q] /\ mLock'[q] = mLock[q]
  BY <1>2 DEF PlayerReset, Shapes, PlayerShapes
<1>6. /\ returning' \in [IoThread -> SUBSET Player]
      /\ \A u \in IoThread \ {t} : returning'[u] = returning[u]
  BY DEF PlayerReset, Shapes, PlayerShapes
<1>7. /\ LTickCount' \in [IoThread -> 0 .. MaxTick]
      /\ \A u \in IoThread \ {t} : LTickCount'[u] = LTickCount[u]
  BY DEF PlayerReset, EnterTimerJob, Shapes, TimerShapes
<1>8. \A u \in IoThread : running[u] # << >> => Owner(u) # p
  <2> SUFFICES ASSUME NEW u \in IoThread, running[u] # << >>, Owner(u) = p PROVE FALSE
    OBVIOUS
  <2>1. mLock[p] = u
    BY DEF TopIsRunning, Owner
  <2> QED
    BY <2>1, <1>1, <1>3 DEF TaskRuns, Inside
<1>9. Shapes'
  BY <1>1, <1>4, <1>6, <1>7 DEF PlayerReset, Shapes, TimerShapes, PlayerShapes, EventShapes,
                                manager, executer
<1>10. TaskRuns'
  BY <1>1, <1>7 DEF TaskRuns, PlayerReset, Inside
<1>11. ResetRuns'
  BY <1>1, <1>2, <1>3, <1>5, <1>6 DEF ResetRuns
<1>12. TopIsRunning'
  <2> SUFFICES ASSUME NEW u \in IoThread, running[u] # << >>
               PROVE  mTimerJobQueue[u] # << >> /\ Head(mTimerJobQueue[u]) = running[u][1]
                      /\ mLock'[Owner(u)] = u
    BY DEF TopIsRunning, PlayerReset, Owner
  <2>1. Owner(u) \in Player \ {p}
    BY <1>8, OwnerType DEF Shapes
  <2> QED
    BY <1>5, <2>1 DEF TopIsRunning
<1>13. Registration'
  <2>1. Registered(p)'
    BY <1>4 DEF Registered
  <2>2. \A q \in Player \ {p} : Registering(q) => Registering(q)'
    BY <1>1, <1>2, <1>6 DEF Registering, PlayerReset, Owner
  <2>3. \A q \in Player \ {p} : Registered(q) => Registered(q)'
    BY <1>5 DEF Registered, PlayerReset, manager
  <2>4. \A u \in IoThread : pc'[u] = "register" => mIsAlive'[Owner(u)']
    <3> SUFFICES ASSUME NEW u \in IoThread, pc'[u] = "register" PROVE mIsAlive'[Owner(u)']
      OBVIOUS
    <3>1. u # t /\ pc[u] = "register"
      BY <1>1
    <3>2. Owner(u) \in Player \ {p} /\ Owner(u)' = Owner(u)
      <4>1. running[u] # << >>
        BY <3>1 DEF TaskRuns, Inside
      <4> QED
        BY <1>8, <4>1, OwnerType DEF Owner, PlayerReset, Shapes
    <3> QED
      BY <1>5, <3>1, <3>2 DEF Registration
  <2> QED
    BY <2>1, <2>2, <2>3, <2>4 DEF Registration
<1>14. NextTickWaits'
  <2>1. \A q \in Player : mIsAlive'[q] => mHeartBeat'[q] = HeartBeat
    BY <1>4, <1>5 DEF NextTickWaits
  <2>2. ASSUME NEW u \in IoThread, pc'[u] = "leave", mIsAlive'[Owner(u)']
        PROVE  \E i \in Nat : i > 1 /\ Waits(u, i, Owner(u))'
    <3>1. u # t /\ pc[u] = "leave"
      BY <1>1, <2>2
    <3>2. Owner(u) \in Player \ {p} /\ Owner(u)' = Owner(u)
      <4>1. running[u] # << >>
        BY <3>1 DEF TaskRuns, Inside
      <4> QED
        BY <1>8, <4>1, OwnerType DEF Owner, PlayerReset, Shapes
    <3> QED
      BY <1>5, <2>2, <3>1, <3>2 DEF NextTickWaits, Waits, PlayerReset
  <2> QED
    BY <2>1, <2>2 DEF NextTickWaits
<1>15. AliveHasTick'
  BY <1>4, <1>5 DEF AliveHasTick, PlayerReset
<1>16. Starts' \subseteq Starts
  BY <1>1 DEF Starts, PlayerReset, Inside
<1>17. IdsAreFew'
  BY <1>16, FewerStarts DEF PlayerReset, manager, Shapes
<1>18. Drains'
  BY <1>1, StillDrains DEF PlayerReset, executer
<1> QED
  BY <1>9, <1>10, <1>11, <1>12, <1>13, <1>14, <1>15, <1>17, <1>18

-----------------------------------------------------------------------------
(***************************************************************************)
(* A job is pushed.                                                        *)
(***************************************************************************)
\* Everything that waits still waits, and no earlier than before.
LEMMA PushedWaits ==
  ASSUME TimerShapes, NEW t \in IoThread, NEW i \in Nat, NEW job, Inserted(t, i, job),
         NEW u \in IoThread, NEW k \in Nat, k \in DOMAIN mTimerJobQueue[u]
  PROVE  \E j \in Nat : /\ j >= k /\ j \in DOMAIN mTimerJobQueue'[u]
                        /\ mTimerJobQueue'[u][j] = mTimerJobQueue[u][k]
                        /\ u # t \/ k < i => j = k
<1> DEFINE q == mTimerJobQueue[u]
           r == mTimerJobQueue'[u]
           n == Len(q)
<1>1. q \in Seq(Job) /\ r \in Seq(Job)
  BY DEF TimerShapes, Inserted
<1>2. n \in Nat /\ DOMAIN q = 1 .. n /\ DOMAIN r = 1 .. Len(r)
  BY <1>1
<1>3. k \in 1 .. n
  BY <1>2
<1>4. u # t => r = q
  BY DEF Inserted
<1>5. u = t => /\ i \in 1 .. n + 1 /\ Len(r) = n + 1
               /\ \A j \in 1 .. n + 1 : r[j] = IF j < i THEN q[j] ELSE IF j = i THEN job ELSE q[j - 1]
  BY DEF Inserted
<1> HIDE DEF q, r, n
<1> SUFFICES \E j \in Nat : j >= k /\ j \in DOMAIN r /\ r[j] = q[k] /\ (u # t \/ k < i => j = k)
  BY DEF q, r
<1>6. CASE u # t
  BY <1>2, <1>3, <1>4, <1>6
<1>7. CASE u = t /\ k < i
  <2>1. k \in 1 .. n + 1
    BY <1>2, <1>3
  <2>2. r[k] = q[k]
    BY <1>5, <1>7, <2>1
  <2>3. k \in DOMAIN r
    BY <1>2, <1>5, <1>7, <2>1
  <2> QED
    BY <2>2, <2>3
<1>8. CASE u = t /\ ~(k < i)
  <2>1. k + 1 \in 1 .. n + 1 /\ ~(k + 1 < i) /\ k + 1 # i /\ k + 1 - 1 = k
    BY <1>2, <1>3, <1>5, <1>8
  <2>2. r[k + 1] = q[k + 1 - 1]
    BY <1>5, <1>8, <2>1
  <2>3. k + 1 \in DOMAIN r /\ k + 1 \in Nat /\ k + 1 >= k
    BY <1>2, <1>5, <1>8, <2>1
  <2> QED
    BY <1>8, <2>1, <2>2, <2>3
<1> QED
  BY <1>6, <1>7, <1>8

\* A task that pushes behind the top still runs the top.
LEMMA PushedTop ==
  ASSUME TimerShapes, TopIsRunning, NEW t \in IoThread, NEW i \in Nat, NEW job,
         Inserted(t, i, job), running[t] # << >> => i > 1, UNCHANGED <<running, mLock>>
  PROVE  TopIsRunning'
<1> SUFFICES ASSUME NEW u \in IoThread, running[u] # << >>
             PROVE  /\ mTimerJobQueue'[u] # << >> /\ Head(mTimerJobQueue'[u]) = running[u][1]
                    /\ mLock[Owner(u)] = u
  BY DEF TopIsRunning, Owner
<1>1. /\ mTimerJobQueue[u] \in Seq(Job) /\ mTimerJobQueue[u] # << >>
      /\ Head(mTimerJobQueue[u]) = running[u][1] /\ mLock[Owner(u)] = u
  BY DEF TimerShapes, TopIsRunning
<1>2. 1 \in DOMAIN mTimerJobQueue[u] /\ mTimerJobQueue[u][1] = running[u][1]
  BY <1>1
<1>3. 1 \in DOMAIN mTimerJobQueue'[u] /\ mTimerJobQueue'[u][1] = mTimerJobQueue[u][1]
  BY <1>2, PushedWaits
<1>4. mTimerJobQueue'[u] \in Seq(Job)
  BY DEF Inserted
<1> QED
  BY <1>1, <1>2, <1>3, <1>4

LEMMA PushedTicks ==
  ASSUME TimerShapes, AliveHasTick, NEW t \in IoThread, NEW i \in Nat, NEW job,
         Inserted(t, i, job), running[t] # << >> => i > 1, UNCHANGED <<running, mIsAlive>>
  PROVE  AliveHasTick'
<1> SUFFICES ASSUME NEW p \in Player, mIsAlive[p]
             PROVE  \E u \in IoThread : \E j \in DOMAIN mTimerJobQueue'[u] :
                      /\ mTimerJobQueue'[u][j].owner = p
                      /\ mTimerJobQueue'[u][j].task = "OnTick" \/ (running[u] # << >> /\ j = 1)
  BY DEF AliveHasTick
<1>1. PICK u \in IoThread : \E k \in DOMAIN mTimerJobQueue[u] :
        /\ mTimerJobQueue[u][k].owner = p
        /\ mTimerJobQueue[u][k].task = "OnTick" \/ (running[u] # << >> /\ k = 1)
  BY DEF AliveHasTick
<1>2. PICK k \in DOMAIN mTimerJobQueue[u] :
        /\ mTimerJobQueue[u][k].owner = p
        /\ mTimerJobQueue[u][k].task = "OnTick" \/ (running[u] # << >> /\ k = 1)
  BY <1>1
<1>3. k \in Nat
  BY DEF TimerShapes
<1>4. PICK j \in Nat : /\ j >= k /\ j \in DOMAIN mTimerJobQueue'[u]
                       /\ mTimerJobQueue'[u][j] = mTimerJobQueue[u][k]
                       /\ u # t \/ k < i => j = k
  BY <1>3, PushedWaits
<1>5. running[u] # << >> /\ k = 1 => j = 1
  BY <1>4
<1> QED
  BY <1>2, <1>4, <1>5

\* The places of a task whose start has its id.
Past == Inside \ {"Start", "register"}

\* Where a job that was not pushed was before.
Before(t, i, u, k) == IF u = t /\ k > i THEN k - 1 ELSE k

LEMMA PushedFrom ==
  ASSUME TimerShapes, NEW t \in IoThread, NEW i \in Nat, NEW job, Inserted(t, i, job),
         NEW u \in IoThread, NEW k \in Nat, k \in DOMAIN mTimerJobQueue'[u], ~(u = t /\ k = i)
  PROVE  /\ Before(t, i, u, k) \in Nat
         /\ Before(t, i, u, k) \in DOMAIN mTimerJobQueue[u]
         /\ mTimerJobQueue'[u][k] = mTimerJobQueue[u][Before(t, i, u, k)]
<1> DEFINE q == mTimerJobQueue[u]
           r == mTimerJobQueue'[u]
           n == Len(q)
           j == Before(t, i, u, k)
<1>1. q \in Seq(Job) /\ r \in Seq(Job)
  BY DEF TimerShapes, Inserted
<1>2. n \in Nat /\ DOMAIN q = 1 .. n /\ DOMAIN r = 1 .. Len(r)
  BY <1>1
<1>3. k \in 1 .. Len(r)
  BY <1>2
<1>4. u # t => r = q
  BY DEF Inserted
<1>5. u = t => /\ i \in 1 .. n + 1 /\ Len(r) = n + 1
               /\ \A m \in 1 .. n + 1 : r[m] = IF m < i THEN q[m] ELSE IF m = i THEN job ELSE q[m - 1]
  BY DEF Inserted
<1>6. j = IF u = t /\ k > i THEN k - 1 ELSE k
  BY DEF Before
<1> HIDE DEF q, r, n, j
<1> SUFFICES j \in Nat /\ j \in DOMAIN q /\ r[k] = q[j]
  BY DEF q, r, j
<1>7. CASE u # t
  BY <1>2, <1>3, <1>4, <1>6, <1>7
<1>8. CASE u = t /\ k < i
  BY <1>2, <1>3, <1>5, <1>6, <1>8
<1>9. CASE u = t /\ k > i
  <2>1. j = k - 1 /\ j \in 1 .. n /\ k \in 1 .. n + 1 /\ ~(k < i) /\ k # i
    BY <1>2, <1>3, <1>5, <1>6, <1>9
  <2>2. r[k] = q[k - 1]
    BY <1>5, <1>9, <2>1
  <2> QED
    BY <1>2, <2>1, <2>2
<1> QED
  BY <1>7, <1>8, <1>9

\* The starts of before are where they were, or one place further.
LEMMA PushedStarts ==
  ASSUME TimerShapes, NEW t \in IoThread, NEW i \in Nat, NEW job, Inserted(t, i, job),
         i = 1 => pc[t] \notin Inside, \A u \in IoThread : pc[u] \in Past => pc'[u] \in Past
  PROVE  \E f : f \in Injection(Starts' \ {<<t, i>>}, Starts)
<1> DEFINE f == [x \in Starts' \ {<<t, i>>} |->
                   <<x[1], Before(t, i, x[1], x[2])>>]
<1>1. ASSUME NEW x \in Starts' \ {<<t, i>>} PROVE f[x] \in Starts
  <2>1. /\ x \in IoThread \X Nat /\ x = <<x[1], x[2]>> /\ x[1] \in IoThread /\ x[2] \in Nat
        /\ x[2] \in DOMAIN mTimerJobQueue'[x[1]]
        /\ mTimerJobQueue'[x[1]][x[2]].task = "Start"
        /\ x[2] = 1 => pc'[x[1]] \notin Past
    BY DEF Starts, Past
  <2>2. ~(x[1] = t /\ x[2] = i)
    BY <2>1
  <2> DEFINE j == Before(t, i, x[1], x[2])
  <2>3. /\ j \in Nat /\ j \in DOMAIN mTimerJobQueue[x[1]]
        /\ mTimerJobQueue'[x[1]][x[2]] = mTimerJobQueue[x[1]][j]
    BY <2>1, <2>2, PushedFrom
  <2>4. j = 1 => pc[x[1]] \notin Past
    BY <2>1, <2>2 DEF Before, Past, Inserted
  <2> HIDE DEF j
  <2>5. <<x[1], j>> \in Starts
    BY <2>1, <2>3, <2>4 DEF Starts, Past
  <2> QED
    BY <2>5 DEF j
<1>2. ASSUME NEW x \in Starts' \ {<<t, i>>}, NEW y \in Starts' \ {<<t, i>>}, f[x] = f[y]
      PROVE  x = y
  <2>1. /\ x = <<x[1], x[2]>> /\ x[2] \in Nat /\ x # <<t, i>>
        /\ y = <<y[1], y[2]>> /\ y[2] \in Nat /\ y # <<t, i>>
    BY DEF Starts
  <2>2. x[1] = y[1] /\ Before(t, i, x[1], x[2]) = Before(t, i, y[1], y[2])
    BY <1>2
  <2>3. ~(x[1] = t /\ x[2] = i) /\ ~(y[1] = t /\ y[2] = i)
    BY <2>1
  <2>4. x[2] = y[2]
    BY <2>1, <2>2, <2>3 DEF Before
  <2> QED
    BY <2>1, <2>2, <2>4
<1>3. f \in [Starts' \ {<<t, i>>} -> Starts]
  BY <1>1
<1> HIDE DEF f
<1>4. f \in Injection(Starts' \ {<<t, i>>}, Starts)
  BY <1>2, <1>3 DEF Injection, IsInjective
<1> QED
  BY <1>4

-----------------------------------------------------------------------------
(***************************************************************************)
(* The steps that push or pop.                                             *)
(***************************************************************************)
\* A task that is not a start takes no id.
LEMMA PushedNoStart ==
  ASSUME IdsAreFew, TimerShapes, PlayerShapes, NEW t \in IoThread, NEW i \in Nat, NEW job,
         Inserted(t, i, job), job.task # "Start",
         i = 1 => pc[t] \notin Inside, \A u \in IoThread : pc[u] \in Past => pc'[u] \in Past,
         mCurrentIssueId' = mCurrentIssueId, accepted' = accepted
  PROVE  IdsAreFew'
<1>1. PICK f : f \in Injection(Starts' \ {<<t, i>>}, Starts)
  BY PushedStarts
<1>2. <<t, i>> \notin Starts'
  BY DEF Starts, Inserted
<1>3. IsFiniteSet(Starts') /\ Cardinality(Starts') \in Nat
      /\ Cardinality(Starts') <= Cardinality(Starts)
  BY <1>1, <1>2, OneMoreStart
<1>4. Cardinality(Starts) \in Nat
  BY FS_CardinalityType DEF IdsAreFew
<1> QED
  BY <1>3, <1>4 DEF IdsAreFew, PlayerShapes

LEMMA AcceptIInv ==
  ASSUME IInv, NEW t \in IoThread, NEW p \in Player, AcceptCompletion(t, p) PROVE IInv'
<1> USE DEF IInv
<1>1. /\ pc[t] = "port" /\ pc'[t] = "timer" /\ ~draining[t]
      /\ \A u \in IoThread \ {t} : pc'[u] = pc[u]
      /\ pc' \in [IoThread -> Location]
  BY Moves DEF AcceptCompletion, EnterTimerJob, Shapes, Location
<1>2. /\ LTickCount' \in [IoThread -> 0 .. MaxTick]
      /\ \A u \in IoThread \ {t} : LTickCount'[u] = LTickCount[u]
      /\ session' \in [Player -> {"pooled", "connected"}]
      /\ accepted' = accepted + 1 /\ accepted' \in 0 .. MaxAccept
  BY BoundAssumption DEF AcceptCompletion, EnterTimerJob, Shapes, TimerShapes, PlayerShapes
<1>3. \/ UNCHANGED mTimerJobQueue
      \/ \E i \in Nat : Inserted(t, i, JobAfter(t, p, "Start", StartDelay))
  BY Pushed, DelayAssumption DEF AcceptCompletion, Shapes, Task
<1>4. mTimerJobQueue' \in [IoThread -> Seq(Job)]
  BY <1>3 DEF Inserted, Shapes, TimerShapes
<1>5. running[t] = << >>
  BY <1>1 DEF TaskRuns, Inside
<1>6. Shapes'
  BY <1>1, <1>2, <1>4 DEF AcceptCompletion, Shapes, TimerShapes, PlayerShapes, EventShapes,
                          player, manager, executer
<1>7. TaskRuns' /\ ResetRuns'
  BY <1>1, <1>2 DEF TaskRuns, ResetRuns, AcceptCompletion, player, Inside
<1>8. TopIsRunning'
  <2>1. ASSUME UNCHANGED mTimerJobQueue PROVE TopIsRunning'
    BY <2>1 DEF TopIsRunning, AcceptCompletion, player, Owner
  <2> QED
    BY <1>3, <1>5, <2>1, PushedTop DEF AcceptCompletion, player, Shapes
<1>9. Registration'
  BY <1>1, StillRegistered DEF AcceptCompletion, player, manager
<1>10. NextTickWaits'
  <2>1. \A q \in Player : mIsAlive'[q] => mHeartBeat'[q] = HeartBeat
    BY DEF NextTickWaits, AcceptCompletion, player
  <2>2. ASSUME NEW u \in IoThread, pc'[u] = "leave", mIsAlive'[Owner(u)']
        PROVE  \E i \in Nat : i > 1 /\ Waits(u, i, Owner(u))'
    <3>1. u # t /\ pc[u] = "leave" /\ Owner(u)' = Owner(u)
      BY <1>1, <2>2 DEF Owner, AcceptCompletion
    <3>2. mTimerJobQueue'[u] = mTimerJobQueue[u]
      BY <1>3, <3>1 DEF Inserted
    <3> QED
      BY <2>2, <3>1, <3>2 DEF NextTickWaits, Waits, AcceptCompletion, player
  <2> QED
    BY <2>1, <2>2 DEF NextTickWaits
<1>11. AliveHasTick'
  <2>1. ASSUME UNCHANGED mTimerJobQueue PROVE AliveHasTick'
    BY <2>1 DEF AliveHasTick, AcceptCompletion, player
  <2> QED
    BY <1>3, <1>5, <2>1, PushedTicks DEF AcceptCompletion, player, Shapes
<1>12. IdsAreFew'
  <2>1. mCurrentIssueId' = mCurrentIssueId /\ mCurrentIssueId \in Nat /\ accepted \in Nat
    BY BoundAssumption DEF AcceptCompletion, manager, Shapes, PlayerShapes
  <2>2. Cardinality(Starts) \in Nat /\ Cardinality(Starts) + mCurrentIssueId <= accepted
    BY FS_CardinalityType DEF IdsAreFew
  <2>3. CASE UNCHANGED mTimerJobQueue
    <3>1. Starts' \subseteq Starts
      BY <1>1, <2>3 DEF Starts, Inside
    <3>2. IsFiniteSet(Starts') /\ Cardinality(Starts') <= Cardinality(Starts)
      BY <3>1, FS_Subset DEF IdsAreFew
    <3>3. Cardinality(Starts') \in Nat
      BY <3>2, FS_CardinalityType
    <3> QED
      BY <1>2, <2>1, <2>2, <3>2, <3>3 DEF IdsAreFew
  <2>4. CASE \E i \in Nat : Inserted(t, i, JobAfter(t, p, "Start", StartDelay))
    <3>1. PICK i \in Nat : Inserted(t, i, JobAfter(t, p, "Start", StartDelay))
      BY <2>4
    <3>2. PICK f : f \in Injection(Starts' \ {<<t, i>>}, Starts)
      BY <1>1, <3>1, PushedStarts DEF Inside, Past, Shapes
    <3>3. IsFiniteSet(Starts') /\ Cardinality(Starts') \in Nat
          /\ Cardinality(Starts') <= Cardinality(Starts) + 1
      BY <3>2, OneMoreStart DEF Shapes
    <3> QED
      BY <1>2, <2>1, <2>2, <3>3 DEF IdsAreFew
  <2> QED
    BY <1>3, <2>3, <2>4
<1>13. Drains'
  BY <1>1, StillDrains DEF AcceptCompletion, executer
<1> QED
  BY <1>6, <1>7, <1>8, <1>9, <1>10, <1>11, <1>12, <1>13

\* The next tick goes behind the job that runs.
LEMMA DoSyncAfterIInv == ASSUME IInv, NEW t \in IoThread, DoSyncAfter(t) PROVE IInv'
<1> USE DEF IInv
<1>1. /\ pc[t] = "again" /\ pc'[t] = "leave" /\ ~draining[t]
      /\ \A u \in IoThread \ {t} : pc'[u] = pc[u]
      /\ pc' \in [IoThread -> Location]
  BY Moves DEF DoSyncAfter, Shapes, Location
<1>2. running[t] # << >> /\ Owner(t) \in Player /\ running[t][1] \in Job
  BY <1>1, OwnerType DEF TaskRuns, Inside, Shapes
<1>3. UNCHANGED <<now, LTickCount, running, mLock, mPlayerId, mHeartBeat, mIsAlive, mBuffList,
                  manager, executer, pool>>
  BY DEF DoSyncAfter, player
<1> DEFINE p == Owner(t)
           job == JobAfter(t, p, "OnTick", mHeartBeat[p])
<1>4. \/ UNCHANGED mTimerJobQueue /\ ~mIsAlive[p]
      \/ \E i \in Nat : i > 1 /\ Inserted(t, i, job)
  <2>1. CASE mHeartBeat[p] > 0
    <3>1. mHeartBeat[p] \in Nat
      <4>1. mHeartBeat[p] \in {-1, HeartBeat}
        BY <1>2 DEF Shapes, PlayerShapes
      <4> QED
        BY <2>1, <4>1, DelayAssumption
    <3>2. PICK i \in Nat :
            /\ Inserted(t, i, job)
            /\ i = 1 /\ mTimerJobQueue[t] # << >>
                 => LTickCount[t] + mHeartBeat[p] < mTimerJobQueue[t][1].tick
      BY <1>2, <2>1, <3>1, Pushed DEF DoSyncAfter, Shapes, Task
    <3>3. /\ mTimerJobQueue[t] # << >> /\ mTimerJobQueue[t] \in Seq(Job)
          /\ Head(mTimerJobQueue[t]) = running[t][1]
      BY <1>2 DEF TopIsRunning, Shapes, TimerShapes
    <3>4. mTimerJobQueue[t][1] = running[t][1]
      BY <3>3
    <3>5. mTimerJobQueue[t][1].tick <= LTickCount[t] /\ mTimerJobQueue[t][1].tick \in Nat
          /\ LTickCount[t] \in Nat
      BY <1>2, <3>4, BoundAssumption DEF TaskRuns, Shapes, TimerShapes, Job
    <3>6. i # 1
      BY <3>1, <3>2, <3>3, <3>5
    <3> QED
      BY <3>2, <3>6 DEF Inserted
  <2>2. CASE ~(mHeartBeat[p] > 0)
    <3>1. ~mIsAlive[p]
      BY <1>2, <2>2, DelayAssumption DEF NextTickWaits
    <3> QED
      BY <2>2, <3>1 DEF DoSyncAfter
  <2> QED
    BY <2>1, <2>2
<1>5. job.owner = p /\ job.task = "OnTick"
  BY DEF JobAfter
<1> HIDE DEF job
<1>6. mTimerJobQueue' \in [IoThread -> Seq(Job)]
  BY <1>4 DEF Inserted, Shapes, TimerShapes
<1>7. Shapes'
  BY <1>1, <1>3, <1>6 DEF Shapes, TimerShapes, PlayerShapes, EventShapes, manager, executer, pool
<1>8. TaskRuns' /\ ResetRuns'
  BY <1>1, <1>3 DEF TaskRuns, ResetRuns, pool, Inside
<1>9. TopIsRunning'
  <2>1. ASSUME UNCHANGED mTimerJobQueue PROVE TopIsRunning'
    BY <1>3, <2>1 DEF TopIsRunning, Owner
  <2> QED
    BY <1>3, <1>4, <2>1, PushedTop DEF Shapes
<1>10. Registration'
  BY <1>1, <1>3, StillRegistered DEF manager, pool
<1>11. NextTickWaits'
  <2>1. \A q \in Player : mIsAlive'[q] => mHeartBeat'[q] = HeartBeat
    BY <1>3 DEF NextTickWaits
  <2>2. ASSUME NEW u \in IoThread \ {t}, pc'[u] = "leave", mIsAlive'[Owner(u)']
        PROVE  \E i \in Nat : i > 1 /\ Waits(u, i, Owner(u))'
    <3>1. pc[u] = "leave" /\ Owner(u)' = Owner(u)
      BY <1>1, <1>3, <2>2 DEF Owner
    <3>2. mTimerJobQueue'[u] = mTimerJobQueue[u]
      BY <1>4 DEF Inserted
    <3> QED
      BY <1>3, <2>2, <3>1, <3>2 DEF NextTickWaits, Waits
  <2>3. ASSUME mIsAlive'[Owner(t)'] PROVE \E i \in Nat : i > 1 /\ Waits(t, i, Owner(t))'
    <3>1. mIsAlive[p] /\ Owner(t)' = p
      BY <1>3, <2>3 DEF Owner
    <3>2. PICK i \in Nat : i > 1 /\ Inserted(t, i, job)
      BY <1>4, <3>1
    <3>3. /\ i \in 1 .. Len(mTimerJobQueue[t]) + 1
          /\ i \in 1 .. Len(mTimerJobQueue'[t])
          /\ mTimerJobQueue'[t][i] = job
          /\ mTimerJobQueue'[t] \in Seq(Job)
      BY <3>2 DEF Inserted
    <3>4. i \in DOMAIN mTimerJobQueue'[t]
      BY <3>3
    <3>5. Waits(t, i, Owner(t))'
      BY <1>5, <3>1, <3>3, <3>4 DEF Waits
    <3> QED
      BY <3>2, <3>5
  <2> QED
    BY <2>1, <2>2, <2>3 DEF NextTickWaits
<1>12. AliveHasTick'
  <2>1. ASSUME UNCHANGED mTimerJobQueue PROVE AliveHasTick'
    BY <1>3, <2>1 DEF AliveHasTick
  <2> QED
    BY <1>3, <1>4, <2>1, PushedTicks DEF Shapes
<1>13. IdsAreFew'
  <2>1. \A u \in IoThread : pc[u] \in Past => pc'[u] \in Past
    BY <1>1 DEF Past, Inside
  <2>2. mCurrentIssueId' = mCurrentIssueId /\ accepted' = accepted
    BY <1>3 DEF manager, pool
  <2>3. ASSUME UNCHANGED mTimerJobQueue PROVE IdsAreFew'
    <3>1. Starts' \subseteq Starts
      BY <2>1, <2>3 DEF Starts, Past
    <3> QED
      BY <2>2, <3>1, FewerStarts DEF Shapes
  <2>4. ASSUME NEW i \in Nat, i > 1, Inserted(t, i, job) PROVE IdsAreFew'
    BY <1>5, <2>1, <2>2, <2>4, PushedNoStart DEF Shapes
  <2> QED
    BY <1>4, <2>3, <2>4
<1>14. Drains'
  BY <1>1, <1>3, StillDrains DEF executer
<1> QED
  BY <1>7, <1>8, <1>9, <1>10, <1>11, <1>12, <1>13, <1>14

\* A job is run under the lock of its player.
LEMMA EnterLockIInv == ASSUME IInv, NEW t \in IoThread, EnterLock(t) PROVE IInv'
<1> USE DEF IInv
<1> DEFINE q == mTimerJobQueue[t]
           top == Head(q)
<1>1. q \in Seq(Job) /\ q # << >> /\ top = q[1] /\ top \in Job /\ top.tick <= LTickCount[t]
  BY DEF EnterLock, Due, Shapes, TimerShapes
<1>2. top.owner \in Player /\ top.task \in Task /\ 1 \in DOMAIN q
  BY <1>1 DEF Job
<1>3. /\ Goto(t, "timer", top.task)
      /\ mLock[top.owner] = NoThread
      /\ mLock' = [mLock EXCEPT ![top.owner] = t]
      /\ running' = [running EXCEPT ![t] = <<top>>]
      /\ UNCHANGED <<now, LTickCount, mTimerJobQueue, mPlayerId, mHeartBeat, mIsAlive, mBuffList,
                     manager, executer, pool>>
  BY DEF EnterLock
<1> HIDE DEF top
<1>4. /\ pc[t] = "timer" /\ pc'[t] = top.task /\ ~draining[t]
      /\ \A u \in IoThread \ {t} : pc'[u] = pc[u]
      /\ pc' \in [IoThread -> Location]
  BY <1>2, <1>3, Moves DEF Shapes, Task, Location
<1>5. /\ mLock' \in [Player -> IoThread \cup {NoThread}]
      /\ mLock'[top.owner] = t
      /\ \A p \in Player \ {top.owner} : mLock'[p] = mLock[p]
  BY <1>2, <1>3 DEF Shapes, PlayerShapes
<1>6. /\ running' \in [IoThread -> Seq(Job)] /\ running'[t] = <<top>>
      /\ \A u \in IoThread : Len(running'[u]) <= 1
      /\ \A u \in IoThread \ {t} : running'[u] = running[u]
  BY <1>1, <1>3 DEF Shapes, TimerShapes
<1>7. Owner(t)' = top.owner /\ running'[t] # << >> /\ running'[t][1] = top
  BY <1>6 DEF Owner
<1>8. \A u \in IoThread \ {t} : Owner(u)' = Owner(u)
  BY <1>6 DEF Owner
<1>9. Shapes'
  BY <1>3, <1>4, <1>5, <1>6 DEF Shapes, TimerShapes, PlayerShapes, EventShapes, manager, executer,
                                pool
<1>10. TaskRuns'
  BY <1>1, <1>2, <1>3, <1>4, <1>6, <1>7 DEF TaskRuns, Inside, Task
<1>11. ResetRuns'
  <2>1. \A u \in IoThread : pc'[u] \in {"reset", "unregistered"} => u # t /\ pc'[u] = pc[u]
    BY <1>2, <1>4 DEF Task
  <2>2. \A u \in IoThread : pc[u] = "unregistered" => \A p \in returning[u] : mLock'[p] = u
    BY <1>3, <1>5, ThreadAssumption DEF ResetRuns, Shapes, PlayerShapes
  <2> QED
    BY <1>3, <2>1, <2>2 DEF ResetRuns, pool
<1>12. TopIsRunning'
  <2> SUFFICES ASSUME NEW u \in IoThread, running'[u] # << >>
               PROVE  /\ mTimerJobQueue[u] # << >> /\ Head(mTimerJobQueue[u]) = running'[u][1]
                      /\ mLock'[Owner(u)'] = u
    BY <1>3 DEF TopIsRunning
  <2>1. CASE u = t
    BY <1>1, <1>5, <1>7, <2>1 DEF top
  <2>2. CASE u # t
    <3>1. running[u] # << >> /\ running'[u] = running[u] /\ Owner(u)' = Owner(u)
      BY <1>6, <1>8, <2>2
    <3>2. mLock[Owner(u)] = u /\ Owner(u) \in Player
      BY <3>1, OwnerType DEF TopIsRunning, Shapes
    <3>3. Owner(u) # top.owner
      BY <1>3, <3>2, ThreadAssumption
    <3> QED
      BY <1>5, <3>1, <3>2, <3>3 DEF TopIsRunning
  <2> QED
    BY <2>1, <2>2
<1>13. Registration'
  <2>1. \A p \in Player : Registering(p) => Registering(p)'
    BY <1>3, <1>4, <1>8 DEF Registering, pool
  <2>2. \A p \in Player : Registered(p) => Registered(p)'
    BY <1>3 DEF Registered, manager
  <2>3. \A u \in IoThread : pc'[u] = "register" => u # t /\ pc[u] = "register"
    BY <1>2, <1>4 DEF Task
  <2> QED
    BY <1>3, <1>8, <2>1, <2>2, <2>3 DEF Registration
<1>14. NextTickWaits'
  <2>1. \A u \in IoThread : pc'[u] = "leave" => u # t /\ pc[u] = "leave"
    BY <1>2, <1>4 DEF Task
  <2> QED
    BY <1>3, <1>8, <2>1 DEF NextTickWaits, Waits
<1>15. AliveHasTick'
  BY <1>3, <1>6, <1>7 DEF AliveHasTick
<1>16. Starts' \subseteq Starts
  BY <1>3, <1>4 DEF Starts, Inside
<1>17. IdsAreFew'
  BY <1>3, <1>16, FewerStarts DEF manager, pool, Shapes
<1>18. Drains'
  BY <1>3, <1>4, StillDrains DEF executer
<1> QED
  BY <1>9, <1>10, <1>11, <1>12, <1>13, <1>14, <1>15, <1>17, <1>18

\* The job that ran is popped and no other.
LEMMA LeaveLockIInv == ASSUME IInv, NEW t \in IoThread, LeaveLock(t) PROVE IInv'
<1> USE DEF IInv
<1>1. /\ pc[t] = "leave" /\ pc'[t] = "timer" /\ ~draining[t]
      /\ \A u \in IoThread \ {t} : pc'[u] = pc[u]
      /\ pc' \in [IoThread -> Location]
  BY Moves DEF LeaveLock, Shapes, Location
<1>2. running[t] # << >>
  BY <1>1 DEF TaskRuns, Inside
<1> DEFINE q == mTimerJobQueue[t]
           p == Owner(t)
<1>3. p \in Player /\ running[t][1] \in Job
  BY <1>2, OwnerType DEF Shapes
<1>4. q \in Seq(Job) /\ q # << >> /\ Head(q) = running[t][1] /\ Head(q).owner = p /\ mLock[p] = t
  BY <1>2 DEF TopIsRunning, Shapes, TimerShapes, Owner
<1>5. /\ Len(q) \in Nat /\ Len(q) > 0 /\ q[1] = running[t][1] /\ DOMAIN q = 1 .. Len(q)
      /\ Tail(q) \in Seq(Job) /\ DOMAIN Tail(q) = 1 .. Len(q) - 1
      /\ \A j \in 1 .. Len(q) - 1 : Tail(q)[j] = q[j + 1]
  BY <1>4
<1>6. /\ mLock' = [mLock EXCEPT ![p] = NoThread]
      /\ mTimerJobQueue' = [mTimerJobQueue EXCEPT ![t] = Tail(q)]
      /\ running' = [running EXCEPT ![t] = << >>]
      /\ UNCHANGED <<now, LTickCount, mPlayerId, mHeartBeat, mIsAlive, mBuffList, manager, executer,
                     pool>>
  BY <1>4 DEF LeaveLock
<1> HIDE DEF p
<1>7. /\ mTimerJobQueue' \in [IoThread -> Seq(Job)] /\ mTimerJobQueue'[t] = Tail(q)
      /\ \A u \in IoThread \ {t} : mTimerJobQueue'[u] = mTimerJobQueue[u]
  BY <1>5, <1>6 DEF Shapes, TimerShapes
<1> HIDE DEF q
<1>8. /\ mLock' \in [Player -> IoThread \cup {NoThread}]
      /\ \A r \in Player \ {p} : mLock'[r] = mLock[r]
  BY <1>3, <1>6 DEF Shapes, PlayerShapes
<1>9. /\ running' \in [IoThread -> Seq(Job)] /\ running'[t] = << >>
      /\ \A u \in IoThread : Len(running'[u]) <= 1
      /\ \A u \in IoThread \ {t} : running'[u] = running[u] /\ Owner(u)' = Owner(u)
  BY <1>6 DEF Shapes, TimerShapes, Owner
<1>10. Shapes'
  BY <1>1, <1>6, <1>7, <1>8, <1>9 DEF Shapes, TimerShapes, PlayerShapes, EventShapes, manager,
                                     executer, pool
<1>11. TaskRuns'
  BY <1>1, <1>6, <1>9 DEF TaskRuns, Inside
<1>12. ResetRuns'
  <2>1. \A u \in IoThread : pc'[u] \in {"reset", "unregistered"} => u # t /\ pc'[u] = pc[u]
    BY <1>1
  <2>2. \A u \in IoThread \ {t} :
          pc[u] = "unregistered" => \A r \in returning[u] : r # p /\ mLock[r] = u
    BY <1>4 DEF ResetRuns, q
  <2>3. \A u \in IoThread : returning[u] \subseteq Player
    BY DEF Shapes, PlayerShapes
  <2> QED
    BY <1>6, <1>8, <2>1, <2>2, <2>3 DEF ResetRuns, pool
<1>13. TopIsRunning'
  <2> SUFFICES ASSUME NEW u \in IoThread \ {t}, running[u] # << >>
               PROVE  /\ mTimerJobQueue[u] # << >> /\ Head(mTimerJobQueue[u]) = running[u][1]
                      /\ mLock'[Owner(u)] = u
    BY <1>7, <1>9 DEF TopIsRunning
  <2>1. mLock[Owner(u)] = u /\ Owner(u) \in Player
    BY OwnerType DEF TopIsRunning, Shapes
  <2>2. Owner(u) # p
    BY <1>4, <2>1
  <2> QED
    BY <1>8, <2>1, <2>2 DEF TopIsRunning
<1>14. Registration'
  <2>1. \A r \in Player : Registering(r) => Registering(r)'
    BY <1>1, <1>6, <1>9 DEF Registering, pool
  <2>2. \A r \in Player : Registered(r) => Registered(r)'
    BY <1>6 DEF Registered, manager
  <2>3. \A u \in IoThread : pc'[u] = "register" => u # t /\ pc[u] = "register"
    BY <1>1
  <2> QED
    BY <1>6, <1>9, <2>1, <2>2, <2>3 DEF Registration
<1>15. NextTickWaits'
  <2>1. ASSUME NEW u \in IoThread, pc'[u] = "leave", mIsAlive'[Owner(u)']
        PROVE  \E i \in Nat : i > 1 /\ Waits(u, i, Owner(u))'
    <3>1. u # t /\ pc[u] = "leave"
      BY <1>1, <2>1
    <3>2. Owner(u)' = Owner(u) /\ mTimerJobQueue'[u] = mTimerJobQueue[u]
      BY <1>7, <1>9, <3>1
    <3> QED
      BY <1>6, <2>1, <3>1, <3>2 DEF NextTickWaits, Waits
  <2> QED
    BY <1>6, <2>1 DEF NextTickWaits
<1>16. \A i \in DOMAIN q : i > 1 => i - 1 \in DOMAIN Tail(q) /\ Tail(q)[i - 1] = q[i]
  <2> SUFFICES ASSUME NEW i \in 1 .. Len(q), i > 1
               PROVE  i - 1 \in 1 .. Len(q) - 1 /\ Tail(q)[i - 1] = q[i]
    BY <1>5
  <2>1. i - 1 \in 1 .. Len(q) - 1 /\ i - 1 + 1 = i
    BY <1>5
  <2> QED
    BY <1>5, <2>1
<1>17. AliveHasTick'
  <2> SUFFICES ASSUME NEW r \in Player, mIsAlive[r]
               PROVE  \E u \in IoThread : \E j \in DOMAIN mTimerJobQueue'[u] :
                        /\ mTimerJobQueue'[u][j].owner = r
                        /\ \/ mTimerJobQueue'[u][j].task = "OnTick"
                           \/ running'[u] # << >> /\ j = 1
    BY <1>6 DEF AliveHasTick
  <2>1. CASE r = p
    <3>1. PICK i \in Nat : i > 1 /\ Waits(t, i, p)
      BY <1>1, <2>1 DEF NextTickWaits, p
    <3>2. i \in DOMAIN q /\ q[i].owner = p /\ q[i].task = "OnTick"
      BY <3>1 DEF Waits, q
    <3>3. i - 1 \in DOMAIN Tail(q) /\ Tail(q)[i - 1] = q[i]
      BY <1>16, <3>1, <3>2
    <3>4. /\ i - 1 \in DOMAIN mTimerJobQueue'[t]
          /\ mTimerJobQueue'[t][i - 1].owner = r /\ mTimerJobQueue'[t][i - 1].task = "OnTick"
      BY <1>7, <2>1, <3>2, <3>3
    <3> QED
      BY <3>4
  <2>2. CASE r # p
    <3>1. PICK u \in IoThread : \E j \in DOMAIN mTimerJobQueue[u] :
            /\ mTimerJobQueue[u][j].owner = r
            /\ mTimerJobQueue[u][j].task = "OnTick" \/ (running[u] # << >> /\ j = 1)
      BY DEF AliveHasTick
    <3>2. CASE u # t
      BY <1>7, <1>9, <3>1, <3>2
    <3>3. CASE u = t
      <4>1. PICK j \in DOMAIN q : /\ q[j].owner = r
                                  /\ q[j].task = "OnTick" \/ j = 1
        BY <3>1, <3>3 DEF q
      <4>2. j \in 1 .. Len(q) /\ j # 1
        BY <1>4, <1>5, <2>2, <4>1 DEF q
      <4>3. j > 1
        BY <1>5, <4>2
      <4> QED
        BY <1>7, <1>16, <4>1, <4>2, <4>3
    <3> QED
      BY <3>2, <3>3
  <2> QED
    BY <2>1, <2>2
<1>18. IdsAreFew'
  <2> DEFINE f == [x \in Starts' \ {<<t, 0>>} |-> IF x[1] = t THEN <<t, x[2] + 1>> ELSE x]
  <2>1. ASSUME NEW x \in Starts' \ {<<t, 0>>} PROVE f[x] \in Starts
    <3>1. /\ x \in IoThread \X Nat /\ x = <<x[1], x[2]>> /\ x[1] \in IoThread /\ x[2] \in Nat
          /\ x[2] \in DOMAIN mTimerJobQueue'[x[1]]
          /\ mTimerJobQueue'[x[1]][x[2]].task = "Start"
          /\ x[2] = 1 => pc'[x[1]] \notin Past
      BY DEF Starts, Past
    <3>2. CASE x[1] = t
      <4>1. x[2] \in 1 .. Len(q) - 1
        BY <1>5, <1>7, <3>1, <3>2
      <4>2. x[2] + 1 \in DOMAIN q /\ q[x[2] + 1].task = "Start" /\ x[2] + 1 # 1 /\ x[2] + 1 \in Nat
        BY <1>5, <1>7, <3>1, <3>2, <4>1
      <4>3. <<t, x[2] + 1>> \in Starts
        BY <4>2 DEF Starts, q
      <4> QED
        BY <3>2, <4>3
    <3>3. CASE x[1] # t
      <4>1. x \in Starts
        BY <1>1, <1>7, <3>1, <3>3 DEF Starts, Past
      <4> QED
        BY <3>3, <4>1
    <3> QED
      BY <3>2, <3>3
  <2>2. ASSUME NEW x \in Starts' \ {<<t, 0>>}, NEW y \in Starts' \ {<<t, 0>>}, f[x] = f[y]
        PROVE  x = y
    <3>1. x = <<x[1], x[2]>> /\ x[2] \in Nat /\ y = <<y[1], y[2]>> /\ y[2] \in Nat
      BY DEF Starts
    <3>2. f[x] = <<x[1], IF x[1] = t THEN x[2] + 1 ELSE x[2]>>
          /\ f[y] = <<y[1], IF y[1] = t THEN y[2] + 1 ELSE y[2]>>
      BY <3>1
    <3>3. x[1] = y[1] /\ (IF x[1] = t THEN x[2] + 1 ELSE x[2]) = (IF y[1] = t THEN y[2] + 1 ELSE y[2])
      BY <2>2, <3>2
    <3>4. x[2] = y[2]
      BY <3>1, <3>3
    <3> QED
      BY <3>1, <3>3, <3>4
  <2>3. f \in [Starts' \ {<<t, 0>>} -> Starts]
    BY <2>1
  <2> HIDE DEF f
  <2>4. f \in Injection(Starts' \ {<<t, 0>>}, Starts)
    BY <2>2, <2>3 DEF Injection, IsInjective
  <2>5. <<t, 0>> \notin Starts'
    BY <1>7 DEF Starts
  <2>6. /\ IsFiniteSet(Starts') /\ Cardinality(Starts') \in Nat
        /\ Cardinality(Starts') <= Cardinality(Starts)
    BY <2>4, <2>5, OneMoreStart DEF Shapes
  <2>7. Cardinality(Starts) \in Nat
    BY FS_CardinalityType DEF IdsAreFew
  <2> QED
    BY <1>6, <2>6, <2>7 DEF IdsAreFew, Shapes, PlayerShapes, manager, pool
<1>19. Drains'
  BY <1>1, <1>6, StillDrains DEF executer
<1> QED
  BY <1>10, <1>11, <1>12, <1>13, <1>14, <1>15, <1>17, <1>18, <1>19

-----------------------------------------------------------------------------
(***************************************************************************)
(* The tasks.                                                              *)
(***************************************************************************)
\* A task goes on, and the jobs and tasks of all threads stay.
LEMMA TaskMoves ==
  ASSUME IInv, NEW t \in IoThread, pc[t] \in Inside, pc'[t] \in Inside,
         \A u \in IoThread \ {t} : pc'[u] = pc[u],
         pc[t] # "Start" => pc'[t] # "register", pc'[t] # "Start",
         UNCHANGED <<LTickCount, mTimerJobQueue, running, mLock, returning>>
  PROVE  /\ TaskRuns' /\ ResetRuns' /\ TopIsRunning'
         /\ \A u \in IoThread : Owner(u)' = Owner(u)
         /\ pc[t] # "register" \/ pc'[t] \in Past
         /\ Starts' \subseteq Starts
<1>1. TaskRuns'
  BY DEF IInv, TaskRuns, Inside
<1>2. ResetRuns'
  BY DEF IInv, ResetRuns, Inside
<1>3. TopIsRunning'
  BY DEF IInv, TopIsRunning, Owner
<1>4. \A u \in IoThread : Owner(u)' = Owner(u)
  BY DEF Owner
<1>5. Starts' \subseteq Starts
  BY DEF Starts, Inside
<1> QED
  BY <1>1, <1>2, <1>3, <1>4, <1>5 DEF Inside, Past

LEMMA StartIInv == ASSUME IInv, NEW t \in IoThread, Start(t) PROVE IInv'
<1> USE DEF IInv
<1>1. /\ pc[t] = "Start" /\ pc'[t] = "register" /\ ~draining[t]
      /\ \A u \in IoThread \ {t} : pc'[u] = pc[u]
      /\ pc' \in [IoThread -> Location]
  BY Moves DEF Start, Shapes, Location
<1>2. UNCHANGED <<now, timer, mLock, mPlayerId, mBuffList, manager, executer, pool>>
  BY DEF Start
<1>3. TaskRuns' /\ ResetRuns' /\ TopIsRunning' /\ Starts' \subseteq Starts
      /\ \A u \in IoThread : Owner(u)' = Owner(u)
  BY <1>1, <1>2, TaskMoves DEF Inside, timer, pool
<1>4. running[t] # << >> /\ Owner(t) \in Player
  BY <1>1, OwnerType DEF TaskRuns, Inside, Shapes
<1>owner. PICK p \in Player : p = Owner(t)
  BY <1>4
<1>5. mLock[p] = t
  BY <1>4, <1>owner DEF TopIsRunning
<1>6. mIsAlive' = [mIsAlive EXCEPT ![p] = TRUE] /\ mHeartBeat' = [mHeartBeat EXCEPT ![p] = HeartBeat]
  BY <1>owner DEF Start
<1>7. /\ mIsAlive' \in [Player -> BOOLEAN] /\ mIsAlive'[p] = TRUE
      /\ mHeartBeat' \in [Player -> {-1, HeartBeat}] /\ mHeartBeat'[p] = HeartBeat
      /\ \A q \in Player \ {p} : mIsAlive'[q] = mIsAlive[q] /\ mHeartBeat'[q] = mHeartBeat[q]
  BY <1>4, <1>6 DEF Shapes, PlayerShapes
<1>8. \A u \in IoThread \ {t} : running[u] # << >> => Owner(u) \in Player \ {p}
  BY <1>5, <1>owner, OwnerType DEF TopIsRunning, Shapes
<1>9. Shapes'
  BY <1>1, <1>2, <1>7 DEF Shapes, TimerShapes, PlayerShapes, EventShapes, timer, manager, executer,
                          pool
<1>10. Registration'
  <2>1. Registering(p)'
    BY <1>1, <1>3, <1>owner DEF Registering
  <2>2. ASSUME NEW q \in Player \ {p} PROVE Registering(q)' \/ Registered(q)'
    <3>1. CASE Registering(q)
      BY <1>1, <1>2, <1>3, <3>1 DEF Registering, pool
    <3>2. CASE Registered(q)
      BY <1>2, <1>7, <3>2 DEF Registered, manager
    <3> QED
      BY <3>1, <3>2 DEF Registration
  <2>3. ASSUME NEW u \in IoThread, pc'[u] = "register" PROVE mIsAlive'[Owner(u)']
    <3>1. CASE u = t
      BY <1>3, <1>7, <1>owner, <3>1
    <3>2. CASE u # t
      BY <1>1, <1>3, <1>7, <1>8, <2>3, <3>2 DEF Registration, TaskRuns, Inside
    <3> QED
      BY <3>1, <3>2
  <2> QED
    BY <2>1, <2>2, <2>3 DEF Registration
<1>11. NextTickWaits'
  <2>1. \A q \in Player : mIsAlive'[q] => mHeartBeat'[q] = HeartBeat
    BY <1>7 DEF NextTickWaits
  <2>2. ASSUME NEW u \in IoThread, pc'[u] = "leave", mIsAlive'[Owner(u)']
        PROVE  \E i \in Nat : i > 1 /\ Waits(u, i, Owner(u))'
    <3>1. u # t /\ pc[u] = "leave" /\ running[u] # << >>
      BY <1>1, <2>2 DEF TaskRuns, Inside
    <3>2. mIsAlive[Owner(u)] /\ Owner(u)' = Owner(u)
      BY <1>3, <1>7, <1>8, <2>2, <3>1
    <3> QED
      BY <1>2, <3>1, <3>2 DEF NextTickWaits, Waits, timer
  <2> QED
    BY <2>1, <2>2 DEF NextTickWaits
<1>12. AliveHasTick'
  <2>1. ASSUME NEW q \in Player \ {p}, mIsAlive'[q]
        PROVE  \E u \in IoThread : \E i \in DOMAIN mTimerJobQueue'[u] :
                 /\ mTimerJobQueue'[u][i].owner = q
                 /\ mTimerJobQueue'[u][i].task = "OnTick" \/ (running'[u] # << >> /\ i = 1)
    BY <1>2, <1>7, <2>1 DEF AliveHasTick, timer
  <2>2. 1 \in DOMAIN mTimerJobQueue[t] /\ mTimerJobQueue[t][1].owner = p
    <3>1. mTimerJobQueue[t] \in Seq(Job) /\ mTimerJobQueue[t] # << >>
          /\ Head(mTimerJobQueue[t]) = running[t][1]
      BY <1>4 DEF TopIsRunning, Shapes, TimerShapes
    <3>2. 1 \in DOMAIN mTimerJobQueue[t] /\ mTimerJobQueue[t][1] = running[t][1]
      BY <3>1
    <3> QED
      BY <1>owner, <3>2 DEF Owner
  <2> QED
    BY <1>2, <1>4, <2>1, <2>2 DEF AliveHasTick, timer
<1>13. IdsAreFew'
  BY <1>2, <1>3, FewerStarts DEF manager, pool, Shapes
<1>14. Drains'
  BY <1>1, <1>2, StillDrains DEF executer
<1> QED
  BY <1>3, <1>9, <1>10, <1>11, <1>12, <1>13, <1>14

\* The id is new, and the start that has it now needs no other.
LEMMA RegisterIInv == ASSUME IInv, NEW t \in IoThread, RegisterPlayer(t) PROVE IInv'
<1> USE DEF IInv
<1>1. /\ pc[t] = "register" /\ pc'[t] = "OnTick" /\ ~draining[t]
      /\ \A u \in IoThread \ {t} : pc'[u] = pc[u]
      /\ pc' \in [IoThread -> Location]
  BY Moves DEF RegisterPlayer, Shapes, Location
<1>2. UNCHANGED <<now, timer, mLock, mHeartBeat, mIsAlive, mBuffList, executer, pool>>
  BY DEF RegisterPlayer
<1>3. TaskRuns' /\ ResetRuns' /\ TopIsRunning' /\ Starts' \subseteq Starts
      /\ \A u \in IoThread : Owner(u)' = Owner(u)
  BY <1>1, <1>2, TaskMoves DEF Inside, timer, pool
<1>4. running[t] # << >> /\ Owner(t) \in Player
  BY <1>1, OwnerType DEF TaskRuns, Inside, Shapes
<1>owner. PICK p \in Player : p = Owner(t)
  BY <1>4
<1>id. PICK id \in Nat : id = mCurrentIssueId + 1
  BY DEF Shapes, PlayerShapes
<1>5. /\ mCurrentIssueId' = id
      /\ mPlayerMap' = Put(mPlayerMap, id, p)
      /\ mPlayerId' = [mPlayerId EXCEPT ![p] = id]
  BY <1>owner, <1>id DEF RegisterPlayer
<1>6. id \notin DOMAIN mPlayerMap
  BY <1>id DEF Shapes, PlayerShapes
<1>7. DOMAIN mPlayerMap \cup {id} \subseteq 1 .. id
  BY <1>id DEF Shapes, PlayerShapes
<1>8. /\ DOMAIN mPlayerMap' = DOMAIN mPlayerMap \cup {id}
      /\ mPlayerMap' \in [DOMAIN mPlayerMap' -> Player]
      /\ mPlayerMap'[id] = p
      /\ \A i \in DOMAIN mPlayerMap : mPlayerMap'[i] = mPlayerMap[i]
  BY <1>4, <1>5, <1>6 DEF Put, Shapes, PlayerShapes
<1>9. /\ mPlayerId' \in [Player -> {-1} \cup 1 .. id] /\ mPlayerId'[p] = id
      /\ \A q \in Player \ {p} : mPlayerId'[q] = mPlayerId[q]
  BY <1>4, <1>5, <1>id DEF Shapes, PlayerShapes
<1>10. Shapes'
  BY <1>1, <1>2, <1>4, <1>5, <1>7, <1>8, <1>9 DEF Shapes, TimerShapes, PlayerShapes, EventShapes,
                                                  timer, executer, pool
<1>11. Registration'
  <2>1. Registered(p)'
    <3>1. mIsAlive'[p]
      BY <1>1, <1>2, <1>owner DEF Registration
    <3> QED
      BY <1>8, <1>9, <3>1 DEF Registered
  <2>2. ASSUME NEW q \in Player \ {p} PROVE Registering(q)' \/ Registered(q)'
    <3>1. CASE Registering(q)
      BY <1>1, <1>2, <1>3, <1>owner, <3>1 DEF Registering, pool
    <3>2. CASE Registered(q)
      BY <1>2, <1>8, <1>9, <3>2 DEF Registered
    <3> QED
      BY <3>1, <3>2 DEF Registration
  <2>3. \A u \in IoThread : pc'[u] = "register" => u # t /\ pc[u] = "register"
    BY <1>1
  <2> QED
    BY <1>2, <1>3, <2>1, <2>2, <2>3 DEF Registration
<1>12. NextTickWaits' /\ AliveHasTick'
  BY <1>1, <1>2, <1>3 DEF NextTickWaits, Waits, AliveHasTick, timer
<1>13. IdsAreFew'
  <2>1. <<t, 1>> \in Starts
    <3>1. mTimerJobQueue[t] \in Seq(Job) /\ mTimerJobQueue[t] # << >>
          /\ Head(mTimerJobQueue[t]) = running[t][1]
      BY <1>4 DEF TopIsRunning, Shapes, TimerShapes
    <3>2. 1 \in DOMAIN mTimerJobQueue[t] /\ mTimerJobQueue[t][1] = running[t][1]
      BY <3>1
    <3> QED
      BY <1>1, <3>2 DEF Starts, TaskRuns
  <2>2. <<t, 1>> \notin Starts'
    BY <1>1 DEF Starts, Inside
  <2>3. Starts' \subseteq Starts \ {<<t, 1>>}
    BY <1>3, <2>2
  <2>4. /\ IsFiniteSet(Starts \ {<<t, 1>>})
        /\ Cardinality(Starts \ {<<t, 1>>}) = Cardinality(Starts) - 1
    BY <2>1, FS_RemoveElement DEF IdsAreFew
  <2>5. IsFiniteSet(Starts') /\ Cardinality(Starts') <= Cardinality(Starts) - 1
    BY <2>3, <2>4, FS_Subset
  <2>6. Cardinality(Starts) \in Nat /\ Cardinality(Starts') \in Nat
    BY <2>5, FS_CardinalityType DEF IdsAreFew
  <2>7. mCurrentIssueId' = mCurrentIssueId + 1 /\ accepted' = accepted
    BY <1>2, <1>5, <1>id DEF pool
  <2> QED
    BY <2>5, <2>6, <2>7, BoundAssumption DEF IdsAreFew, Shapes, PlayerShapes
<1>14. Drains'
  BY <1>1, <1>2, StillDrains DEF executer
<1> QED
  BY <1>3, <1>10, <1>11, <1>12, <1>13, <1>14

\* The first to dispatch drains; the others leave their event to it.
LEMMA DispatchDrains ==
  ASSUME Drains, EventShapes, NEW t \in IoThread, NEW e \in Event, DoDispatch(t, e), ~draining[t],
         pc'[t] \in {"decay", "again"}, \A u \in IoThread \ {t} : pc'[u] = pc[u]
  PROVE  /\ Drains'
         /\ mRemainTaskCount' \in Int
         /\ mCentralTaskQueue' \in Seq(Event)
         /\ draining' \in [IoThread -> BOOLEAN]
         /\ UNCHANGED <<event, currentPlayers>>
<1>1. /\ mRemainTaskCount' = mRemainTaskCount + 1
      /\ mCentralTaskQueue' = Append(mCentralTaskQueue, e)
      /\ draining' = [draining EXCEPT ![t] = (mRemainTaskCount' = 1)]
      /\ UNCHANGED <<event, currentPlayers>>
  BY DEF DoDispatch
<1>2. /\ mRemainTaskCount \in Int /\ mCentralTaskQueue \in Seq(Event)
      /\ draining \in [IoThread -> BOOLEAN]
  BY DEF EventShapes
<1>3. /\ mCentralTaskQueue' \in Seq(Event) /\ Len(mCentralTaskQueue') = Len(mCentralTaskQueue) + 1
      /\ Len(mCentralTaskQueue) \in Nat
  BY <1>1, <1>2
<1>4. /\ draining' \in [IoThread -> BOOLEAN] /\ (draining'[t] <=> mRemainTaskCount' = 1)
      /\ \A u \in IoThread \ {t} : draining'[u] = draining[u]
  BY <1>1, <1>2
<1>5. mRemainTaskCount >= 0
  BY <1>3 DEF Drains
<1>6. \A u \in IoThread : draining'[u] => pc'[u] \in {"decay", "again"} /\ mRemainTaskCount' > 0
  BY <1>1, <1>2, <1>4, <1>5 DEF Drains
<1>7. \A u, v \in IoThread : draining'[u] /\ draining'[v] => u = v
  <2>1. draining'[t] => \A u \in IoThread : ~draining[u]
    BY <1>1, <1>2, <1>4 DEF Drains
  <2> QED
    BY <1>4, <2>1 DEF Drains
<1>8. \A u \in IoThread : event'[u] # NoEvent => draining'[u]
  BY <1>1, <1>4 DEF Drains
<1>9. mRemainTaskCount' = Len(mCentralTaskQueue') + (IF Executing' THEN 1 ELSE 0)
  <2>1. Executing' <=> Executing
    BY <1>1 DEF Executing
  <2>2. mRemainTaskCount = Len(mCentralTaskQueue) + (IF Executing THEN 1 ELSE 0)
    BY DEF Drains
  <2> QED
    BY <1>1, <1>2, <1>3, <2>1, <2>2
<1>10. Drains'
  BY <1>6, <1>7, <1>8, <1>9 DEF Drains
<1> QED
  BY <1>1, <1>2, <1>3, <1>4, <1>10

\* A step of a task that keeps the jobs, the players and the map.
LEMMA TaskKeeps ==
  ASSUME IInv, NEW t \in IoThread, pc[t] \in {"OnTick", "decay"},
         pc'[t] \in {"decay", "again", "leave"}, \A u \in IoThread \ {t} : pc'[u] = pc[u],
         pc'[t] = "leave" => ~mIsAlive[Owner(t)],
         UNCHANGED <<now, timer, player, mBuffList, manager, pool>>
  PROVE  /\ TaskRuns' /\ ResetRuns' /\ TopIsRunning' /\ Registration' /\ NextTickWaits'
         /\ AliveHasTick' /\ IdsAreFew' /\ PlayerShapes'
<1> USE DEF IInv
<1>1. TaskRuns' /\ ResetRuns' /\ TopIsRunning' /\ Starts' \subseteq Starts
      /\ \A u \in IoThread : Owner(u)' = Owner(u)
  BY TaskMoves DEF Inside, timer, player, pool
<1>2. Registration'
  BY StillRegistered DEF timer, player, manager, pool
<1>3. NextTickWaits'
  BY <1>1 DEF NextTickWaits, Waits, timer, player
<1>4. AliveHasTick'
  BY DEF AliveHasTick, timer, player
<1>5. IdsAreFew'
  BY <1>1, FewerStarts DEF manager, pool, Shapes
<1>6. PlayerShapes'
  BY DEF Shapes, PlayerShapes, player, manager, pool
<1> QED
  BY <1>1, <1>2, <1>3, <1>4, <1>5, <1>6

LEMMA OnTickIInv == ASSUME IInv, NEW t \in IoThread, OnTick(t) PROVE IInv'
<1> USE DEF IInv
<1>1. /\ pc[t] = "OnTick" /\ pc'[t] \in {"decay", "leave"} /\ ~draining[t]
      /\ \A u \in IoThread \ {t} : pc'[u] = pc[u]
      /\ pc' \in [IoThread -> Location]
      /\ pc'[t] = "leave" => ~mIsAlive[Owner(t)]
  BY Moves DEF OnTick, Shapes, Location
<1>2. UNCHANGED <<now, timer, player, mBuffList, manager, pool>>
  BY DEF OnTick
<1>3. /\ TaskRuns' /\ ResetRuns' /\ TopIsRunning' /\ Registration' /\ NextTickWaits'
      /\ AliveHasTick' /\ IdsAreFew' /\ PlayerShapes'
  BY <1>1, <1>2, TaskKeeps
<1>4. TimerShapes'
  BY <1>1, <1>2 DEF Shapes, TimerShapes, timer
<1>5. Drains' /\ EventShapes'
  <2>1. CASE UNCHANGED executer
    BY <1>1, <1>2, <2>1, StillDrains DEF executer, Shapes, EventShapes
  <2>2. CASE mIsAlive[Owner(t)] /\ pc'[t] = "decay"
             /\ \E e \in BuffEvent(mPlayerId[Owner(t)]) : DoDispatch(t, e)
    <3>1. PICK e \in BuffEvent(mPlayerId[Owner(t)]) : DoDispatch(t, e)
      BY <2>2
    <3>2. running[t] # << >> /\ Owner(t) \in Player
      BY <1>1, OwnerType DEF TaskRuns, Inside, Shapes
    <3>3. mLock[Owner(t)] = t
      BY <3>2 DEF TopIsRunning
    <3>4. ~Registering(Owner(t))
      BY <1>1, <3>3 DEF Registering, ResetRuns, TopIsRunning, TaskRuns, Inside
    <3>5. mPlayerId[Owner(t)] \in 1 .. mCurrentIssueId
      BY <2>2, <3>2, <3>4 DEF Registration, Registered, Shapes, PlayerShapes
    <3>6. mCurrentIssueId <= MaxAccept
      <4>1. Cardinality(Starts) \in Nat
        BY FS_CardinalityType DEF IdsAreFew
      <4> QED
        BY <4>1, BoundAssumption DEF IdsAreFew, Shapes, PlayerShapes
    <3>7. e \in Event
      <4>1. mPlayerId[Owner(t)] \in 1 .. MaxAccept
        BY <3>5, <3>6, BoundAssumption DEF Shapes, PlayerShapes
      <4> QED
        BY <3>1, <4>1 DEF Event
    <3> QED
      BY <1>1, <1>2, <2>2, <3>1, <3>7, DispatchDrains DEF Shapes, EventShapes
  <2> QED
    BY <1>1, <2>1, <2>2 DEF OnTick, Goto, Shapes, TimerShapes
<1> QED
  BY <1>3, <1>4, <1>5 DEF Shapes

LEMMA DispatchDecayIInv == ASSUME IInv, NEW t \in IoThread, DispatchDecay(t) PROVE IInv'
<1> USE DEF IInv
<1>1. /\ pc[t] = "decay" /\ pc'[t] = "again" /\ ~draining[t]
      /\ \A u \in IoThread \ {t} : pc'[u] = pc[u]
      /\ pc' \in [IoThread -> Location]
  BY Moves DEF DispatchDecay, Shapes, Location
<1>2. UNCHANGED <<now, timer, player, mBuffList, manager, pool>>
  BY DEF DispatchDecay
<1>3. /\ TaskRuns' /\ ResetRuns' /\ TopIsRunning' /\ Registration' /\ NextTickWaits'
      /\ AliveHasTick' /\ IdsAreFew' /\ PlayerShapes'
  BY <1>1, <1>2, TaskKeeps
<1>4. TimerShapes'
  BY <1>1, <1>2 DEF Shapes, TimerShapes, timer
<1>5. Drains' /\ EventShapes'
  BY <1>1, <1>2, DispatchDrains DEF DispatchDecay, Event, Shapes, EventShapes
<1> QED
  BY <1>3, <1>4, <1>5 DEF Shapes

-----------------------------------------------------------------------------
(***************************************************************************)
(* The events.                                                             *)
(***************************************************************************)
\* A step of the drain keeps the jobs, the players and the map.
LEMMA DrainKeeps ==
  ASSUME IInv, UNCHANGED <<now, pc, timer, player, manager, pool>>
  PROVE  /\ TaskRuns' /\ ResetRuns' /\ TopIsRunning' /\ Registration' /\ NextTickWaits'
         /\ AliveHasTick' /\ IdsAreFew' /\ PlayerShapes' /\ TimerShapes'
<1> USE DEF IInv
<1>1. TaskRuns' /\ ResetRuns' /\ TopIsRunning'
  BY DEF TaskRuns, ResetRuns, TopIsRunning, Owner, timer, player, pool
<1>2. Registration'
  BY StillRegistered DEF timer, player, manager, pool
<1>3. NextTickWaits' /\ AliveHasTick'
  BY DEF NextTickWaits, Waits, AliveHasTick, Owner, timer, player
<1>4. Starts' \subseteq Starts
  BY DEF Starts, timer
<1>5. IdsAreFew'
  BY <1>4, FewerStarts DEF manager, pool, Shapes
<1>6. PlayerShapes' /\ TimerShapes'
  BY DEF Shapes, PlayerShapes, TimerShapes, timer, player, manager, pool
<1> QED
  BY <1>1, <1>2, <1>3, <1>5, <1>6

LEMMA GetPlayersIInv == ASSUME IInv, NEW t \in IoThread, GetCurrentPlayers(t) PROVE IInv'
<1> USE DEF IInv
<1>1. /\ TaskRuns' /\ ResetRuns' /\ TopIsRunning' /\ Registration' /\ NextTickWaits'
      /\ AliveHasTick' /\ IdsAreFew' /\ PlayerShapes' /\ TimerShapes'
  BY DrainKeeps DEF GetCurrentPlayers
<1>2. /\ draining[t] /\ event[t] = NoEvent /\ mCentralTaskQueue # << >>
      /\ mCentralTaskQueue \in Seq(Event)
  BY DEF GetCurrentPlayers, Shapes, EventShapes
<1>3. /\ Head(mCentralTaskQueue) \in Event /\ Tail(mCentralTaskQueue) \in Seq(Event)
      /\ Len(Tail(mCentralTaskQueue)) = Len(mCentralTaskQueue) - 1
      /\ Len(mCentralTaskQueue) \in Nat
  BY <1>2
<1>4. Head(mCentralTaskQueue) # NoEvent
  BY <1>3 DEF Event, NoEvent, AllPlayerBuffDecay, BuffEvent
<1>5. /\ event' = [event EXCEPT ![t] = Head(mCentralTaskQueue)]
      /\ mCentralTaskQueue' = Tail(mCentralTaskQueue)
      /\ UNCHANGED <<pc, mBuffList, mRemainTaskCount, draining>>
  BY DEF GetCurrentPlayers
<1>6. /\ event' \in [IoThread -> Event \cup {NoEvent}] /\ event'[t] # NoEvent
      /\ \A u \in IoThread \ {t} : event'[u] = event[u]
  BY <1>3, <1>4, <1>5 DEF Shapes, EventShapes
<1>7. currentPlayers' \in [IoThread -> Seq(Player)]
  <2>1. PICK ids \in [1 .. Cardinality(DOMAIN mPlayerMap) -> DOMAIN mPlayerMap] :
          currentPlayers' = [currentPlayers EXCEPT ![t] = [i \in DOMAIN ids |-> mPlayerMap[ids[i]]]]
    BY DEF GetCurrentPlayers
  <2>2. IsFiniteSet(1 .. mCurrentIssueId) /\ DOMAIN mPlayerMap \in SUBSET (1 .. mCurrentIssueId)
    <3>1. 1 \in Int /\ mCurrentIssueId \in Int
      BY DEF Shapes, PlayerShapes
    <3> QED
      BY <3>1, FS_Interval DEF Shapes, PlayerShapes
  <2>3. Cardinality(DOMAIN mPlayerMap) \in Nat
    BY <2>2, FS_Subset, FS_CardinalityType
  <2>4. \A i \in DOMAIN ids : mPlayerMap[ids[i]] \in Player
    BY DEF Shapes, PlayerShapes
  <2>5. [i \in DOMAIN ids |-> mPlayerMap[ids[i]]] \in Seq(Player)
    BY <2>3, <2>4
  <2> QED
    BY <2>1, <2>5 DEF Shapes, EventShapes
<1>8. EventShapes'
  BY <1>3, <1>5, <1>6, <1>7 DEF Shapes, EventShapes
<1>9. ~Executing
  BY <1>2 DEF Drains, Executing
<1>10. Executing'
  BY <1>6 DEF Executing
<1>11. Drains'
  BY <1>2, <1>3, <1>5, <1>6, <1>9, <1>10 DEF Drains
<1> QED
  BY <1>1, <1>8, <1>11 DEF Shapes

\* An event reaches one player more.
LEMMA ReachKeeps ==
  ASSUME IInv, NEW t \in IoThread, Reach(t)
  PROVE  /\ TaskRuns' /\ ResetRuns' /\ TopIsRunning' /\ Registration' /\ NextTickWaits'
         /\ AliveHasTick' /\ IdsAreFew' /\ Drains' /\ PlayerShapes' /\ TimerShapes'
         /\ currentPlayers' \in [IoThread -> Seq(Player)]
         /\ Head(currentPlayers[t]) \in Player
         /\ UNCHANGED <<mRemainTaskCount, mCentralTaskQueue, draining, event>>
<1>1. UNCHANGED <<now, pc, timer, player, manager, mRemainTaskCount, mCentralTaskQueue, draining,
                  event, pool>>
  BY DEF Reach
<1>2. Drains'
  BY <1>1 DEF IInv, Drains, Executing
<1>3. currentPlayers[t] \in Seq(Player) /\ currentPlayers[t] # << >>
  BY DEF Reach, IInv, Shapes, EventShapes
<1>4. Tail(currentPlayers[t]) \in Seq(Player) /\ Head(currentPlayers[t]) \in Player
  BY <1>3
<1>5. currentPlayers' \in [IoThread -> Seq(Player)]
  BY <1>4 DEF Reach, IInv, Shapes, EventShapes
<1> QED
  BY <1>1, <1>2, <1>4, <1>5, DrainKeeps

LEMMA AddBuffIInv == ASSUME IInv, NEW t \in IoThread, AddBuff(t) PROVE IInv'
<1>1. /\ TaskRuns' /\ ResetRuns' /\ TopIsRunning' /\ Registration' /\ NextTickWaits'
      /\ AliveHasTick' /\ IdsAreFew' /\ Drains' /\ PlayerShapes' /\ TimerShapes'
      /\ currentPlayers' \in [IoThread -> Seq(Player)]
      /\ Head(currentPlayers[t]) \in Player
      /\ UNCHANGED <<mRemainTaskCount, mCentralTaskQueue, draining, event>>
  BY ReachKeeps DEF AddBuff
<1>2. event[t].buff \in 1 .. MaxAccept
  <2>1. event[t] \in Event \cup {NoEvent} /\ event[t].buff > 0
    BY DEF AddBuff, IInv, Shapes, EventShapes
  <2>2. event[t] # NoEvent /\ event[t] # AllPlayerBuffDecay
    BY <2>1 DEF NoEvent, AllPlayerBuffDecay
  <2> QED
    BY <2>1, <2>2 DEF Event, BuffEvent
<1> DEFINE p == Head(currentPlayers[t])
           id == event[t].buff
           buffs == IF id \in DOMAIN mBuffList[p] THEN mBuffList[p]
                    ELSE Put(mBuffList[p], id, event[t].duration)
<1>3. mBuffList' = [mBuffList EXCEPT ![p] = buffs]
  BY DEF AddBuff
<1>4. DOMAIN buffs \subseteq DOMAIN mBuffList[p] \cup {id}
  BY DEF Put
<1> HIDE DEF buffs
<1>5. EventShapes'
  BY <1>1, <1>2, <1>3, <1>4 DEF IInv, Shapes, EventShapes
<1> QED
  BY <1>1, <1>5 DEF IInv, Shapes

LEMMA DecayTickBuffIInv == ASSUME IInv, NEW t \in IoThread, DecayTickBuff(t) PROVE IInv'
<1>1. /\ TaskRuns' /\ ResetRuns' /\ TopIsRunning' /\ Registration' /\ NextTickWaits'
      /\ AliveHasTick' /\ IdsAreFew' /\ Drains' /\ PlayerShapes' /\ TimerShapes'
      /\ currentPlayers' \in [IoThread -> Seq(Player)]
      /\ Head(currentPlayers[t]) \in Player
      /\ UNCHANGED <<mRemainTaskCount, mCentralTaskQueue, draining, event>>
  BY ReachKeeps DEF DecayTickBuff
<1> DEFINE p == Head(currentPlayers[t])
           old == mBuffList[p]
           buffs == [id \in {id \in DOMAIN old : old[id] > mHeartBeat[p]} |-> old[id] - mHeartBeat[p]]
<1>2. mBuffList' = [mBuffList EXCEPT ![p] = buffs]
  BY DEF DecayTickBuff
<1>3. DOMAIN buffs \subseteq DOMAIN mBuffList[p]
  OBVIOUS
<1> HIDE DEF buffs
<1>4. EventShapes'
  BY <1>1, <1>2, <1>3 DEF IInv, Shapes, EventShapes
<1> QED
  BY <1>1, <1>4 DEF IInv, Shapes

LEMMA EndTaskIInv == ASSUME IInv, NEW t \in IoThread, EndTask(t) PROVE IInv'
<1> USE DEF IInv
<1>1. /\ TaskRuns' /\ ResetRuns' /\ TopIsRunning' /\ Registration' /\ NextTickWaits'
      /\ AliveHasTick' /\ IdsAreFew' /\ PlayerShapes' /\ TimerShapes'
  BY DrainKeeps DEF EndTask
<1>2. /\ event[t] # NoEvent
      /\ event' = [event EXCEPT ![t] = NoEvent]
      /\ mRemainTaskCount' = mRemainTaskCount - 1
      /\ draining' = [draining EXCEPT ![t] = (mRemainTaskCount' # 0)]
      /\ UNCHANGED <<pc, mBuffList, mCentralTaskQueue, currentPlayers>>
  BY DEF EndTask
<1>3. /\ event' \in [IoThread -> Event \cup {NoEvent}] /\ event'[t] = NoEvent
      /\ \A u \in IoThread \ {t} : event'[u] = event[u]
      /\ draining' \in [IoThread -> BOOLEAN] /\ (draining'[t] <=> mRemainTaskCount' # 0)
      /\ \A u \in IoThread \ {t} : draining'[u] = draining[u]
      /\ mRemainTaskCount \in Int /\ mCentralTaskQueue \in Seq(Event)
      /\ Len(mCentralTaskQueue) \in Nat
  <2>1. /\ event \in [IoThread -> Event \cup {NoEvent}] /\ draining \in [IoThread -> BOOLEAN]
        /\ mRemainTaskCount \in Int /\ mCentralTaskQueue \in Seq(Event)
    BY DEF Shapes, EventShapes
  <2>2. /\ event' \in [IoThread -> Event \cup {NoEvent}] /\ event'[t] = NoEvent
        /\ \A u \in IoThread \ {t} : event'[u] = event[u]
    BY <1>2, <2>1
  <2>3. /\ draining' \in [IoThread -> BOOLEAN] /\ (draining'[t] <=> mRemainTaskCount' # 0)
        /\ \A u \in IoThread \ {t} : draining'[u] = draining[u]
    BY <1>2, <2>1
  <2> QED
    BY <2>1, <2>2, <2>3
<1>4. EventShapes'
  BY <1>2, <1>3 DEF Shapes, EventShapes
<1>5. draining[t] /\ \A u \in IoThread \ {t} : ~draining[u] /\ event[u] = NoEvent
  BY <1>2 DEF Drains
<1>6. Executing /\ ~Executing'
  BY <1>2, <1>3, <1>5 DEF Executing
<1>7. mRemainTaskCount' = Len(mCentralTaskQueue')
  BY <1>2, <1>3, <1>6 DEF Drains
<1>8. \A u \in IoThread : draining'[u] => pc'[u] \in {"decay", "again"} /\ mRemainTaskCount' > 0
  BY <1>2, <1>3, <1>5, <1>7 DEF Drains
<1>9. Drains'
  BY <1>3, <1>5, <1>6, <1>7, <1>8 DEF Drains
<1> QED
  BY <1>1, <1>4, <1>9 DEF Shapes

-----------------------------------------------------------------------------
(***************************************************************************)
(* The theorems.                                                           *)
(***************************************************************************)
\* Nothing has happened yet.
LEMMA InitIInv == Init => IInv
<1> SUFFICES ASSUME Init PROVE IInv
  OBVIOUS
<1>1. Shapes
  BY BoundAssumption DEF Init, Shapes, TimerShapes, PlayerShapes, EventShapes, Location
<1>2. TaskRuns /\ ResetRuns /\ TopIsRunning
  BY DEF Init, TaskRuns, ResetRuns, TopIsRunning, Inside
<1>3. Registration /\ NextTickWaits /\ AliveHasTick
  BY DEF Init, Registration, Registering, Registered, NextTickWaits, AliveHasTick
<1>4. IdsAreFew
  <2>1. Starts = {}
    BY DEF Init, Starts
  <2> QED
    BY <2>1, FS_EmptySet DEF Init, IdsAreFew
<1>5. Drains
  BY DEF Init, Drains, Executing
<1> QED
  BY <1>1, <1>2, <1>3, <1>4, <1>5 DEF IInv

\* Every step of the server keeps the invariant.
LEMMA NextIInv == IInv /\ [Next]_vars => IInv'
<1> SUFFICES ASSUME IInv, [Next]_vars PROVE IInv'
  OBVIOUS
<1>1. CASE UNCHANGED vars
  <2>1. UNCHANGED <<now, pc, timer, player, manager, pool>> /\ UNCHANGED <<mBuffList, executer>>
    BY <1>1 DEF vars
  <2>2. /\ TaskRuns' /\ ResetRuns' /\ TopIsRunning' /\ Registration' /\ NextTickWaits'
        /\ AliveHasTick' /\ IdsAreFew' /\ PlayerShapes' /\ TimerShapes'
    BY <2>1, DrainKeeps
  <2>3. EventShapes' /\ Drains'
    BY <2>1 DEF IInv, Shapes, EventShapes, Drains, Executing, executer
  <2> QED
    BY <2>2, <2>3 DEF IInv, Shapes
<1>2. CASE Tick
  BY <1>2, TickIInv
<1>3. ASSUME NEW t \in IoThread, Proceed(t) PROVE IInv'
  BY <1>3, UnregisterIInv, ResetIInv, NothingDueIInv, EnterLockIInv, LeaveLockIInv, StartIInv,
     RegisterIInv, OnTickIInv, DispatchDecayIInv, DoSyncAfterIInv, GetPlayersIInv, AddBuffIInv,
     DecayTickBuffIInv, EndTaskIInv DEF Proceed
<1>4. ASSUME NEW t \in IoThread, WakeUp(t) PROVE IInv'
  BY <1>4, WakeUpIInv
<1>5. ASSUME NEW t \in IoThread, NEW p \in Player, AcceptCompletion(t, p) \/ ReturnClientSession(t, p)
      PROVE  IInv'
  BY <1>5, AcceptIInv, ReturnIInv
<1> QED
  BY <1>1, <1>2, <1>3, <1>4, <1>5 DEF Next

\* The inductive invariant.
THEOREM Invariant == Spec => []IInv
BY InitIInv, NextIInv, PTL DEF Spec

\* Every variable is what the server declares it to be; in particular no player ever gets
\* an id beyond the number of accepts, and no event is for a player without an id.
LEMMA TypesFollow == IInv => TypeOK
<1> SUFFICES ASSUME IInv PROVE TypeOK
  OBVIOUS
<1> USE DEF IInv, Shapes
<1>1. mCurrentIssueId \in 0 .. MaxAccept
  <2>1. Cardinality(Starts) \in Nat
    BY FS_CardinalityType DEF IdsAreFew
  <2> QED
    BY <2>1, BoundAssumption DEF IdsAreFew, PlayerShapes
<1>2. mRemainTaskCount \in Nat
  BY DEF Drains, EventShapes
<1>3. mPlayerId \in [Player -> {-1} \cup 1 .. MaxAccept]
  <2>1. 1 .. mCurrentIssueId \subseteq 1 .. MaxAccept
    BY <1>1, BoundAssumption
  <2> QED
    BY <2>1 DEF PlayerShapes
<1> QED
  BY <1>1, <1>2, <1>3 DEF TypeOK, TimerShapes, PlayerShapes, EventShapes

\* Every variable is what the server declares; in particular an id is given out only for an
\* accept, so that the counter of ids never exceeds the accepts.
THEOREM TypeCorrect == Spec => []TypeOK
BY Invariant, TypesFollow, PTL

\* The task runs through a reference to the top element: whatever is pushed meanwhile, the
\* top is the job that ran when DoTimerJob leaves the lock and pops (TopIsRunning).
THEOREM TopIsKept == Spec => []TopIsRunning
<1>1. IInv => TopIsRunning
  BY DEF IInv
<1> QED
  BY <1>1, Invariant, PTL

\* A player that is alive has a tick to come (AliveHasTick).
THEOREM TicksGoOn == Spec => []AliveHasTick
<1>1. IInv => AliveHasTick
  BY DEF IInv
<1> QED
  BY <1>1, Invariant, PTL

\* A player whose lock is free is, if alive, in the map under its own id; if not, it has no id
\* (AliveIsRegistered).
THEOREM RegisteredWhileAlive == Spec => []AliveIsRegistered
<1>1. IInv => AliveIsRegistered
  <2> SUFFICES ASSUME IInv, NEW p \in Player, mLock[p] = NoThread PROVE Registered(p)
    BY DEF AliveIsRegistered, Registered
  <2>1. ~Registering(p)
    BY ThreadAssumption DEF IInv, Registering, ResetRuns, TopIsRunning, TaskRuns, Inside
  <2> QED
    BY <2>1 DEF IInv, Registration
<1> QED
  BY <1>1, Invariant, PTL

=============================================================================
