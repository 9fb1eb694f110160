---------------------------- MODULE PlayerEvents ----------------------------
(***************************************************************************)
(* Players in HW_05_MT and what drives them.  The accept of a session      *)
(* pushes Player::Start to the timer queue of the thread that handles it;  *)
(* Start registers the player, and OnTick pushes itself again as long as   *)
(* the player is alive.  Both run in DoTimerJob under the player's lock    *)
(* (SyncExecutable).  OnTick dispatches events for all players to the      *)
(* central executer, which may make its thread drain the events of others  *)
(* while it holds the lock.  Returning a session to the pool resets its    *)
(* player, and the session may be accepted again while jobs of the last    *)
(* connection are still in the queues.                                     *)
(*                                                                         *)
(* The pool is left to SessionLifecycle: here a session is "pooled" or     *)
(* "connected", and the port is that a thread wakes up whenever some       *)
(* completion arrives.  DoDispatch is one step that increments and pushes  *)
(* (GrandCentralExecuter).  A step ends at a lock and where an event, that *)
(* takes no player's lock, uses the fields of a player.  The lock of       *)
(* PlayerManager is held within one step.                                  *)
(***************************************************************************)
EXTENDS Integers, FiniteSets, SequencesExt

CONSTANTS
  Player,               (* the players, one per session *)
  IoThread,
  NoThread,
  StartDelay,           (* the 10 ms from the accept to Start *)
  HeartBeat,            (* the 1000 ms between two ticks *)
  BuffDuration,         (* how long buffs may last: 2000 to 4000 ms *)
  MaxTick,              (* bound: the clock stops there *)
  MaxAccept             (* bound: accepted connections in all *)

ASSUME ThreadAssumption == IsFiniteSet(IoThread) /\ NoThread \notin IoThread
ASSUME DelayAssumption == StartDelay \in Nat /\ HeartBeat \in Nat \ {0}
ASSUME BoundAssumption == MaxTick \in Nat /\ MaxAccept \in Nat

VARIABLES
  now,                  (* GetTickCount64 *)
  session,              (* per player, where its session is *)
  accepted,             (* how many connections were accepted *)
  LTickCount,           (* per thread *)
  mTimerJobQueue,       (* per thread, the jobs by their ticks, the top first *)
  pc,                   (* per thread, its place in IoWorkerThread and below *)
  running,              (* per thread, the job whose task it runs *)
  returning,            (* per thread, the player it resets *)
  mLock,                (* per player, who holds SyncExecutable::mLock *)
  mPlayerId, mHeartBeat, mIsAlive, mBuffList,
  mPlayerMap, mCurrentIssueId,
  mRemainTaskCount, mCentralTaskQueue,
  draining,             (* per thread, is it in the loop of DoDispatch *)
  event,                (* per thread, the event it runs *)
  currentPlayers        (* per thread, the players its event has still to reach *)

timer == <<LTickCount, mTimerJobQueue, running>>
player == <<mLock, mPlayerId, mHeartBeat, mIsAlive>>
manager == <<mPlayerMap, mCurrentIssueId>>
executer == <<mRemainTaskCount, mCentralTaskQueue, draining, event, currentPlayers>>
pool == <<session, accepted, returning>>
vars == <<now, pc, timer, player, mBuffList, manager, executer, pool>>

Task == {"Start", "OnTick"}
Job == [owner : Player, task : Task, tick : Nat]
Location == {"port", "timer", "Start", "register", "OnTick", "decay", "again", "leave",
             "reset", "unregistered"}

\* The AllPlayerBuffEvent of a player: its buff has the number 100 * id.
BuffEvent(id) == [buff : {id}, duration : BuffDuration]
AllPlayerBuffDecay == [buff |-> 0, duration |-> 0]
NoEvent == [buff |-> -1, duration |-> 0]
Event == {AllPlayerBuffDecay} \cup UNION {BuffEvent(id) : id \in 1 .. MaxAccept}

Init ==
  /\ now = 0
  /\ session = [p \in Player |-> "pooled"]
  /\ accepted = 0
  /\ LTickCount = [t \in IoThread |-> 0]
  /\ mTimerJobQueue = [t \in IoThread |-> << >>]
  /\ pc = [t \in IoThread |-> "timer"]
  /\ running = [t \in IoThread |-> << >>]
  /\ returning = [t \in IoThread |-> {}]
  /\ mLock = [p \in Player |-> NoThread]
  /\ mPlayerId = [p \in Player |-> -1]
  /\ mHeartBeat = [p \in Player |-> -1]
  /\ mIsAlive = [p \in Player |-> FALSE]
  /\ mBuffList = [p \in Player |-> << >>]
  /\ mPlayerMap = << >>
  /\ mCurrentIssueId = 0
  /\ mRemainTaskCount = 0
  /\ mCentralTaskQueue = << >>
  /\ draining = [t \in IoThread |-> FALSE]
  /\ event = [t \in IoThread |-> NoEvent]
  /\ currentPlayers = [t \in IoThread |-> << >>]

Tick == now < MaxTick /\ now' = now + 1 /\ UNCHANGED <<pc, timer, player, mBuffList, manager, executer, pool>>

\* A step of t on its own way: not in a drain.
Goto(t, from, to) ==
  /\ pc[t] = from
  /\ ~draining[t]
  /\ pc' = [pc EXCEPT ![t] = to]

\* Faulty: the tick is not added to.
PushTimerJobNow(t, p, task, after) ==
  \E i \in 1 .. Len(mTimerJobQueue[t]) + 1 :
    /\ \A j \in DOMAIN mTimerJobQueue[t] :
         IF j < i THEN mTimerJobQueue[t][j].tick <= after ELSE mTimerJobQueue[t][j].tick >= after
    /\ mTimerJobQueue' = [mTimerJobQueue EXCEPT
         ![t] = InsertAt(@, i, [owner |-> p, task |-> task, tick |-> after])]

\* PushTimerJob: jobs due at the same tick are in any order, but the top of the heap
\* gives way to an earlier job only.
PushTimerJob(t, p, task, after) ==
  LET tick == LTickCount[t] + after
      queue == mTimerJobQueue[t]
  IN  \E i \in 1 .. Len(queue) + 1 :
        /\ \A j \in DOMAIN queue : IF j < i THEN queue[j].tick <= tick ELSE queue[j].tick >= tick
        /\ (i = 1 /\ queue # << >>) => tick < queue[1].tick
        /\ mTimerJobQueue' = [mTimerJobQueue EXCEPT
             ![t] = InsertAt(@, i, [owner |-> p, task |-> task, tick |-> tick])]

-----------------------------------------------------------------------------
(***************************************************************************)
(* IoWorkerThread: completions that concern a player.                      *)
(***************************************************************************)
\* DoTimerJob is entered again after every completion.
EnterTimerJob(t, from) ==
  /\ Goto(t, from, "timer")
  /\ LTickCount' = [LTickCount EXCEPT ![t] = now]

WakeUp(t) ==
  /\ EnterTimerJob(t, "port")
  /\ UNCHANGED <<now, mTimerJobQueue, running, player, mBuffList, manager, executer, pool>>

\* The accepted socket is set up, or it is not and no Start is pushed.
AcceptCompletion(t, p) ==
  /\ EnterTimerJob(t, "port")
  /\ session[p] = "pooled" /\ accepted < MaxAccept
  /\ session' = [session EXCEPT ![p] = "connected"]
  /\ accepted' = accepted + 1
  /\ PushTimerJob(t, p, "Start", StartDelay) \/ UNCHANGED mTimerJobQueue
  /\ UNCHANGED <<now, running, returning, player, mBuffList, manager, executer>>

\* The last reference is gone: with the session manager's lock, SessionReset calls DoSync.
ReturnClientSession(t, p) ==
  /\ Goto(t, "port", "reset")
  /\ session[p] = "connected"
  /\ \A u \in IoThread : returning[u] = {}
  /\ returning' = [returning EXCEPT ![t] = {p}]
  /\ UNCHANGED <<now, session, accepted, timer, player, mBuffList, manager, executer>>

\* DoSync takes the player's lock, and PlayerReset that of the manager.
UnregisterPlayer(t) ==
  /\ Goto(t, "reset", "unregistered")
  /\ \E p \in returning[t] :
       /\ mLock[p] = NoThread
       /\ mLock' = [mLock EXCEPT ![p] = t]
       /\ mPlayerMap' = [id \in DOMAIN mPlayerMap \ {mPlayerId[p]} |-> mPlayerMap[id]]
  /\ UNCHANGED <<now, timer, mPlayerId, mHeartBeat, mIsAlive, mBuffList, mCurrentIssueId,
                 executer, pool>>

PlayerReset(t) ==
  /\ EnterTimerJob(t, "unregistered")
  /\ \E p \in returning[t] :
       /\ mPlayerId' = [mPlayerId EXCEPT ![p] = -1]
       /\ mHeartBeat' = [mHeartBeat EXCEPT ![p] = -1]
       /\ mIsAlive' = [mIsAlive EXCEPT ![p] = FALSE]
       /\ mLock' = [mLock EXCEPT ![p] = NoThread]
       /\ session' = [session EXCEPT ![p] = "pooled"]
  /\ returning' = [returning EXCEPT ![t] = {}]
  /\ UNCHANGED <<now, accepted, mTimerJobQueue, running, mBuffList, manager, executer>>

-----------------------------------------------------------------------------
(***************************************************************************)
(* DoTimerJob.                                                             *)
(***************************************************************************)
Due(t) == mTimerJobQueue[t] # << >> /\ Head(mTimerJobQueue[t]).tick <= LTickCount[t]

NothingDue(t) ==
  /\ ~Due(t)
  /\ Goto(t, "timer", "port")
  /\ UNCHANGED <<now, timer, player, mBuffList, manager, executer, pool>>

EnterLock(t) ==
  /\ Due(t)
  /\ LET top == Head(mTimerJobQueue[t])
     IN  /\ Goto(t, "timer", top.task)
         /\ mLock[top.owner] = NoThread
         /\ mLock' = [mLock EXCEPT ![top.owner] = t]
         /\ running' = [running EXCEPT ![t] = <<top>>]
  /\ UNCHANGED <<now, LTickCount, mTimerJobQueue, mPlayerId, mHeartBeat, mIsAlive, mBuffList,
                 manager, executer, pool>>

\* The lock is left through what is the top now, and that is popped.
LeaveLock(t) ==
  /\ Goto(t, "leave", "timer")
  /\ mLock' = [mLock EXCEPT ![Head(mTimerJobQueue[t]).owner] = NoThread]
  /\ mTimerJobQueue' = [mTimerJobQueue EXCEPT ![t] = Tail(@)]
  /\ running' = [running EXCEPT ![t] = << >>]
  /\ UNCHANGED <<now, LTickCount, mPlayerId, mHeartBeat, mIsAlive, mBuffList, manager, executer, pool>>

-----------------------------------------------------------------------------
(***************************************************************************)
(* The tasks.                                                              *)
(***************************************************************************)
Owner(t) == running[t][1].owner

Start(t) ==
  /\ Goto(t, "Start", "register")
  /\ mIsAlive' = [mIsAlive EXCEPT ![Owner(t)] = TRUE]
  /\ mHeartBeat' = [mHeartBeat EXCEPT ![Owner(t)] = HeartBeat]
  /\ UNCHANGED <<now, timer, mLock, mPlayerId, mBuffList, manager, executer, pool>>

Put(map, id, p) == [i \in DOMAIN map \cup {id} |-> IF i = id THEN p ELSE map[i]]

\* Faulty: the id that is returned was read before it was incremented.
RegisterOldId(t) ==
  /\ Goto(t, "register", "OnTick")
  /\ mCurrentIssueId' = mCurrentIssueId + 1
  /\ mPlayerMap' = Put(mPlayerMap, mCurrentIssueId', Owner(t))
  /\ mPlayerId' = [mPlayerId EXCEPT ![Owner(t)] = mCurrentIssueId]
  /\ UNCHANGED <<now, timer, mLock, mHeartBeat, mIsAlive, mBuffList, executer, pool>>

RegisterPlayer(t) ==
  /\ Goto(t, "register", "OnTick")
  /\ mCurrentIssueId' = mCurrentIssueId + 1
  /\ mPlayerMap' = Put(mPlayerMap, mCurrentIssueId', Owner(t))
  /\ mPlayerId' = [mPlayerId EXCEPT ![Owner(t)] = mCurrentIssueId']
  /\ UNCHANGED <<now, timer, mLock, mHeartBeat, mIsAlive, mBuffList, executer, pool>>

DoDispatch(t, e) ==
  /\ mRemainTaskCount' = mRemainTaskCount + 1
  /\ mCentralTaskQueue' = Append(mCentralTaskQueue, e)
  /\ draining' = [draining EXCEPT ![t] = mRemainTaskCount' = 1]
  /\ UNCHANGED <<event, currentPlayers>>

\* OnTick up to its first event, which one tick in a hundred has.
OnTick(t) ==
  /\ \/ Goto(t, "OnTick", "leave") /\ ~mIsAlive[Owner(t)] /\ UNCHANGED executer
     \/ Goto(t, "OnTick", "decay") /\ mIsAlive[Owner(t)] /\ UNCHANGED executer
     \/ /\ Goto(t, "OnTick", "decay")
        /\ mIsAlive[Owner(t)]
        /\ \E e \in BuffEvent(mPlayerId[Owner(t)]) : DoDispatch(t, e)
  /\ UNCHANGED <<now, timer, player, mBuffList, manager, pool>>

DispatchDecay(t) ==
  /\ Goto(t, "decay", "again")
  /\ DoDispatch(t, AllPlayerBuffDecay)
  /\ UNCHANGED <<now, timer, player, mBuffList, manager, pool>>

\* Faulty: the next tick is not pushed.
TickOnce(t) ==
  /\ Goto(t, "again", "leave")
  /\ UNCHANGED <<now, timer, player, mBuffList, manager, executer, pool>>

DoSyncAfter(t) ==
  /\ Goto(t, "again", "leave")
  /\ IF mHeartBeat[Owner(t)] > 0
     THEN PushTimerJob(t, Owner(t), "OnTick", mHeartBeat[Owner(t)])
     ELSE UNCHANGED mTimerJobQueue
  /\ UNCHANGED <<now, LTickCount, running, player, mBuffList, manager, executer, pool>>

-----------------------------------------------------------------------------
(***************************************************************************)
(* The events, in the loop of DoDispatch.                                  *)
(***************************************************************************)
\* try_pop, and GetCurrentPlayers of the event, in the order of their ids.
GetCurrentPlayers(t) ==
  /\ draining[t] /\ event[t] = NoEvent
  /\ mCentralTaskQueue # << >>
  /\ event' = [event EXCEPT ![t] = Head(mCentralTaskQueue)]
  /\ mCentralTaskQueue' = Tail(mCentralTaskQueue)
  /\ \E ids \in [1 .. Cardinality(DOMAIN mPlayerMap) -> DOMAIN mPlayerMap] :
       /\ \A i, j \in DOMAIN ids : i < j => ids[i] < ids[j]
       /\ currentPlayers' = [currentPlayers EXCEPT ![t] = [i \in DOMAIN ids |-> mPlayerMap[ids[i]]]]
  /\ UNCHANGED <<now, pc, timer, player, mBuffList, manager, mRemainTaskCount, draining, pool>>

Reach(t) ==
  /\ currentPlayers[t] # << >>
  /\ currentPlayers' = [currentPlayers EXCEPT ![t] = Tail(@)]
  /\ UNCHANGED <<now, pc, timer, player, manager, mRemainTaskCount, mCentralTaskQueue, draining,
                 event, pool>>

\* An insert leaves a buff of the same number as it is.
AddBuff(t) ==
  /\ event[t].buff > 0
  /\ Reach(t)
  /\ LET p == Head(currentPlayers[t])
         buffs == mBuffList[p]
     IN  mBuffList' = [mBuffList EXCEPT ![p] =
           IF event[t].buff \in DOMAIN buffs THEN buffs
           ELSE Put(buffs, event[t].buff, event[t].duration)]

DecayTickBuff(t) ==
  /\ event[t] = AllPlayerBuffDecay
  /\ Reach(t)
  /\ LET p == Head(currentPlayers[t])
         buffs == mBuffList[p]
     IN  mBuffList' = [mBuffList EXCEPT ![p] =
           [id \in {id \in DOMAIN buffs : buffs[id] > mHeartBeat[p]} |-> buffs[id] - mHeartBeat[p]]]

EndTask(t) ==
  /\ event[t] # NoEvent /\ currentPlayers[t] = << >>
  /\ event' = [event EXCEPT ![t] = NoEvent]
  /\ mRemainTaskCount' = mRemainTaskCount - 1
  /\ draining' = [draining EXCEPT ![t] = mRemainTaskCount' # 0]
  /\ UNCHANGED <<now, pc, timer, player, mBuffList, manager, mCentralTaskQueue, currentPlayers, pool>>

Proceed(t) ==
  \/ UnregisterPlayer(t) \/ PlayerReset(t) \/ NothingDue(t) \/ EnterLock(t) \/ LeaveLock(t)
  \/ Start(t) \/ RegisterPlayer(t) \/ OnTick(t) \/ DispatchDecay(t) \/ DoSyncAfter(t)
  \/ GetCurrentPlayers(t) \/ AddBuff(t) \/ DecayTickBuff(t) \/ EndTask(t)

Next ==
  \/ Tick
  \/ \E t \in IoThread :
       \/ WakeUp(t) \/ Proceed(t)
       \/ \E p \in Player : AcceptCompletion(t, p) \/ ReturnClientSession(t, p)

Spec == Init /\ [][Next]_vars
-----------------------------------------------------------------------------
TypeOK ==
  /\ now \in 0 .. MaxTick /\ LTickCount \in [IoThread -> 0 .. MaxTick]
  /\ session \in [Player -> {"pooled", "connected"}]
  /\ accepted \in 0 .. MaxAccept
  /\ mTimerJobQueue \in [IoThread -> Seq(Job)]
  /\ pc \in [IoThread -> Location]
  /\ \A t \in IoThread : running[t] \in Seq(Job) /\ Len(running[t]) <= 1
  /\ returning \in [IoThread -> SUBSET Player]
  /\ mLock \in [Player -> IoThread \cup {NoThread}]
  /\ mPlayerId \in [Player -> {-1} \cup 1 .. MaxAccept]
  /\ mHeartBeat \in [Player -> {-1, HeartBeat}]
  /\ mIsAlive \in [Player -> BOOLEAN]
  /\ \A p \in Player : DOMAIN mBuffList[p] \subseteq 1 .. MaxAccept
  /\ DOMAIN mPlayerMap \subseteq 1 .. mCurrentIssueId
  /\ mCurrentIssueId \in 0 .. MaxAccept
  /\ mRemainTaskCount \in Nat
  /\ mCentralTaskQueue \in Seq(Event)
  /\ draining \in [IoThread -> BOOLEAN]
  /\ event \in [IoThread -> Event \cup {NoEvent}]
  /\ currentPlayers \in [IoThread -> Seq(Player)]

\* The task runs through a reference to the top element, and may push: when DoTimerJob
\* leaves the lock and pops, the top is still the job it ran and the lock the one it took.
TopIsRunning ==
  \A t \in IoThread : running[t] # << >> =>
    /\ mTimerJobQueue[t] # << >> /\ Head(mTimerJobQueue[t]) = running[t][1]
    /\ mLock[Owner(t)] = t

\* A player that is alive is never without its next tick, whatever resets and starts
\* overtook each other.
AliveHasTick ==
  \A p \in Player : mIsAlive[p] =>
    \E t \in IoThread : \E i \in DOMAIN mTimerJobQueue[t] :
      /\ mTimerJobQueue[t][i].owner = p
      /\ mTimerJobQueue[t][i].task = "OnTick" \/ (running[t] # << >> /\ i = 1)

\* When nobody holds its lock, a player that is alive is in the map under its own id,
\* and a player that is not has no id, however starts and resets overtook each other.
AliveIsRegistered ==
  \A p \in Player : mLock[p] = NoThread =>
    IF mIsAlive[p] THEN mPlayerId[p] \in DOMAIN mPlayerMap /\ mPlayerMap[mPlayerId[p]] = p
    ELSE mPlayerId[p] = -1

\* PlayerReset's comment "remove from the player map" (Player.cpp 22): afterwards the
\* player is not in it.
ResetUnregisters ==
  [][\A p \in Player : (\E t \in IoThread : p \in returning[t] /\ PlayerReset(t))
       => \A id \in DOMAIN mPlayerMap' : mPlayerMap'[id] # p]_vars

=============================================================================
