----------------------- MODULE SessionLifecycleProofs -----------------------
(***************************************************************************)
(* The reference count of a ClientSession is exact, and a session is given *)
(* back to the pool only when nobody can reach it, for every finite pool   *)
(* and every finite set of I/O threads.                                    *)
(***************************************************************************)
EXTENDS SessionLifecycle, FiniteSetTheorems, SequenceTheorems, TLAPS

Returning(t) == pc[t] \in {"return", "reset"}

\* A thread has a session in its hand exactly while it serves a completion, and the
\* types that have no NextIo never come to a post.
HandInv ==
  /\ \A t \in IoThread :
       /\ pc[t] \in IoLocation
       /\ hand[t].session \in Session <=> pc[t] # "get"
       /\ pc[t] \in {"accept", "check", "post"} => hand[t].type # "IO_DISCONNECT"
  /\ pc[Main] \in MainLocation
  /\ hand[Main].session \in Session <=> pc[Main] = "postAccept"

\* Who returns a session is alone with it.
ReturnInv ==
  \A t \in IoThread : Returning(t) =>
    /\ mRefCount[hand[t].session] = 0
    /\ \A u \in IoThread : Returning(u) /\ hand[u].session = hand[t].session => u = t

\* The pool holds a session at most once, and none that is in use.
PoolInv ==
  /\ \A i \in 1..Len(mFreeSessionList) :
       /\ mRefCount[mFreeSessionList[i]] = 0
       /\ \A t \in IoThread : Returning(t) => hand[t].session # mFreeSessionList[i]
  /\ \A i, j \in 1..Len(mFreeSessionList) :
       mFreeSessionList[i] = mFreeSessionList[j] => i = j

InUse == {s \in Session : ~Pooled(s)}
IssuedInv == mCurrentlyIssued = Cardinality(InUse)

SessionInv ==
  TypeOK /\ HandInv /\ RefCountIsExact /\ OneStagePerIssue /\ ReturnInv /\ PoolInv /\ IssuedInv

-----------------------------------------------------------------------------
(***************************************************************************)
(* Counting: one thread moves, one context is posted or taken.             *)
(***************************************************************************)
In(t, S) == IF t \in S THEN 1 ELSE 0

\* Threads other than t stay where they are.
OnlyMoves(t) ==
  \A u \in IoThread \ {t} : pc'[u] = pc[u] /\ hand'[u] = hand[u]

LEMMA CountChange ==
  ASSUME NEW S \in SUBSET IoThread, NEW T \in SUBSET IoThread, NEW t \in IoThread,
         S \ {t} = T \ {t}
  PROVE  /\ Cardinality(S) \in Nat
         /\ Cardinality(T) \in Nat
         /\ Cardinality(T) = Cardinality(S) + In(t, T) - In(t, S)
<1>1. IsFiniteSet(S) /\ IsFiniteSet(T)
  BY ThreadAssumption, FS_Subset
<1>2. Cardinality(S) \in Nat /\ Cardinality(T) \in Nat
  BY <1>1, FS_CardinalityType
<1>3. Cardinality(S \ {t}) = IF t \in S THEN Cardinality(S) - 1 ELSE Cardinality(S)
  BY <1>1, FS_RemoveElement
<1>4. Cardinality(T \ {t}) = IF t \in T THEN Cardinality(T) - 1 ELSE Cardinality(T)
  BY <1>1, FS_RemoveElement
<1>5. Cardinality(S \ {t}) = Cardinality(T \ {t})
  OBVIOUS
<1>6. CASE t \in S
  BY <1>2, <1>3, <1>4, <1>5, <1>6 DEF In
<1>7. CASE t \notin S
  BY <1>2, <1>3, <1>4, <1>5, <1>7 DEF In
<1> QED
  BY <1>6, <1>7

LEMMA HandCount ==
  ASSUME NEW t \in IoThread, OnlyMoves(t), NEW s
  PROVE  /\ Cardinality(InHand(s)) \in Nat
         /\ Cardinality(InHand(s)') \in Nat
         /\ Cardinality(InHand(s)')
              = Cardinality(InHand(s)) + In(t, InHand(s)') - In(t, InHand(s))
  BY CountChange DEF OnlyMoves, InHand

LEMMA PlaceCount ==
  ASSUME NEW t \in IoThread, OnlyMoves(t), NEW s, NEW places
  PROVE  /\ Cardinality(ThreadsAt(s, places)) \in Nat
         /\ Cardinality(ThreadsAt(s, places)') \in Nat
         /\ Cardinality(ThreadsAt(s, places)')
              = Cardinality(ThreadsAt(s, places))
                  + In(t, ThreadsAt(s, places)') - In(t, ThreadsAt(s, places))
  BY CountChange DEF OnlyMoves, ThreadsAt

LEMMA KernelType ==
  ASSUME TypeOK, NEW s \in Session
  PROVE  InKernel(s) \in Nat /\ \A io \in IOType : posted[s][io] \in Nat
  BY DEF TypeOK, InKernel, IOType

\* When only the contexts of one type of s change, so does InKernel(s).
LEMMA KernelCount ==
  ASSUME TypeOK, NEW s \in Session, NEW io \in IOType,
         posted' \in [Session -> [IOType -> Nat]],
         \A r \in Session, j \in IOType : r # s \/ j # io => posted'[r][j] = posted[r][j]
  PROVE  /\ InKernel(s)' = InKernel(s) + (posted'[s][io] - posted[s][io])
         /\ \A r \in Session \ {s} : InKernel(r)' = InKernel(r)
<1>1. \A r \in Session, j \in IOType : posted[r][j] \in Nat /\ posted'[r][j] \in Nat
  BY DEF TypeOK
<1>2. InKernel(s)' = InKernel(s) + (posted'[s][io] - posted[s][io])
  <2>1. \A j \in IOType \ {io} : posted'[s][j] = posted[s][j]
    OBVIOUS
  <2> QED
    BY <1>1, <2>1 DEF InKernel, IOType
<1>3. \A r \in Session \ {s} : InKernel(r)' = InKernel(r)
  BY DEF InKernel, IOType
<1> QED
  BY <1>2, <1>3

\* Post adds one context and one reference to s and leaves the other sessions.
LEMMA PostCount ==
  ASSUME TypeOK, NEW s \in Session, NEW io \in IOType, Post(s, io)
  PROVE  /\ posted' \in [Session -> [IOType -> Nat]]
         /\ mRefCount' \in [Session -> Nat]
         /\ \A r \in Session, j \in IOType :
              posted'[r][j] = IF r = s /\ j = io THEN posted[r][j] + 1 ELSE posted[r][j]
         /\ \A r \in Session :
              /\ mRefCount'[r] = IF r = s THEN mRefCount[r] + 1 ELSE mRefCount[r]
              /\ InKernel(r)' = IF r = s THEN InKernel(r) + 1 ELSE InKernel(r)
<1>1. /\ posted' \in [Session -> [IOType -> Nat]]
      /\ mRefCount' \in [Session -> Nat]
      /\ \A r \in Session : mRefCount'[r] = IF r = s THEN mRefCount[r] + 1 ELSE mRefCount[r]
      /\ \A r \in Session, j \in IOType :
           posted'[r][j] = IF r = s /\ j = io THEN posted[r][j] + 1 ELSE posted[r][j]
  BY DEF Post, TypeOK
<1>2. InKernel(s)' = InKernel(s) + (posted'[s][io] - posted[s][io])
  BY <1>1, KernelCount
<1>3. \A r \in Session \ {s} : InKernel(r)' = InKernel(r)
  BY <1>1, KernelCount
<1> QED
  BY <1>1, <1>2, <1>3, KernelType

\* A completion takes one context of s from the kernel.
LEMMA TakeCount ==
  ASSUME TypeOK, NEW s \in Session, NEW io \in IOType, posted[s][io] > 0,
         posted' = [posted EXCEPT ![s][io] = @ - 1]
  PROVE  /\ posted' \in [Session -> [IOType -> Nat]]
         /\ \A r \in Session, j \in IOType :
              posted'[r][j] = IF r = s /\ j = io THEN posted[r][j] - 1 ELSE posted[r][j]
         /\ \A r \in Session : InKernel(r)' = IF r = s THEN InKernel(r) - 1 ELSE InKernel(r)
<1>1. /\ posted' \in [Session -> [IOType -> Nat]]
      /\ \A r \in Session, j \in IOType :
           posted'[r][j] = IF r = s /\ j = io THEN posted[r][j] - 1 ELSE posted[r][j]
  BY DEF TypeOK
<1>2. InKernel(s)' = InKernel(s) + (posted'[s][io] - posted[s][io])
  BY <1>1, KernelCount
<1>3. \A r \in Session \ {s} : InKernel(r)' = InKernel(r)
  BY <1>1, KernelCount
<1> QED
  BY <1>1, <1>2, <1>3, KernelType

-----------------------------------------------------------------------------
(***************************************************************************)
(* Every action keeps HandInv, and moves one thread only.                  *)
(***************************************************************************)
LEMMA ThreadsDiffer == \A t \in IoThread : t # Main
  BY ThreadAssumption

LEMMA OneThreadMoves ==
  ASSUME TypeOK, NEW t \in IoThread,
         Serve(t) \/ \E s \in Session, io \in IOType : GetCompletion(t, s, io)
  PROVE  OnlyMoves(t)
<1> USE DEF OnlyMoves, Goto, TypeOK
<1>1. CASE \E s \in Session, io \in IOType : GetCompletion(t, s, io)
  BY <1>1 DEF GetCompletion
<1>2. CASE AcceptCompletion(t) \/ CheckConnected(t) \/ DisconnectRequest(t)
  BY <1>2 DEF AcceptCompletion, CheckConnected, DisconnectRequest
<1>3. CASE PostNextIo(t) \/ PostNextIoFails(t)
  BY <1>3 DEF PostNextIo, PostNextIoFails
<1>4. CASE DisconnectEx(t) \/ DisconnectExFails(t) \/ DisconnectCompletion(t)
  BY <1>4 DEF DisconnectEx, DisconnectExFails, DisconnectCompletion
<1>5. CASE DeleteIoContext(t) \/ ReturnClientSession(t) \/ SessionReset(t)
  BY <1>5 DEF DeleteIoContext, ReturnClientSession, SessionReset
<1> QED
  BY <1>1, <1>2, <1>3, <1>4, <1>5 DEF Serve

\* Main moves no I/O thread.
LEMMA MainMoves ==
  ASSUME TypeOK, MainStep
  PROVE  \A t \in IoThread : pc'[t] = pc[t] /\ hand'[t] = hand[t]
BY ThreadsDiffer
DEF MainStep, AcceptSessions, IssueSession, PostAccept, PostAcceptFails, AllIssued, Goto, TypeOK

\* A thread that serves a completion of s holds one of its references.
LEMMA ServingHolds ==
  ASSUME SessionInv, NEW t \in IoThread, pc[t] \notin {"get", "return", "reset"}
  PROVE  LET s == hand[t].session
         IN  /\ s \in Session
             /\ t \in InHand(s)
             /\ mRefCount[s] >= 1 + issueRef[s] /\ mRefCount[s] # 0
             /\ mRefCount[s] = 1 => issueRef[s] = 0 /\ InKernel(s) = 0 /\ InHand(s) = {t}
<1> DEFINE s == hand[t].session
<1>1. s \in Session /\ t \in InHand(s)
  BY DEF SessionInv, HandInv, InHand
<1>2. IsFiniteSet(InHand(s)) /\ Cardinality(InHand(s)) \in Nat
  BY ThreadAssumption, FS_Subset, FS_CardinalityType DEF InHand
<1>3. Cardinality(InHand(s)) # 0
  BY <1>1, <1>2, FS_EmptySet
<1>4. Cardinality(InHand(s)) = 1 => InHand(s) = {t}
  BY <1>1, <1>2, FS_Singleton
<1>5. /\ mRefCount[s] = issueRef[s] + InKernel(s) + Cardinality(InHand(s))
      /\ issueRef[s] \in {0, 1}
      /\ InKernel(s) \in Nat
  BY <1>1, KernelType DEF SessionInv, RefCountIsExact, TypeOK
<1> QED
  BY <1>1, <1>2, <1>3, <1>4, <1>5

\* AcceptSessions finds a session whenever it may issue one.
LEMMA IssuedFromPool ==
  ASSUME SessionInv, mCurrentlyIssued < MAX_CONNECTION
  PROVE  /\ mFreeSessionList # << >>
         /\ Len(mFreeSessionList) \in 1..Len(mFreeSessionList)
         /\ mFreeSessionList[Len(mFreeSessionList)] \in Session
<1>1. mFreeSessionList \in Seq(Session) /\ Len(mFreeSessionList) \in Nat
  BY DEF SessionInv, TypeOK
<1>2. Len(mFreeSessionList) # 0
  <2>1. SUFFICES ASSUME Len(mFreeSessionList) = 0 PROVE FALSE
    OBVIOUS
  <2>2. InUse = Session
    BY <2>1 DEF InUse, Pooled
  <2> QED
    BY <2>2, SessionAssumption, FS_CardinalityType DEF SessionInv, IssuedInv, MAX_CONNECTION
<1> QED
  BY <1>1, <1>2

\* A session in the pool is idle, and one whose disconnect is being completed has
\* its issue's reference.
LEMMA PooledIsIdle ==
  ASSUME SessionInv, NEW i \in 1..Len(mFreeSessionList)
  PROVE  LET s == mFreeSessionList[i]
         IN  mRefCount[s] = 0 /\ issueRef[s] = 0 /\ InKernel(s) = 0 /\ InHand(s) = {}
<1> DEFINE s == mFreeSessionList[i]
<1>1. s \in Session /\ mRefCount[s] = 0
  BY DEF SessionInv, TypeOK, PoolInv
<1>2. IsFiniteSet(InHand(s)) /\ Cardinality(InHand(s)) \in Nat
  BY ThreadAssumption, FS_Subset, FS_CardinalityType DEF InHand
<1>3. mRefCount[s] = issueRef[s] + InKernel(s) + Cardinality(InHand(s))
  BY <1>1 DEF SessionInv, RefCountIsExact
<1>4. issueRef[s] \in Nat /\ InKernel(s) \in Nat
  BY <1>1, KernelType DEF SessionInv, TypeOK
<1>5. issueRef[s] = 0 /\ InKernel(s) = 0 /\ Cardinality(InHand(s)) = 0
  BY <1>1, <1>2, <1>3, <1>4
<1> QED
  BY <1>1, <1>2, <1>5, FS_EmptySet

LEMMA PlaceType ==
  ASSUME NEW s, NEW places
  PROVE  /\ Cardinality(ThreadsAt(s, places)) \in Nat
         /\ Cardinality(ThreadsAt(s, places)) = 0 <=> ThreadsAt(s, places) = {}
<1>1. IsFiniteSet(ThreadsAt(s, places))
  BY ThreadAssumption, FS_Subset DEF ThreadsAt
<1> QED
  BY <1>1, FS_CardinalityType, FS_EmptySet

LEMMA StageType ==
  ASSUME TypeOK, NEW s \in Session
  PROVE  /\ posted[s]["IO_ACCEPT"] \in Nat
         /\ posted[s]["IO_DISCONNECT"] \in Nat
         /\ mConnected[s] \in {0, 1}
         /\ issueRef[s] \in {0, 1}
  BY KernelType DEF TypeOK, IOType

\* A thread that handles the accept or the disconnect is its issue's only stage.
LEMMA OnlyStage ==
  ASSUME SessionInv, NEW t \in IoThread, pc[t] \in {"accept", "disconnectEx", "completion"}
  PROVE  issueRef[hand[t].session] = 1 /\ mConnected[hand[t].session] = 0
<1> DEFINE s == hand[t].session
<1>1. s \in Session /\ Stage(s) <= issueRef[s]
  BY DEF SessionInv, HandInv, OneStagePerIssue
<1>2. t \in ThreadsAt(s, {pc[t]})
  BY DEF ThreadsAt
<1>3. Cardinality(ThreadsAt(s, {pc[t]})) \in Nat /\ Cardinality(ThreadsAt(s, {pc[t]})) # 0
  BY <1>2, PlaceType
<1>4. /\ Cardinality(ThreadsAt(s, {"accept"})) \in Nat
      /\ Cardinality(ThreadsAt(s, {"disconnectEx"})) \in Nat
      /\ Cardinality(ThreadsAt(s, {"completion"})) \in Nat
  BY PlaceType
<1>5. Stage(s) \in Nat /\ Stage(s) >= 1 + mConnected[s]
  <2>1. \/ Cardinality(ThreadsAt(s, {"accept"})) # 0
        \/ Cardinality(ThreadsAt(s, {"disconnectEx"})) # 0
        \/ Cardinality(ThreadsAt(s, {"completion"})) # 0
    BY <1>3
  <2>2. /\ posted[s]["IO_ACCEPT"] \in Nat /\ posted[s]["IO_DISCONNECT"] \in Nat
        /\ mConnected[s] \in Nat
    BY <1>1, StageType DEF SessionInv
  <2> QED
    BY <1>4, <2>1, <2>2 DEF Stage
<1>6. mConnected[s] \in {0, 1} /\ issueRef[s] \in {0, 1}
  BY <1>1, StageType DEF SessionInv
<1> QED
  BY <1>1, <1>5, <1>6

LEMMA HandStep == SessionInv /\ [Next]_vars => HandInv'
<1> SUFFICES ASSUME SessionInv, [Next]_vars PROVE HandInv'
  OBVIOUS
<1> USE DEF SessionInv, HandInv, TypeOK, Goto, IoLocation, MainLocation, Nothing
<1>1. CASE MainStep
  <2>1. CASE AcceptSessions \/ AllIssued
    BY <2>1, ThreadsDiffer DEF AcceptSessions, AllIssued
  <2>2. CASE IssueSession
    BY <2>2, ThreadsDiffer, IssuedFromPool DEF IssueSession
  <2>3. CASE PostAccept
    BY <2>3, SessionAssumption, ThreadsDiffer DEF PostAccept
  <2>4. CASE PostAcceptFails
    BY <2>4, SessionAssumption, ThreadsDiffer DEF PostAcceptFails
  <2> QED
    BY <1>1, <2>1, <2>2, <2>3, <2>4 DEF MainStep
<1>2. ASSUME NEW t \in IoThread, NEW s \in Session, NEW io \in IOType, GetCompletion(t, s, io)
      PROVE  HandInv'
  BY <1>2, ThreadsDiffer DEF GetCompletion
<1>3. ASSUME NEW t \in IoThread,
             AcceptCompletion(t) \/ CheckConnected(t) \/ DisconnectRequest(t)
      PROVE  HandInv'
  BY <1>3, ThreadsDiffer DEF AcceptCompletion, CheckConnected, DisconnectRequest
<1>4. ASSUME NEW t \in IoThread, PostNextIo(t) \/ PostNextIoFails(t)
      PROVE  HandInv'
  BY <1>4, ThreadsDiffer DEF PostNextIo, PostNextIoFails
<1>5. ASSUME NEW t \in IoThread,
             DisconnectEx(t) \/ DisconnectExFails(t) \/ DisconnectCompletion(t)
      PROVE  HandInv'
  BY <1>5, ThreadsDiffer DEF DisconnectEx, DisconnectExFails, DisconnectCompletion
<1>6. ASSUME NEW t \in IoThread, DeleteIoContext(t) PROVE HandInv'
  BY <1>6, SessionAssumption, ThreadsDiffer DEF DeleteIoContext
<1>8. ASSUME NEW t \in IoThread, ReturnClientSession(t) PROVE HandInv'
  BY <1>8, ThreadsDiffer DEF ReturnClientSession
<1>9. ASSUME NEW t \in IoThread, SessionReset(t) PROVE HandInv'
  BY <1>9, SessionAssumption, ThreadsDiffer DEF SessionReset
<1>7. CASE UNCHANGED vars
  BY <1>7 DEF vars
<1> QED
  BY <1>1, <1>2, <1>3, <1>4, <1>5, <1>6, <1>7, <1>8, <1>9 DEF Next, Serve

-----------------------------------------------------------------------------
(***************************************************************************)
(* The count stays exact.                                                  *)
(***************************************************************************)
CountTypes ==
  /\ mRefCount \in [Session -> Nat]
  /\ posted \in [Session -> [IOType -> Nat]]
  /\ issueRef \in [Session -> {0, 1}]

\* What of the count of s is not in the hands of threads other than t.
Holds(t, s) ==
  IF hand[t].session = s /\ pc[t] \notin {"get", "return", "reset"} THEN 1 ELSE 0
Rest(t, s) == mRefCount[s] - (issueRef[s] + InKernel(s) + Holds(t, s))

LEMMA RestType ==
  ASSUME CountTypes, NEW s \in Session, NEW t
  PROVE  /\ mRefCount[s] \in Nat
         /\ issueRef[s] \in Nat
         /\ InKernel(s) \in Nat
         /\ Holds(t, s) \in Nat
  BY DEF CountTypes, InKernel, IOType, Holds

\* A step of thread t: it is enough to follow t in and out of InHand.
LEMMA ThreadKeepsCount ==
  ASSUME SessionInv, CountTypes', NEW t \in IoThread, OnlyMoves(t),
         \A s \in Session : Rest(t, s)' = Rest(t, s)
  PROVE  RefCountIsExact'
<1> SUFFICES ASSUME NEW s \in Session
             PROVE  mRefCount'[s] = issueRef'[s] + InKernel(s)' + Cardinality(InHand(s)')
  BY DEF RefCountIsExact
<1>1. mRefCount[s] = issueRef[s] + InKernel(s) + Cardinality(InHand(s))
  BY DEF SessionInv, RefCountIsExact
<1>2. /\ Cardinality(InHand(s)) \in Nat
      /\ Cardinality(InHand(s)') \in Nat
      /\ Cardinality(InHand(s)')
           = Cardinality(InHand(s)) + Holds(t, s)' - Holds(t, s)
  <2>1. In(t, InHand(s)) = Holds(t, s) /\ In(t, InHand(s)') = Holds(t, s)'
    BY DEF In, InHand, Holds
  <2> QED
    BY <2>1, HandCount
<1>3. CountTypes
  BY DEF SessionInv, TypeOK, CountTypes
<1>4. /\ mRefCount[s] \in Nat /\ mRefCount'[s] \in Nat
      /\ issueRef[s] \in Nat /\ issueRef'[s] \in Nat
      /\ InKernel(s) \in Nat /\ InKernel(s)' \in Nat
      /\ Holds(t, s) \in Nat /\ Holds(t, s)' \in Nat
  <2>1. (mRefCount[s] \in Nat)' /\ (issueRef[s] \in Nat)'
    BY DEF CountTypes
  <2>2. InKernel(s)' \in Nat
    BY DEF CountTypes, InKernel, IOType
  <2> QED
    BY <1>3, <2>1, <2>2, RestType DEF Holds
<1>5. Rest(t, s)' = Rest(t, s)
  OBVIOUS
<1> QED
  BY <1>1, <1>2, <1>4, <1>5 DEF Rest

\* The same for Main, which is in no InHand.
LEMMA MainKeepsCount ==
  ASSUME SessionInv, MainStep,
         \A s \in Session :
           mRefCount'[s] - (issueRef'[s] + InKernel(s)') = mRefCount[s] - (issueRef[s] + InKernel(s)),
         CountTypes'
  PROVE  RefCountIsExact'
<1> SUFFICES ASSUME NEW s \in Session
             PROVE  mRefCount'[s] = issueRef'[s] + InKernel(s)' + Cardinality(InHand(s)')
  BY DEF RefCountIsExact
<1>1. mRefCount[s] = issueRef[s] + InKernel(s) + Cardinality(InHand(s))
  BY DEF SessionInv, RefCountIsExact
<1>2. InHand(s)' = InHand(s)
  BY MainMoves DEF SessionInv, InHand
<1>3. Cardinality(InHand(s)) \in Nat
  BY ThreadAssumption, FS_Subset, FS_CardinalityType DEF InHand
<1>4. /\ mRefCount[s] \in Nat /\ issueRef[s] \in Nat /\ InKernel(s) \in Nat
  BY RestType DEF SessionInv, TypeOK, CountTypes
<1>5. (mRefCount[s] \in Nat)' /\ (issueRef[s] \in Nat)' /\ InKernel(s)' \in Nat
  BY DEF CountTypes, InKernel, IOType
<1> QED
  BY <1>1, <1>2, <1>3, <1>4, <1>5

\* The counters stay in their types: a count is taken down by a holder only.
LEMMA CountTypesStep == SessionInv /\ [Next]_vars => CountTypes'
<1> SUFFICES ASSUME SessionInv, [Next]_vars PROVE CountTypes'
  OBVIOUS
<1>0. CountTypes /\ TypeOK
  BY DEF SessionInv, TypeOK, CountTypes
<1>1. CASE AcceptSessions \/ PostAcceptFails \/ AllIssued
  BY <1>0, <1>1 DEF AcceptSessions, PostAcceptFails, AllIssued, CountTypes
<1>2. CASE IssueSession
  BY <1>0, <1>2, IssuedFromPool DEF IssueSession, CountTypes
<1>3. CASE PostAccept
  <2>1. hand[Main].session \in Session /\ Post(hand[Main].session, "IO_ACCEPT")
    BY <1>3 DEF PostAccept, SessionInv, HandInv, Goto
  <2> QED
    BY <1>0, <1>3, <2>1, PostCount DEF PostAccept, CountTypes, IOType
<1>4. ASSUME NEW t \in IoThread, NEW s \in Session, NEW io \in IOType, GetCompletion(t, s, io)
      PROVE  CountTypes'
  BY <1>0, <1>4, TakeCount DEF GetCompletion, CountTypes
<1>5. ASSUME NEW t \in IoThread,
             \/ AcceptCompletion(t) \/ CheckConnected(t) \/ PostNextIoFails(t)
             \/ DisconnectRequest(t) \/ DisconnectExFails(t) \/ ReturnClientSession(t)
      PROVE  CountTypes'
  BY <1>0, <1>5 DEF AcceptCompletion, CheckConnected, PostNextIoFails, DisconnectRequest,
                    DisconnectExFails, ReturnClientSession, CountTypes
<1>6. ASSUME NEW t \in IoThread, PostNextIo(t) PROVE CountTypes'
  <2>1. /\ hand[t].session \in Session
        /\ NextIo[hand[t].type] \in IOType
        /\ Post(hand[t].session, NextIo[hand[t].type])
    BY <1>0, <1>6 DEF PostNextIo, SessionInv, HandInv, Goto, NextIo, TypeOK, IOType
  <2> QED
    BY <1>0, <1>6, <2>1, PostCount DEF PostNextIo, CountTypes
<1>7. ASSUME NEW t \in IoThread, DisconnectEx(t) PROVE CountTypes'
  <2>1. hand[t].session \in Session /\ Post(hand[t].session, "IO_DISCONNECT")
    BY <1>7 DEF DisconnectEx, SessionInv, HandInv, Goto
  <2> QED
    BY <1>0, <1>7, <2>1, PostCount DEF DisconnectEx, CountTypes, IOType
<1>8. ASSUME NEW t \in IoThread, DisconnectCompletion(t) \/ DeleteIoContext(t)
      PROVE  CountTypes'
  <2>1. hand[t].session \in Session /\ mRefCount[hand[t].session] >= 1 + issueRef[hand[t].session]
    BY <1>8, ServingHolds DEF DisconnectCompletion, DeleteIoContext, Goto
  <2> QED
    BY <1>0, <1>8, <2>1 DEF DisconnectCompletion, DeleteIoContext, CountTypes
<1>9. ASSUME NEW t \in IoThread, SessionReset(t) PROVE CountTypes'
  BY <1>0, <1>9 DEF SessionReset, CountTypes
<1>10. CASE UNCHANGED vars
  BY <1>0, <1>10 DEF vars, CountTypes
<1> QED
  BY <1>1, <1>2, <1>3, <1>4, <1>5, <1>6, <1>7, <1>8, <1>9, <1>10 DEF Next, MainStep, Serve

LEMMA RefCountStep == SessionInv /\ [Next]_vars => RefCountIsExact'
<1> SUFFICES ASSUME SessionInv, [Next]_vars PROVE RefCountIsExact'
  OBVIOUS
<1>0. CountTypes /\ CountTypes' /\ TypeOK /\ HandInv
  BY CountTypesStep DEF SessionInv, TypeOK, CountTypes
<1>a. \A s \in Session : mRefCount[s] \in Nat /\ issueRef[s] \in Nat /\ InKernel(s) \in Nat
  BY <1>0, RestType
<1>1. CASE AcceptSessions \/ PostAcceptFails \/ AllIssued
  <2>1. UNCHANGED <<mRefCount, issueRef, posted>>
    BY <1>1 DEF AcceptSessions, PostAcceptFails, AllIssued
  <2> QED
    BY <1>0, <1>1, <2>1, MainKeepsCount DEF MainStep, InKernel
<1>2. CASE IssueSession
  <2> DEFINE c == mFreeSessionList[Len(mFreeSessionList)]
  <2>1. c \in Session /\ issueRef[c] = 0
    BY <1>0, <1>2, IssuedFromPool, PooledIsIdle DEF IssueSession
  <2>2. /\ mRefCount' = [mRefCount EXCEPT ![c] = @ + 1]
        /\ issueRef' = [issueRef EXCEPT ![c] = 1]
        /\ posted' = posted
    BY <1>2 DEF IssueSession
  <2>3. ASSUME NEW s \in Session
        PROVE  mRefCount'[s] - (issueRef'[s] + InKernel(s)')
                 = mRefCount[s] - (issueRef[s] + InKernel(s))
    <3>1. InKernel(s)' = InKernel(s)
      BY <2>2 DEF InKernel
    <3>2. CASE s = c
      BY <1>0, <1>a, <2>1, <2>2, <3>1, <3>2 DEF CountTypes
    <3>3. CASE s # c
      BY <1>0, <1>a, <2>1, <2>2, <3>1, <3>3 DEF CountTypes
    <3> QED
      BY <3>2, <3>3
  <2> QED
    BY <1>0, <1>2, <2>3, MainKeepsCount DEF MainStep
<1>3. CASE PostAccept
  <2>1. hand[Main].session \in Session /\ Post(hand[Main].session, "IO_ACCEPT")
    BY <1>0, <1>3 DEF PostAccept, HandInv, Goto
  <2>2. ASSUME NEW s \in Session
        PROVE  mRefCount'[s] - (issueRef'[s] + InKernel(s)')
                 = mRefCount[s] - (issueRef[s] + InKernel(s))
    <3>1. "IO_ACCEPT" \in IOType /\ issueRef' = issueRef
      BY <1>3 DEF PostAccept, IOType
    <3>2. /\ mRefCount'[s] = IF s = hand[Main].session THEN mRefCount[s] + 1 ELSE mRefCount[s]
          /\ InKernel(s)' = IF s = hand[Main].session THEN InKernel(s) + 1 ELSE InKernel(s)
      BY <1>0, <2>1, <3>1, PostCount
    <3> QED
      BY <1>a, <3>1, <3>2
  <2> QED
    BY <1>0, <1>3, <2>2, MainKeepsCount DEF MainStep
<1>4. ASSUME NEW t \in IoThread,
             Serve(t) \/ \E s \in Session, io \in IOType : GetCompletion(t, s, io)
      PROVE  \A s \in Session : Rest(t, s)' = Rest(t, s)
  <2> SUFFICES ASSUME NEW s \in Session PROVE Rest(t, s)' = Rest(t, s)
    OBVIOUS
  <2>a. s \in Session /\ hand[t].session \in Session <=> pc[t] # "get"
    BY <1>0 DEF HandInv
  <2>b. t # Main /\ hand[t] \in [session : Session \cup {NoSession}, type : IOType]
    BY <1>0, ThreadsDiffer DEF TypeOK
  <2> USE DEF Rest, Holds, Goto, TypeOK
  <2>1. ASSUME NEW r \in Session, NEW io \in IOType, GetCompletion(t, r, io)
        PROVE  Rest(t, s)' = Rest(t, s)
    <3>1. InKernel(s)' = IF s = r THEN InKernel(s) - 1 ELSE InKernel(s)
      BY <1>0, <2>1, TakeCount DEF GetCompletion
    <3>2. Holds(t, s)' = (IF s = r THEN 1 ELSE 0) /\ Holds(t, s) = 0
      BY <1>0, <2>1 DEF GetCompletion
    <3>3. UNCHANGED <<mRefCount, issueRef>>
      BY <2>1 DEF GetCompletion
    <3> QED
      BY <1>a, <3>1, <3>2, <3>3 DEF Rest
  <2>2. CASE AcceptCompletion(t) \/ CheckConnected(t) \/ PostNextIoFails(t)
    BY <1>0, <2>2 DEF AcceptCompletion, CheckConnected, PostNextIoFails, InKernel
  <2>3. CASE DisconnectRequest(t) \/ DisconnectExFails(t)
    BY <1>0, <2>3 DEF DisconnectRequest, DisconnectExFails, InKernel
  <2>4. CASE PostNextIo(t) \/ DisconnectEx(t)
    <3>1. PICK io \in IOType : hand[t].session \in Session /\ Post(hand[t].session, io)
      BY <1>0, <2>4 DEF PostNextIo, DisconnectEx, HandInv, NextIo, IOType
    <3>2. /\ mRefCount'[s] = IF s = hand[t].session THEN mRefCount[s] + 1 ELSE mRefCount[s]
          /\ InKernel(s)' = IF s = hand[t].session THEN InKernel(s) + 1 ELSE InKernel(s)
      BY <1>0, <3>1, PostCount
    <3>3. issueRef' = issueRef /\ Holds(t, s)' = Holds(t, s) /\ Holds(t, s) \in Nat
      BY <1>0, <2>4 DEF PostNextIo, DisconnectEx
    <3> QED
      BY <1>a, <3>2, <3>3 DEF Rest
  <2>5. CASE DisconnectCompletion(t)
    <3>1. InKernel(s)' = InKernel(s) /\ Holds(t, s)' = Holds(t, s) /\ Holds(t, s) \in Nat
      BY <1>0, <2>5 DEF DisconnectCompletion, InKernel
    <3>2. issueRef[hand[t].session] = 1
      BY <2>5, OnlyStage DEF DisconnectCompletion
    <3>3. /\ mRefCount'[s] = IF s = hand[t].session THEN mRefCount[s] - 1 ELSE mRefCount[s]
          /\ issueRef'[s] = IF s = hand[t].session THEN 0 ELSE issueRef[s]
      BY <1>0, <2>5 DEF DisconnectCompletion, CountTypes
    <3> QED
      BY <1>a, <3>1, <3>2, <3>3 DEF Rest
  <2>6. CASE DeleteIoContext(t)
    <3>1. InKernel(s)' = InKernel(s) /\ issueRef' = issueRef
      BY <2>6 DEF DeleteIoContext, InKernel
    <3>2. /\ Holds(t, s) = IF s = hand[t].session THEN 1 ELSE 0
          /\ Holds(t, s)' = 0
      BY <1>0, <2>6 DEF DeleteIoContext
    <3>3. mRefCount'[s] = IF s = hand[t].session THEN mRefCount[s] - 1 ELSE mRefCount[s]
      BY <1>0, <2>6 DEF DeleteIoContext, CountTypes
    <3> QED
      BY <1>a, <3>1, <3>2, <3>3 DEF Rest
  <2>7. CASE ReturnClientSession(t)
    BY <1>0, <2>7 DEF ReturnClientSession, InKernel
  <2>8. CASE SessionReset(t)
    <3>1. mRefCount[hand[t].session] = 0
      BY <2>8 DEF SessionReset, SessionInv, ReturnInv, Returning
    <3>2. InKernel(s)' = InKernel(s) /\ issueRef' = issueRef /\ mRefCount'[s] = mRefCount[s]
      BY <1>0, <2>8, <3>1 DEF SessionReset, InKernel, CountTypes
    <3>3. Holds(t, s)' = 0 /\ Holds(t, s) = 0
      BY <1>0, <2>8 DEF SessionReset
    <3> QED
      BY <3>2, <3>3 DEF Rest
  <2> QED
    BY <1>4, <2>1, <2>2, <2>3, <2>4, <2>5, <2>6, <2>7, <2>8 DEF Serve
<1>5. CASE UNCHANGED vars
  BY <1>5 DEF vars, SessionInv, RefCountIsExact, InKernel, InHand
<1> QED
  BY <1>0, <1>1, <1>2, <1>3, <1>4, <1>5, OneThreadMoves, ThreadKeepsCount DEF Next, MainStep

\* Who returns a session finds it as the assertion wants it.
LEMMA ReturningIsSafe == SessionInv => ReturnIsSafe
<1> SUFFICES ASSUME SessionInv, NEW t \in IoThread, Returning(t)
             PROVE  LET s == hand[t].session
                    IN  /\ mConnected[s] = 0 /\ mRefCount[s] = 0
                        /\ InKernel(s) = 0 /\ InHand(s) = {}
                        /\ ~Pooled(s)
                        /\ \A u \in IoThread : Returning(u) /\ hand[u].session = s => u = t
  BY DEF ReturnIsSafe, Returning
<1> DEFINE s == hand[t].session
<1>1. s \in Session
  BY DEF SessionInv, HandInv, Returning
<1>2. mRefCount[s] = 0 /\ \A u \in IoThread : Returning(u) /\ hand[u].session = s => u = t
  BY DEF SessionInv, ReturnInv
<1>3. IsFiniteSet(InHand(s)) /\ Cardinality(InHand(s)) \in Nat
  BY ThreadAssumption, FS_Subset, FS_CardinalityType DEF InHand
<1>4. mRefCount[s] = issueRef[s] + InKernel(s) + Cardinality(InHand(s))
  BY <1>1 DEF SessionInv, RefCountIsExact
<1>5. InKernel(s) \in Nat /\ issueRef[s] \in Nat
  BY <1>1, KernelType, StageType DEF SessionInv
<1>6. InKernel(s) = 0 /\ issueRef[s] = 0 /\ Cardinality(InHand(s)) = 0
  BY <1>2, <1>3, <1>4, <1>5
<1>7. InHand(s) = {}
  BY <1>3, <1>6, FS_EmptySet
<1>8. mConnected[s] = 0
  <2>1. /\ Cardinality(ThreadsAt(s, {"accept"})) \in Nat
        /\ Cardinality(ThreadsAt(s, {"disconnectEx"})) \in Nat
        /\ Cardinality(ThreadsAt(s, {"completion"})) \in Nat
    BY PlaceType
  <2>2. /\ posted[s]["IO_ACCEPT"] \in Nat /\ posted[s]["IO_DISCONNECT"] \in Nat
        /\ mConnected[s] \in Nat
    BY <1>1, StageType DEF SessionInv
  <2>3. Stage(s) <= 0
    BY <1>1, <1>6 DEF SessionInv, OneStagePerIssue
  <2> QED
    BY <2>1, <2>2, <2>3 DEF Stage
<1>9. ~Pooled(s)
  BY DEF SessionInv, PoolInv, Pooled
<1> QED
  BY <1>2, <1>6, <1>7, <1>8, <1>9

-----------------------------------------------------------------------------
(***************************************************************************)
(* An issue is in one stage at a time.                                     *)
(***************************************************************************)
StageTypes ==
  /\ mConnected \in [Session -> {0, 1}]
  /\ posted \in [Session -> [IOType -> Nat]]
  /\ issueRef \in [Session -> {0, 1}]

\* What the issue leaves for the threads other than t and for Main.
InStage(t, s) ==
  IF hand[t].session = s /\ pc[t] \in {"accept", "disconnectEx", "completion"} THEN 1 ELSE 0
Gap(t, s) ==
  issueRef[s] - (posted[s]["IO_ACCEPT"] + posted[s]["IO_DISCONNECT"] + mConnected[s]
                   + InStage(t, s))

LEMMA ThreadKeepsStage ==
  ASSUME SessionInv, StageTypes', NEW t \in IoThread, OnlyMoves(t),
         UNCHANGED <<pc[Main], hand[Main]>>,
         lost \subseteq lost',
         \A s \in Session : Gap(t, s)' >= Gap(t, s) /\ (s \notin lost' => Gap(t, s)' = Gap(t, s))
  PROVE  OneStagePerIssue'
<1> SUFFICES ASSUME NEW s \in Session
             PROVE  /\ Stage(s)' <= issueRef'[s]
                    /\ s \notin lost' => Stage(s)' = issueRef'[s]
  BY DEF OneStagePerIssue
<1> DEFINE A == ThreadsAt(s, {"accept"})
           X == ThreadsAt(s, {"disconnectEx"})
           C == ThreadsAt(s, {"completion"})
           M == IF pc[Main] = "postAccept" /\ hand[Main].session = s THEN 1 ELSE 0
<1>1. /\ Cardinality(A) \in Nat /\ Cardinality(X) \in Nat /\ Cardinality(C) \in Nat
      /\ Cardinality(A)' \in Nat /\ Cardinality(X)' \in Nat /\ Cardinality(C)' \in Nat
      /\ Cardinality(A)' = Cardinality(A) + In(t, A)' - In(t, A)
      /\ Cardinality(X)' = Cardinality(X) + In(t, X)' - In(t, X)
      /\ Cardinality(C)' = Cardinality(C) + In(t, C)' - In(t, C)
  BY PlaceCount
<1>2. In(t, A) + In(t, X) + In(t, C) = InStage(t, s)
  BY DEF In, ThreadsAt, InStage
<1>3. In(t, A)' + In(t, X)' + In(t, C)' = InStage(t, s)'
  BY DEF In, ThreadsAt, InStage
<1>4. /\ In(t, A) \in Nat /\ In(t, X) \in Nat /\ In(t, C) \in Nat
      /\ In(t, A)' \in Nat /\ In(t, X)' \in Nat /\ In(t, C)' \in Nat
  BY DEF In
<1>5. M' = M /\ M \in Nat
  OBVIOUS
<1>6. /\ posted[s]["IO_ACCEPT"] \in Nat /\ posted[s]["IO_DISCONNECT"] \in Nat
      /\ mConnected[s] \in Nat /\ issueRef[s] \in Nat
  BY StageType DEF SessionInv
<1>7. /\ posted'[s]["IO_ACCEPT"] \in Nat /\ posted'[s]["IO_DISCONNECT"] \in Nat
      /\ mConnected'[s] \in Nat /\ issueRef'[s] \in Nat
  BY DEF StageTypes, IOType
<1>8. Stage(s) <= issueRef[s] /\ (s \notin lost' => Stage(s) = issueRef[s])
  BY DEF SessionInv, OneStagePerIssue
<1>9. Stage(s) = M + posted[s]["IO_ACCEPT"] + Cardinality(A) + mConnected[s] + Cardinality(X)
                   + posted[s]["IO_DISCONNECT"] + Cardinality(C)
  BY DEF Stage
<1>10. Stage(s)' = M' + posted'[s]["IO_ACCEPT"] + Cardinality(A)' + mConnected'[s]
                     + Cardinality(X)' + posted'[s]["IO_DISCONNECT"] + Cardinality(C)'
  BY DEF Stage
<1>11. Gap(t, s)' >= Gap(t, s) /\ (s \notin lost' => Gap(t, s)' = Gap(t, s))
  OBVIOUS
<1>12. /\ InStage(t, s) \in Nat /\ InStage(t, s)' \in Nat
       /\ Gap(t, s) = issueRef[s] - (posted[s]["IO_ACCEPT"] + posted[s]["IO_DISCONNECT"]
                                       + mConnected[s] + InStage(t, s))
       /\ Gap(t, s)' = issueRef'[s] - (posted'[s]["IO_ACCEPT"] + posted'[s]["IO_DISCONNECT"]
                                         + mConnected'[s] + InStage(t, s)')
  BY DEF Gap, InStage
<1> HIDE DEF A, X, C, M
<1> DEFINE others == M + Cardinality(A) + Cardinality(X) + Cardinality(C) - InStage(t, s)
<1>13. /\ others \in Int /\ Gap(t, s) \in Int /\ Gap(t, s)' \in Int
       /\ Stage(s) = issueRef[s] + others - Gap(t, s)
  BY <1>1, <1>5, <1>6, <1>7, <1>9, <1>12
<1>14. Stage(s)' = issueRef'[s] + others - Gap(t, s)'
  <2>1. Cardinality(A)' + Cardinality(X)' + Cardinality(C)' - InStage(t, s)'
          = Cardinality(A) + Cardinality(X) + Cardinality(C) - InStage(t, s)
    BY <1>1, <1>2, <1>3, <1>4, <1>12
  <2>2. others = M' + Cardinality(A)' + Cardinality(X)' + Cardinality(C)' - InStage(t, s)'
    BY <1>1, <1>5, <1>12, <2>1
  <2> QED
    BY <1>1, <1>5, <1>7, <1>10, <1>12, <2>2
<1> HIDE DEF others
<1>15. Stage(s)' <= issueRef'[s]
  BY <1>6, <1>7, <1>8, <1>11, <1>13, <1>14
<1>16. ASSUME s \notin lost' PROVE Stage(s)' = issueRef'[s]
  <2>1. Stage(s) = issueRef[s] /\ Gap(t, s)' = Gap(t, s)
    BY <1>8, <1>11, <1>16
  <2> QED
    BY <1>6, <1>7, <1>13, <1>14, <2>1
<1> QED
  BY <1>15, <1>16

LEMMA StageStep == SessionInv /\ [Next]_vars => OneStagePerIssue'
<1> SUFFICES ASSUME SessionInv, [Next]_vars PROVE OneStagePerIssue'
  OBVIOUS
<1>0. TypeOK /\ HandInv /\ OneStagePerIssue /\ CountTypes'
  BY CountTypesStep DEF SessionInv
<1>a. \A s \in Session :
        /\ posted[s]["IO_ACCEPT"] \in Nat /\ posted[s]["IO_DISCONNECT"] \in Nat
        /\ mConnected[s] \in {0, 1} /\ issueRef[s] \in {0, 1}
  BY StageType DEF SessionInv
<1>b. StageTypes'
  <2>1. mConnected' \in [Session -> {0, 1}]
    BY <1>0 DEF TypeOK, Next, MainStep, Serve, vars, AcceptSessions, IssueSession, PostAccept,
       PostAcceptFails, AllIssued, GetCompletion, AcceptCompletion, CheckConnected, PostNextIo,
       PostNextIoFails, DisconnectRequest, DisconnectEx, DisconnectExFails,
       DisconnectCompletion, DeleteIoContext, ReturnClientSession, SessionReset
  <2> QED
    BY <1>0, <2>1 DEF CountTypes, StageTypes
<1>c. lost \subseteq lost'
  BY DEF Next, MainStep, Serve, vars, AcceptSessions, IssueSession, PostAccept,
     PostAcceptFails, AllIssued, GetCompletion, AcceptCompletion, CheckConnected, PostNextIo,
     PostNextIoFails, DisconnectRequest, DisconnectEx, DisconnectExFails,
     DisconnectCompletion, DeleteIoContext, ReturnClientSession, SessionReset
<1>1. CASE MainStep
  <2> SUFFICES ASSUME NEW s \in Session
               PROVE  /\ Stage(s)' <= issueRef'[s]
                      /\ s \notin lost' => Stage(s)' = issueRef'[s]
    BY DEF OneStagePerIssue
  <2> DEFINE A == Cardinality(ThreadsAt(s, {"accept"}))
             X == Cardinality(ThreadsAt(s, {"disconnectEx"}))
             C == Cardinality(ThreadsAt(s, {"completion"}))
             M == IF pc[Main] = "postAccept" /\ hand[Main].session = s THEN 1 ELSE 0
  <2>1. A' = A /\ X' = X /\ C' = C /\ A \in Nat /\ X \in Nat /\ C \in Nat
    BY <1>0, <1>1, MainMoves, PlaceType DEF ThreadsAt
  <2>2. M \in Nat /\ M' \in Nat
    OBVIOUS
  <2>3. Stage(s) = M + posted[s]["IO_ACCEPT"] + A + mConnected[s] + X + posted[s]["IO_DISCONNECT"] + C
    BY DEF Stage
  <2>4. Stage(s)' = M' + posted'[s]["IO_ACCEPT"] + A' + mConnected'[s] + X'
                       + posted'[s]["IO_DISCONNECT"] + C'
    BY DEF Stage
  <2>5. Stage(s) <= issueRef[s] /\ (s \notin lost' => Stage(s) = issueRef[s])
    BY <1>0, <1>c DEF OneStagePerIssue
  <2>6. LET before == M + posted[s]["IO_ACCEPT"] - issueRef[s]
            after == M' + posted'[s]["IO_ACCEPT"] - issueRef'[s]
        IN  after <= before /\ (s \notin lost' => after = before)
    <3>1. CASE AcceptSessions \/ AllIssued
      <4>1. UNCHANGED <<posted, issueRef>>
        BY <3>1 DEF AcceptSessions, AllIssued
      <4>2. M = 0 /\ M' = 0
        BY <1>0, <3>1 DEF AcceptSessions, AllIssued, Goto, TypeOK
      <4> QED
        BY <1>a, <4>1, <4>2
    <3>2. CASE PostAcceptFails
      <4>1. UNCHANGED <<posted, issueRef>>
        BY <3>2 DEF PostAcceptFails
      <4>2. M' = 0 /\ (s \notin lost' => M = 0)
        BY <1>0, <3>2 DEF PostAcceptFails, Goto, TypeOK
      <4> QED
        BY <1>a, <2>2, <4>1, <4>2
    <3>3. CASE IssueSession
      <4> DEFINE c == mFreeSessionList[Len(mFreeSessionList)]
      <4>1. c \in Session /\ issueRef[c] = 0
        BY <1>0, <3>3, IssuedFromPool, PooledIsIdle DEF IssueSession
      <4>2. M = 0 /\ M' = IF s = c THEN 1 ELSE 0
        BY <1>0, <3>3 DEF IssueSession, Goto, TypeOK
      <4>3. posted' = posted /\ issueRef'[s] = IF s = c THEN 1 ELSE issueRef[s]
        BY <1>0, <3>3 DEF IssueSession, TypeOK
      <4> QED
        BY <1>a, <4>1, <4>2, <4>3
    <3>4. CASE PostAccept
      <4>1. hand[Main].session \in Session /\ Post(hand[Main].session, "IO_ACCEPT")
        BY <1>0, <3>4 DEF PostAccept, HandInv, Goto
      <4>2. posted'[s]["IO_ACCEPT"] =
              IF s = hand[Main].session THEN posted[s]["IO_ACCEPT"] + 1 ELSE posted[s]["IO_ACCEPT"]
        BY <1>0, <4>1, PostCount DEF IOType
      <4>3. M = (IF s = hand[Main].session THEN 1 ELSE 0) /\ M' = 0 /\ issueRef' = issueRef
        BY <1>0, <3>4 DEF PostAccept, Goto, TypeOK
      <4> QED
        BY <1>a, <4>2, <4>3
    <3> QED
      BY <1>1, <3>1, <3>2, <3>3, <3>4 DEF MainStep
  <2>7. mConnected' = mConnected /\ posted'[s]["IO_DISCONNECT"] = posted[s]["IO_DISCONNECT"]
    <3>1. CASE PostAccept
      <4>1. hand[Main].session \in Session /\ Post(hand[Main].session, "IO_ACCEPT")
        BY <1>0, <3>1 DEF PostAccept, HandInv, Goto
      <4> QED
        BY <1>0, <3>1, <4>1, PostCount DEF PostAccept, IOType
    <3>2. CASE AcceptSessions \/ AllIssued \/ PostAcceptFails \/ IssueSession
      BY <3>2 DEF AcceptSessions, AllIssued, PostAcceptFails, IssueSession
    <3> QED
      BY <1>1, <3>1, <3>2 DEF MainStep
  <2>8. posted'[s]["IO_ACCEPT"] \in Nat /\ issueRef'[s] \in Nat
    BY <1>b DEF StageTypes, IOType
  <2> HIDE DEF A, X, C, M
  <2>9. Stage(s)' <= issueRef'[s]
    BY <1>a, <2>1, <2>2, <2>3, <2>4, <2>5, <2>6, <2>7, <2>8
  <2>10. ASSUME s \notin lost' PROVE Stage(s)' = issueRef'[s]
    <3>1. /\ Stage(s) = issueRef[s]
          /\ M' + posted'[s]["IO_ACCEPT"] - issueRef'[s] = M + posted[s]["IO_ACCEPT"] - issueRef[s]
      BY <2>5, <2>6, <2>10
    <3> DEFINE rest == A + mConnected[s] + X + posted[s]["IO_DISCONNECT"] + C
    <3>2. rest \in Nat /\ Stage(s) = M + posted[s]["IO_ACCEPT"] + rest
      BY <1>a, <2>1, <2>2, <2>3
    <3>3. Stage(s)' = M' + posted'[s]["IO_ACCEPT"] + rest
      BY <1>a, <2>1, <2>2, <2>4, <2>7, <2>8
    <3> HIDE DEF rest
    <3> QED
      BY <1>a, <2>2, <2>8, <3>1, <3>2, <3>3
  <2> QED
    BY <2>9, <2>10
<1>2. ASSUME NEW t \in IoThread,
             Serve(t) \/ \E s \in Session, io \in IOType : GetCompletion(t, s, io)
      PROVE  UNCHANGED <<pc[Main], hand[Main]>>
  BY <1>0, <1>2, ThreadsDiffer
  DEF Serve, GetCompletion, AcceptCompletion, CheckConnected, PostNextIo, PostNextIoFails,
      DisconnectRequest, DisconnectEx, DisconnectExFails, DisconnectCompletion, DeleteIoContext,
      ReturnClientSession, SessionReset, Goto, TypeOK
<1>3. ASSUME NEW t \in IoThread,
             Serve(t) \/ \E s \in Session, io \in IOType : GetCompletion(t, s, io)
      PROVE  \A s \in Session :
               Gap(t, s)' >= Gap(t, s) /\ (s \notin lost' => Gap(t, s)' = Gap(t, s))
  <2> SUFFICES ASSUME NEW s \in Session
               PROVE  Gap(t, s)' >= Gap(t, s) /\ (s \notin lost' => Gap(t, s)' = Gap(t, s))
    OBVIOUS
  <2>a. InStage(t, s) \in {0, 1}
    BY DEF InStage
  <2>1. ASSUME NEW r \in Session, NEW io \in IOType, GetCompletion(t, r, io)
        PROVE  Gap(t, s)' >= Gap(t, s) /\ (s \notin lost' => Gap(t, s)' = Gap(t, s))
    <3>1. \A j \in IOType :
            posted'[s][j] = IF s = r /\ j = io THEN posted[s][j] - 1 ELSE posted[s][j]
      BY <1>0, <2>1, TakeCount DEF GetCompletion
    <3>2. /\ InStage(t, s) = 0
          /\ InStage(t, s)' = IF s = r /\ io \in {"IO_ACCEPT", "IO_DISCONNECT"} THEN 1 ELSE 0
      BY <1>0, <2>1 DEF GetCompletion, InStage, Goto, TypeOK
    <3>3. UNCHANGED <<mConnected, issueRef>>
      BY <2>1 DEF GetCompletion
    <3> QED
      BY <1>a, <3>1, <3>2, <3>3 DEF Gap, IOType
  <2>2. CASE AcceptCompletion(t)
    <3>1. UNCHANGED <<posted, issueRef>>
      BY <2>2 DEF AcceptCompletion
    <3>2. mConnected'[s] = IF s = hand[t].session THEN 1 ELSE mConnected[s]
      BY <1>0, <2>2 DEF AcceptCompletion, TypeOK
    <3>3. mConnected[hand[t].session] = 0
      BY <2>2, OnlyStage DEF AcceptCompletion, Goto
    <3>4. InStage(t, s) = (IF s = hand[t].session THEN 1 ELSE 0) /\ InStage(t, s)' = 0
      BY <1>0, <2>2 DEF AcceptCompletion, InStage, Goto, TypeOK
    <3> QED
      BY <1>a, <3>1, <3>2, <3>3, <3>4 DEF Gap
  <2>3. CASE PostNextIo(t)
    <3>1. /\ hand[t].session \in Session
          /\ NextIo[hand[t].type] \in {"IO_RECV_ZERO", "IO_RECV", "IO_SEND"}
          /\ Post(hand[t].session, NextIo[hand[t].type])
      BY <1>0, <2>3 DEF PostNextIo, HandInv, NextIo, Goto, TypeOK, IOType
    <3>2. /\ posted'[s]["IO_ACCEPT"] = posted[s]["IO_ACCEPT"]
          /\ posted'[s]["IO_DISCONNECT"] = posted[s]["IO_DISCONNECT"]
      BY <1>0, <3>1, PostCount DEF IOType
    <3>3. UNCHANGED <<mConnected, issueRef>> /\ InStage(t, s) = 0 /\ InStage(t, s)' = 0
      BY <1>0, <2>3 DEF PostNextIo, InStage, Goto, TypeOK
    <3> QED
      BY <1>a, <3>2, <3>3 DEF Gap
  <2>4. CASE DisconnectRequest(t)
    <3>1. UNCHANGED <<posted, issueRef>>
      BY <2>4 DEF DisconnectRequest
    <3>2. mConnected'[s] = IF s = hand[t].session THEN 0 ELSE mConnected[s]
      BY <1>0, <2>4 DEF DisconnectRequest, TypeOK
    <3>3. /\ InStage(t, s) = 0
          /\ InStage(t, s)' = IF s = hand[t].session /\ mConnected[s] # 0 THEN 1 ELSE 0
      BY <1>0, <2>4 DEF DisconnectRequest, InStage, Goto, TypeOK
    <3> QED
      BY <1>a, <3>1, <3>2, <3>3 DEF Gap
  <2>5. CASE DisconnectEx(t)
    <3>1. hand[t].session \in Session /\ Post(hand[t].session, "IO_DISCONNECT")
      BY <1>0, <2>5 DEF DisconnectEx, HandInv, Goto
    <3>2. /\ posted'[s]["IO_ACCEPT"] = posted[s]["IO_ACCEPT"]
          /\ posted'[s]["IO_DISCONNECT"] =
               IF s = hand[t].session THEN posted[s]["IO_DISCONNECT"] + 1 ELSE posted[s]["IO_DISCONNECT"]
      BY <1>0, <3>1, PostCount DEF IOType
    <3>3. /\ UNCHANGED <<mConnected, issueRef>>
          /\ InStage(t, s) = IF s = hand[t].session THEN 1 ELSE 0
          /\ InStage(t, s)' = 0
      BY <1>0, <2>5 DEF DisconnectEx, InStage, Goto, TypeOK
    <3> QED
      BY <1>a, <3>2, <3>3 DEF Gap
  <2>6. CASE DisconnectCompletion(t)
    <3>1. UNCHANGED <<posted, mConnected>>
      BY <2>6 DEF DisconnectCompletion
    <3>2. issueRef'[s] = IF s = hand[t].session THEN 0 ELSE issueRef[s]
      BY <1>0, <2>6 DEF DisconnectCompletion, TypeOK
    <3>3. InStage(t, s) = (IF s = hand[t].session THEN 1 ELSE 0) /\ InStage(t, s)' = 0
      BY <1>0, <2>6 DEF DisconnectCompletion, InStage, Goto, TypeOK
    <3>4. issueRef[hand[t].session] = 1
      BY <2>6, OnlyStage DEF DisconnectCompletion, Goto
    <3> QED
      BY <1>a, <3>1, <3>2, <3>3, <3>4 DEF Gap
  <2>7. CASE SessionReset(t)
    <3>1. UNCHANGED <<posted, issueRef>>
      BY <2>7 DEF SessionReset
    <3>2. mConnected[hand[t].session] = 0
      BY <2>7, ReturningIsSafe DEF ReturnIsSafe, SessionReset, Goto
    <3>3. mConnected'[s] = mConnected[s]
      BY <1>0, <2>7, <3>2 DEF SessionReset, TypeOK
    <3>4. InStage(t, s) = 0 /\ InStage(t, s)' = 0
      BY <1>0, <2>7 DEF SessionReset, InStage, Goto, TypeOK
    <3> QED
      BY <1>a, <3>1, <3>3, <3>4 DEF Gap
  <2>8. CASE CheckConnected(t) \/ PostNextIoFails(t) \/ DeleteIoContext(t) \/ ReturnClientSession(t)
    <3>1. UNCHANGED <<posted, issueRef, mConnected>>
      BY <2>8 DEF CheckConnected, PostNextIoFails, DeleteIoContext, ReturnClientSession
    <3>2. InStage(t, s) = 0 /\ InStage(t, s)' = 0
      BY <1>0, <2>8 DEF CheckConnected, PostNextIoFails, DeleteIoContext, ReturnClientSession,
                  InStage, Goto, TypeOK
    <3> QED
      BY <1>a, <3>1, <3>2 DEF Gap
  <2>9. CASE DisconnectExFails(t)
    <3>1. UNCHANGED <<posted, issueRef, mConnected>>
      BY <2>9 DEF DisconnectExFails
    <3>2. InStage(t, s)' = 0 /\ (s \notin lost' => InStage(t, s) = 0)
      BY <1>0, <2>9 DEF DisconnectExFails, InStage, Goto, TypeOK
    <3> QED
      BY <1>a, <2>a, <3>1, <3>2 DEF Gap
  <2> QED
    BY <1>3, <2>1, <2>2, <2>3, <2>4, <2>5, <2>6, <2>7, <2>8, <2>9 DEF Serve
<1>4. CASE UNCHANGED vars
  BY <1>0, <1>4 DEF vars, OneStagePerIssue, Stage, ThreadsAt
<1> QED
  BY <1>0, <1>b, <1>c, <1>1, <1>2, <1>3, <1>4, OneThreadMoves, ThreadKeepsStage DEF Next

-----------------------------------------------------------------------------
(***************************************************************************)
(* Who returns a session is alone with it.                                 *)
(***************************************************************************)
\* The session that Main posts an accept for is referenced.
LEMMA MainHolds ==
  ASSUME SessionInv, pc[Main] = "postAccept"
  PROVE  mRefCount[hand[Main].session] > 0
<1> DEFINE s == hand[Main].session
<1>1. s \in Session /\ Stage(s) <= issueRef[s]
  BY DEF SessionInv, HandInv, OneStagePerIssue
<1>2. /\ Cardinality(ThreadsAt(s, {"accept"})) \in Nat
      /\ Cardinality(ThreadsAt(s, {"disconnectEx"})) \in Nat
      /\ Cardinality(ThreadsAt(s, {"completion"})) \in Nat
  BY PlaceType
<1>3. /\ posted[s]["IO_ACCEPT"] \in Nat /\ posted[s]["IO_DISCONNECT"] \in Nat
      /\ mConnected[s] \in Nat /\ issueRef[s] \in Nat
  BY <1>1, StageType DEF SessionInv
<1>4. Stage(s) \in Nat /\ Stage(s) >= 1
  BY <1>2, <1>3 DEF Stage
<1>5. Cardinality(InHand(s)) \in Nat
  BY ThreadAssumption, FS_Subset, FS_CardinalityType DEF InHand
<1>6. InKernel(s) \in Nat
  BY <1>1, KernelType DEF SessionInv
<1>7. mRefCount[s] = issueRef[s] + InKernel(s) + Cardinality(InHand(s))
  BY <1>1 DEF SessionInv, RefCountIsExact
<1> QED
  BY <1>1, <1>3, <1>4, <1>5, <1>6, <1>7

\* A count of 0 leaves 0 by an issue only.
LEMMA ZeroStays ==
  ASSUME SessionInv, [Next]_vars, NEW s \in Session, mRefCount[s] = 0, mRefCount'[s] # 0
  PROVE  IssueSession /\ s = mFreeSessionList[Len(mFreeSessionList)]
<1>0. TypeOK /\ HandInv
  BY DEF SessionInv
<1>1. CASE AcceptSessions \/ PostAcceptFails \/ AllIssued
  BY <1>1 DEF AcceptSessions, PostAcceptFails, AllIssued
<1>2. CASE IssueSession
  BY <1>0, <1>2 DEF IssueSession, TypeOK
<1>3. CASE PostAccept
  BY <1>0, <1>3, MainHolds DEF PostAccept, Post, Goto, TypeOK
<1>4. ASSUME NEW t \in IoThread, PostNextIo(t) \/ DisconnectEx(t) PROVE FALSE
  <2>1. PICK io : Post(hand[t].session, io)
    BY <1>4 DEF PostNextIo, DisconnectEx
  <2>2. hand[t].session \in Session /\ mRefCount[hand[t].session] # 0
    BY <1>4, ServingHolds DEF PostNextIo, DisconnectEx, Goto
  <2>3. s # hand[t].session
    BY <2>2
  <2> QED
    BY <1>0, <2>1, <2>3 DEF Post, TypeOK
<1>5. ASSUME NEW t \in IoThread, DisconnectCompletion(t) \/ DeleteIoContext(t) PROVE FALSE
  <2>1. hand[t].session \in Session /\ mRefCount[hand[t].session] # 0
    BY <1>5, ServingHolds DEF DisconnectCompletion, DeleteIoContext, Goto
  <2>2. s # hand[t].session
    BY <2>1
  <2> QED
    BY <1>0, <1>5, <2>2 DEF DisconnectCompletion, DeleteIoContext, TypeOK
<1>6. ASSUME NEW t \in IoThread, SessionReset(t) PROVE FALSE
  BY <1>0, <1>6 DEF SessionReset, TypeOK
<1>7. ASSUME NEW t \in IoThread,
             \/ AcceptCompletion(t) \/ CheckConnected(t) \/ PostNextIoFails(t)
             \/ DisconnectRequest(t) \/ DisconnectExFails(t) \/ ReturnClientSession(t)
             \/ \E r \in Session, io \in IOType : GetCompletion(t, r, io)
      PROVE  FALSE
  BY <1>7 DEF AcceptCompletion, CheckConnected, PostNextIoFails, DisconnectRequest,
              DisconnectExFails, ReturnClientSession, GetCompletion
<1>8. CASE UNCHANGED vars
  BY <1>8 DEF vars
<1> QED
  BY <1>1, <1>2, <1>3, <1>4, <1>5, <1>6, <1>7, <1>8 DEF Next, MainStep, Serve

\* A thread comes to ReturnClientSession by dropping the last reference only.
LEMMA BecomesReturning ==
  ASSUME SessionInv, [Next]_vars, NEW t \in IoThread, Returning(t)'
  PROVE  /\ hand'[t] = hand[t]
         /\ hand[t].session \in Session
         /\ \/ Returning(t)
            \/ DeleteIoContext(t) /\ mRefCount[hand[t].session] = 1
<1>0. TypeOK /\ HandInv
  BY DEF SessionInv
<1>1. CASE MainStep
  BY <1>0, <1>1, MainMoves DEF Returning, HandInv
<1>2. ASSUME NEW u \in IoThread, u # t,
             Serve(u) \/ \E s \in Session, io \in IOType : GetCompletion(u, s, io)
      PROVE  Returning(t) /\ hand'[t] = hand[t] /\ hand[t].session \in Session
  BY <1>0, <1>2, OneThreadMoves DEF OnlyMoves, Returning, HandInv
<1>3. CASE DeleteIoContext(t)
  BY <1>0, <1>3 DEF DeleteIoContext, Returning, HandInv, Goto, TypeOK
<1>4. CASE ReturnClientSession(t)
  BY <1>0, <1>4 DEF ReturnClientSession, Returning, HandInv, Goto, TypeOK
<1>5. CASE \/ AcceptCompletion(t) \/ CheckConnected(t) \/ PostNextIo(t) \/ PostNextIoFails(t)
           \/ DisconnectRequest(t) \/ DisconnectEx(t) \/ DisconnectExFails(t)
           \/ DisconnectCompletion(t) \/ SessionReset(t)
           \/ \E s \in Session, io \in IOType : GetCompletion(t, s, io)
  BY <1>0, <1>5
  DEF AcceptCompletion, CheckConnected, PostNextIo, PostNextIoFails, DisconnectRequest,
      DisconnectEx, DisconnectExFails, DisconnectCompletion, SessionReset, GetCompletion,
      Returning, Goto, TypeOK
<1>6. CASE UNCHANGED vars
  BY <1>0, <1>6 DEF vars, Returning, HandInv
<1> QED
  BY <1>1, <1>2, <1>3, <1>4, <1>5, <1>6 DEF Next, Serve

LEMMA ReturnStep == SessionInv /\ [Next]_vars => ReturnInv'
<1> SUFFICES ASSUME SessionInv, [Next]_vars, NEW t \in IoThread, Returning(t)'
             PROVE  /\ mRefCount'[hand'[t].session] = 0
                    /\ \A u \in IoThread :
                         Returning(u)' /\ hand'[u].session = hand'[t].session => u = t
  BY DEF ReturnInv, Returning
<1> DEFINE s == hand[t].session
<1>1. hand'[t] = hand[t] /\ s \in Session
  BY BecomesReturning
<1>2. CASE Returning(t)
  <2>1. mRefCount[s] = 0
    BY <1>2 DEF SessionInv, ReturnInv
  <2>2. mRefCount'[s] = 0
    <3> SUFFICES ASSUME mRefCount'[s] # 0 PROVE FALSE
      OBVIOUS
    <3>1. IssueSession /\ s = mFreeSessionList[Len(mFreeSessionList)]
      BY <1>1, <2>1, ZeroStays
    <3>2. Len(mFreeSessionList) \in 1..Len(mFreeSessionList)
      BY <3>1, IssuedFromPool DEF IssueSession
    <3> QED
      BY <1>2, <3>1, <3>2 DEF SessionInv, PoolInv
  <2>3. ASSUME NEW u \in IoThread, Returning(u)', hand'[u].session = hand'[t].session
        PROVE  u = t
    <3>1. hand[u].session = s
      BY <1>1, <2>3, BecomesReturning
    <3>2. Returning(u)
      BY <2>1, <2>3, <3>1, BecomesReturning
    <3> QED
      BY <1>2, <3>1, <3>2 DEF SessionInv, ReturnInv
  <2> QED
    BY <1>1, <2>2, <2>3
<1>3. CASE DeleteIoContext(t) /\ mRefCount[s] = 1
  <2>1. mRefCount'[s] = 0
    BY <1>1, <1>3 DEF DeleteIoContext, SessionInv, TypeOK
  <2>2. ASSUME NEW u \in IoThread, Returning(u)', hand'[u].session = hand'[t].session
        PROVE  u = t
    <3>1. hand[u].session = s
      BY <1>1, <2>2, BecomesReturning
    <3>2. ~Returning(u)
      BY <1>3, <3>1 DEF SessionInv, ReturnInv
    <3>3. DeleteIoContext(u)
      BY <2>2, <3>2, BecomesReturning
    <3> SUFFICES ASSUME u # t PROVE FALSE
      OBVIOUS
    <3>4. pc'[u] = pc[u]
      BY <1>3, OneThreadMoves DEF Serve, OnlyMoves, SessionInv
    <3> QED
      BY <2>2, <3>3, <3>4 DEF DeleteIoContext, Goto, Returning
  <2> QED
    BY <1>1, <2>1, <2>2
<1> QED
  BY <1>2, <1>3, BecomesReturning

-----------------------------------------------------------------------------
(***************************************************************************)
(* The pool.                                                               *)
(***************************************************************************)
\* The session taken from the back leaves the list, the one returned joins it.
LEMMA ListChange ==
  ASSUME SessionInv, [Next]_vars
  PROVE  \/ UNCHANGED <<mFreeSessionList, mCurrentlyIssued>>
         \/ /\ IssueSession
            /\ Len(mFreeSessionList) \in 1..Len(mFreeSessionList)
            /\ Len(mFreeSessionList') = Len(mFreeSessionList) - 1
            /\ \A i \in 1..Len(mFreeSessionList') : mFreeSessionList'[i] = mFreeSessionList[i]
         \/ \E t \in IoThread :
              /\ SessionReset(t)
              /\ Returning(t) /\ hand[t].session \in Session
              /\ Len(mFreeSessionList') = Len(mFreeSessionList) + 1
              /\ \A i \in 1..Len(mFreeSessionList) : mFreeSessionList'[i] = mFreeSessionList[i]
              /\ mFreeSessionList'[Len(mFreeSessionList')] = hand[t].session
<1>0. mFreeSessionList \in Seq(Session) /\ HandInv
  BY DEF SessionInv, TypeOK
<1>1. CASE IssueSession
  <2> DEFINE n == Len(mFreeSessionList)
  <2>1. n \in 1..n /\ n \in Nat
    BY <1>0, <1>1, IssuedFromPool DEF IssueSession
  <2>2. mFreeSessionList' = SubSeq(mFreeSessionList, 1, n - 1)
    BY <1>1 DEF IssueSession
  <2>3. \A i \in 1..(n - 1) : mFreeSessionList[i] \in Session
    BY <1>0, <2>1
  <2>4. /\ Len(SubSeq(mFreeSessionList, 1, n - 1)) = IF 1 <= n - 1 THEN n - 1 - 1 + 1 ELSE 0
        /\ \A i \in 1 .. (n - 1) - 1 + 1 : SubSeq(mFreeSessionList, 1, n - 1)[i] = mFreeSessionList[1 + i - 1]
    <3>1. 1 \in Int /\ n - 1 \in Int
      BY <2>1
    <3> HIDE DEF n
    <3> QED
      BY <2>3, <3>1, SubSeqProperties
  <2>5. Len(mFreeSessionList') = n - 1
    <3>1. n \in Nat /\ n >= 1
      BY <2>1
    <3>2. Len(mFreeSessionList') = IF 1 <= n - 1 THEN n - 1 - 1 + 1 ELSE 0
      BY <2>2, <2>4, Zenon
    <3> HIDE DEF n
    <3> QED
      BY <3>1, <3>2
  <2>6. \A i \in 1..(n - 1) : mFreeSessionList'[i] = mFreeSessionList[i]
    BY <2>1, <2>2, <2>4
  <2> QED
    BY <1>1, <2>1, <2>5, <2>6
<1>2. ASSUME NEW t \in IoThread, SessionReset(t)
      PROVE  /\ Returning(t) /\ hand[t].session \in Session
             /\ Len(mFreeSessionList') = Len(mFreeSessionList) + 1
             /\ \A i \in 1..Len(mFreeSessionList) : mFreeSessionList'[i] = mFreeSessionList[i]
             /\ mFreeSessionList'[Len(mFreeSessionList')] = hand[t].session
  <2>1. hand[t].session \in Session /\ Returning(t)
    BY <1>0, <1>2 DEF SessionReset, HandInv, Goto, Returning
  <2> QED
    BY <1>0, <1>2, <2>1 DEF SessionReset
<1>3. CASE AcceptSessions \/ PostAccept \/ PostAcceptFails \/ AllIssued
  BY <1>3 DEF AcceptSessions, PostAccept, PostAcceptFails, AllIssued
<1>4. ASSUME NEW t \in IoThread,
             \/ AcceptCompletion(t) \/ CheckConnected(t) \/ PostNextIo(t) \/ PostNextIoFails(t)
             \/ DisconnectRequest(t) \/ DisconnectEx(t) \/ DisconnectExFails(t)
             \/ DisconnectCompletion(t) \/ DeleteIoContext(t) \/ ReturnClientSession(t)
             \/ \E s \in Session, io \in IOType : GetCompletion(t, s, io)
      PROVE  UNCHANGED <<mFreeSessionList, mCurrentlyIssued>>
  BY <1>4 DEF AcceptCompletion, CheckConnected, PostNextIo, PostNextIoFails, DisconnectRequest,
      DisconnectEx, DisconnectExFails, DisconnectCompletion, DeleteIoContext,
      ReturnClientSession, GetCompletion
<1>5. CASE UNCHANGED vars
  BY <1>5 DEF vars
<1> QED
  BY <1>1, <1>2, <1>3, <1>4, <1>5 DEF Next, MainStep, Serve

LEMMA PoolStep == SessionInv /\ [Next]_vars => PoolInv'
<1> SUFFICES ASSUME SessionInv, [Next]_vars PROVE PoolInv'
  OBVIOUS
<1>0. mFreeSessionList \in Seq(Session) /\ PoolInv /\ ReturnInv /\ TypeOK
  BY DEF SessionInv, TypeOK
<1>1. \A i \in 1..Len(mFreeSessionList) :
        mFreeSessionList[i] \in Session /\ mRefCount[mFreeSessionList[i]] = 0
  BY <1>0 DEF PoolInv
\* A pooled session that is not being issued is as idle after the step.
<1>2. ASSUME NEW i \in 1..Len(mFreeSessionList), ~IssueSession \/ i # Len(mFreeSessionList)
      PROVE  /\ mRefCount'[mFreeSessionList[i]] = 0
             /\ \A t \in IoThread : Returning(t)' => hand'[t].session # mFreeSessionList[i]
  <2>1. mRefCount'[mFreeSessionList[i]] = 0
    <3> SUFFICES ASSUME mRefCount'[mFreeSessionList[i]] # 0 PROVE FALSE
      OBVIOUS
    <3>1. IssueSession /\ mFreeSessionList[i] = mFreeSessionList[Len(mFreeSessionList)]
      BY <1>1, <1>2, ZeroStays
    <3>2. Len(mFreeSessionList) \in 1..Len(mFreeSessionList)
      BY <3>1, IssuedFromPool DEF IssueSession
    <3> QED
      BY <1>0, <1>2, <3>1, <3>2 DEF PoolInv
  <2>2. ASSUME NEW t \in IoThread, Returning(t)', hand'[t].session = mFreeSessionList[i]
        PROVE  FALSE
    <3>1. hand[t].session = mFreeSessionList[i]
      BY <2>2, BecomesReturning
    <3>2. Returning(t)
      BY <1>1, <2>2, <3>1, BecomesReturning
    <3> QED
      BY <1>0, <3>1, <3>2 DEF PoolInv
  <2> QED
    BY <2>1, <2>2
<1>3. CASE UNCHANGED <<mFreeSessionList, mCurrentlyIssued>>
  <2>1. ~IssueSession
    BY <1>0, <1>3 DEF IssueSession, TypeOK
  <2> QED
    BY <1>0, <1>2, <1>3, <2>1 DEF PoolInv, Returning
<1>4. CASE /\ IssueSession
           /\ Len(mFreeSessionList) \in 1..Len(mFreeSessionList)
           /\ Len(mFreeSessionList') = Len(mFreeSessionList) - 1
           /\ \A i \in 1..Len(mFreeSessionList') : mFreeSessionList'[i] = mFreeSessionList[i]
  <2>1. \A i \in 1..Len(mFreeSessionList') :
          i \in 1..Len(mFreeSessionList) /\ i # Len(mFreeSessionList)
    BY <1>0, <1>4
  <2> QED
    BY <1>0, <1>2, <1>4, <2>1 DEF PoolInv, Returning
<1>5. ASSUME NEW t \in IoThread, SessionReset(t),
             Returning(t), hand[t].session \in Session,
             Len(mFreeSessionList') = Len(mFreeSessionList) + 1,
             \A i \in 1..Len(mFreeSessionList) : mFreeSessionList'[i] = mFreeSessionList[i],
             mFreeSessionList'[Len(mFreeSessionList')] = hand[t].session
      PROVE  PoolInv'
  <2> DEFINE s == hand[t].session
  <2>1. ~IssueSession
    BY <1>5, ThreadsDiffer DEF IssueSession, SessionReset, Goto
  <2>2. \A i \in 1..Len(mFreeSessionList) : mFreeSessionList[i] # s
    BY <1>0, <1>5 DEF PoolInv
  <2>3. mRefCount[s] = 0 /\ mRefCount'[s] = 0
    BY <1>0, <1>5 DEF ReturnInv, SessionReset, TypeOK
  <2>4. ASSUME NEW u \in IoThread, Returning(u)', hand'[u].session = s PROVE FALSE
    <3>1. hand[u].session = s
      BY <2>4, BecomesReturning
    <3>2. Returning(u)
      BY <2>3, <2>4, <3>1, BecomesReturning
    <3>3. u = t
      BY <1>0, <1>5, <3>1, <3>2 DEF ReturnInv
    <3> QED
      BY <1>0, <1>5, <2>4, <3>3 DEF SessionReset, Goto, Returning, TypeOK
  <2>5. \A i \in 1..Len(mFreeSessionList') :
          i \in 1..Len(mFreeSessionList) \/ i = Len(mFreeSessionList')
    BY <1>0, <1>5
  <2>6. \A i \in 1..Len(mFreeSessionList') :
          /\ mRefCount'[mFreeSessionList'[i]] = 0
          /\ \A u \in IoThread : Returning(u)' => hand'[u].session # mFreeSessionList'[i]
    BY <1>2, <1>5, <2>1, <2>3, <2>4, <2>5
  <2>7. \A i, j \in 1..Len(mFreeSessionList') :
          mFreeSessionList'[i] = mFreeSessionList'[j] => i = j
    BY <1>0, <1>5, <2>2, <2>5 DEF PoolInv
  <2> QED
    BY <2>6, <2>7 DEF PoolInv
<1> QED
  BY <1>3, <1>4, <1>5, ListChange

LEMMA InUseFinite ==
  /\ IsFiniteSet(InUse) /\ Cardinality(InUse) \in Nat /\ Cardinality(InUse) <= MAX_CONNECTION
  BY SessionAssumption, FS_Subset, FS_CardinalityType DEF InUse, MAX_CONNECTION

LEMMA IssuedStep == SessionInv /\ [Next]_vars => IssuedInv'
<1> SUFFICES ASSUME SessionInv, [Next]_vars PROVE mCurrentlyIssued' = Cardinality(InUse')
  BY DEF IssuedInv
<1>0. /\ mFreeSessionList \in Seq(Session) /\ PoolInv
      /\ mCurrentlyIssued = Cardinality(InUse)
  BY DEF SessionInv, TypeOK, IssuedInv
<1>1. CASE UNCHANGED <<mFreeSessionList, mCurrentlyIssued>>
  BY <1>0, <1>1 DEF InUse, Pooled
<1>2. CASE /\ IssueSession
           /\ Len(mFreeSessionList) \in 1..Len(mFreeSessionList)
           /\ Len(mFreeSessionList') = Len(mFreeSessionList) - 1
           /\ \A i \in 1..Len(mFreeSessionList') : mFreeSessionList'[i] = mFreeSessionList[i]
  <2>0. PICK c \in Session : c = mFreeSessionList[Len(mFreeSessionList)]
    BY <1>0, <1>2
  <2>1. c \notin InUse
    BY <1>2, <2>0 DEF InUse, Pooled
  <2>2. ~Pooled(c)'
    <3>1. \A i \in 1..Len(mFreeSessionList') :
            i \in 1..Len(mFreeSessionList) /\ i # Len(mFreeSessionList)
      BY <1>0, <1>2
    <3> QED
      BY <1>0, <1>2, <2>0, <3>1 DEF PoolInv, Pooled
  <2>3. ASSUME NEW s \in Session, s # c PROVE Pooled(s)' <=> Pooled(s)
    <3>1. ASSUME NEW i \in 1..Len(mFreeSessionList), mFreeSessionList[i] = s
          PROVE  i \in 1..Len(mFreeSessionList') /\ mFreeSessionList'[i] = s
      BY <1>0, <1>2, <2>0, <2>3, <3>1
    <3>2. ASSUME NEW i \in 1..Len(mFreeSessionList'), mFreeSessionList'[i] = s
          PROVE  i \in 1..Len(mFreeSessionList) /\ mFreeSessionList[i] = s
      BY <1>0, <1>2, <3>2
    <3> QED
      BY <3>1, <3>2 DEF Pooled
  <2>4. InUse' = InUse \cup {c}
    BY <2>1, <2>2, <2>3 DEF InUse
  <2>5. mCurrentlyIssued' = mCurrentlyIssued + 1
    BY <1>2 DEF IssueSession
  <2> QED
    BY <1>0, <2>1, <2>4, <2>5, InUseFinite, FS_AddElement
<1>3. ASSUME NEW t \in IoThread, SessionReset(t),
             Returning(t), hand[t].session \in Session,
             Len(mFreeSessionList') = Len(mFreeSessionList) + 1,
             \A i \in 1..Len(mFreeSessionList) : mFreeSessionList'[i] = mFreeSessionList[i],
             mFreeSessionList'[Len(mFreeSessionList')] = hand[t].session
      PROVE  mCurrentlyIssued' = Cardinality(InUse')
  <2>0. PICK c \in Session : c = hand[t].session
    BY <1>3
  <2>1. c \in InUse
    BY <1>0, <1>3, <2>0 DEF InUse, Pooled, PoolInv
  <2>2. Pooled(c)'
    <3>1. Len(mFreeSessionList') \in 1..Len(mFreeSessionList')
      BY <1>0, <1>3
    <3> QED
      BY <1>3, <2>0, <3>1 DEF Pooled
  <2>3. ASSUME NEW s \in Session, s # c PROVE Pooled(s)' <=> Pooled(s)
    <3>1. \A i \in 1..Len(mFreeSessionList') :
            i \in 1..Len(mFreeSessionList) \/ i = Len(mFreeSessionList')
      BY <1>0, <1>3
    <3>2. \A i \in 1..Len(mFreeSessionList) : i \in 1..Len(mFreeSessionList')
      BY <1>0, <1>3
    <3> QED
      BY <1>3, <2>0, <2>3, <3>1, <3>2 DEF Pooled
  <2>4. InUse' = InUse \ {c}
    BY <2>1, <2>2, <2>3 DEF InUse
  <2>5. mCurrentlyIssued' = mCurrentlyIssued - 1
    BY <1>3 DEF SessionReset
  <2> QED
    BY <1>0, <2>1, <2>4, <2>5, InUseFinite, FS_RemoveElement
<1> QED
  BY <1>1, <1>2, <1>3, ListChange

-----------------------------------------------------------------------------
(***************************************************************************)
(* The invariant.                                                          *)
(***************************************************************************)
LEMMA TypeStep == SessionInv /\ [Next]_vars => TypeOK'
<1> SUFFICES ASSUME SessionInv, [Next]_vars PROVE TypeOK'
  OBVIOUS
<1>0. TypeOK /\ HandInv /\ HandInv'
  BY HandStep DEF SessionInv
<1>1. mRefCount' \in [Session -> Nat] /\ posted' \in [Session -> [IOType -> Nat]]
      /\ issueRef' \in [Session -> {0, 1}]
  BY CountTypesStep DEF CountTypes
<1>2. mFreeSessionList' \in Seq(Session)
  <2>1. CASE IssueSession
    <3>1. \A i \in 1..(Len(mFreeSessionList) - 1) : mFreeSessionList[i] \in Session
      BY <1>0 DEF TypeOK
    <3>2. Len(mFreeSessionList) \in Nat
      BY <1>0 DEF TypeOK
    <3> QED
      BY <2>1, <3>1, <3>2, SubSeqProperties DEF IssueSession
  <2>2. CASE \E t \in IoThread : SessionReset(t)
    BY <1>0, <2>2 DEF SessionReset, HandInv, Goto, TypeOK
  <2>3. CASE UNCHANGED mFreeSessionList
    BY <1>0, <2>3 DEF TypeOK
  <2> QED
    BY <2>1, <2>2, <2>3, ListChange
<1>3. mCurrentlyIssued' \in 0..MAX_CONNECTION
  <2>1. IssuedInv'
    BY IssuedStep
  <2>2. Cardinality(InUse)' \in Nat /\ Cardinality(InUse)' <= MAX_CONNECTION
    BY SessionAssumption, FS_Subset, FS_CardinalityType DEF InUse, MAX_CONNECTION
  <2>3. MAX_CONNECTION \in Nat
    BY SessionAssumption, FS_CardinalityType DEF MAX_CONNECTION
  <2> QED
    BY <2>1, <2>2, <2>3 DEF IssuedInv
<1>4. /\ mConnected' \in [Session -> {0, 1}]
      /\ mLockOwner' \in IoThread \cup {Main, NoSession}
  BY <1>0 DEF TypeOK, Next, MainStep, Serve, vars, AcceptSessions, IssueSession, PostAccept,
     PostAcceptFails, AllIssued, GetCompletion, AcceptCompletion, CheckConnected, PostNextIo,
     PostNextIoFails, DisconnectRequest, DisconnectEx, DisconnectExFails, DisconnectCompletion,
     DeleteIoContext, ReturnClientSession, SessionReset
<1>5. lost' \subseteq Session
  BY <1>0 DEF TypeOK, HandInv, Next, MainStep, Serve, vars, AcceptSessions, IssueSession,
     PostAccept, PostAcceptFails, AllIssued, GetCompletion, AcceptCompletion, CheckConnected,
     PostNextIo, PostNextIoFails, DisconnectRequest, DisconnectEx, DisconnectExFails,
     DisconnectCompletion, DeleteIoContext, ReturnClientSession, SessionReset, Goto
<1>6. pc' \in [IoThread \cup {Main} -> IoLocation \cup MainLocation]
  <2>1. \A t \in IoThread \cup {Main} : pc'[t] \in IoLocation \cup MainLocation
    BY <1>0 DEF HandInv
  <2>2. DOMAIN pc' = IoThread \cup {Main} /\ pc' = [t \in DOMAIN pc' |-> pc'[t]]
    BY <1>0 DEF TypeOK, Next, MainStep, Serve, vars, AcceptSessions, IssueSession, PostAccept,
       PostAcceptFails, AllIssued, GetCompletion, AcceptCompletion, CheckConnected, PostNextIo,
       PostNextIoFails, DisconnectRequest, DisconnectEx, DisconnectExFails,
       DisconnectCompletion, DeleteIoContext, ReturnClientSession, SessionReset, Goto
  <2> QED
    BY <2>1, <2>2
<1>7. hand' \in [IoThread \cup {Main} -> [session : Session \cup {NoSession}, type : IOType]]
  <2>1. CASE IssueSession
    <3>1. PICK c \in Session : hand' = [hand EXCEPT ![Main] = [session |-> c, type |-> "IO_ACCEPT"]]
      BY <2>1, IssuedFromPool DEF IssueSession
    <3> QED
      BY <1>0, <3>1 DEF TypeOK, IOType
  <2>2. ASSUME NEW t \in IoThread, NEW s \in Session, NEW io \in IOType, GetCompletion(t, s, io)
        PROVE  hand' \in [IoThread \cup {Main} -> [session : Session \cup {NoSession}, type : IOType]]
    BY <1>0, <2>2 DEF GetCompletion, TypeOK
  <2>3. ASSUME NEW t \in IoThread \cup {Main}, hand' = [hand EXCEPT ![t] = Nothing]
        PROVE  hand' \in [IoThread \cup {Main} -> [session : Session \cup {NoSession}, type : IOType]]
    BY <1>0, <2>3 DEF TypeOK, Nothing, IOType
  <2>4. CASE UNCHANGED hand
    BY <1>0, <2>4 DEF TypeOK
  <2> QED
    BY <2>1, <2>2, <2>3, <2>4
    DEF Next, MainStep, Serve, vars, AcceptSessions, PostAccept, PostAcceptFails, AllIssued,
        AcceptCompletion, CheckConnected, PostNextIo, PostNextIoFails, DisconnectRequest,
        DisconnectEx, DisconnectExFails, DisconnectCompletion, DeleteIoContext,
        ReturnClientSession, SessionReset
<1> QED
  BY <1>1, <1>2, <1>3, <1>4, <1>5, <1>6, <1>7 DEF TypeOK

LEMMA SessionInvInit == Init => SessionInv
<1> SUFFICES ASSUME Init PROVE SessionInv
  OBVIOUS
<1>1. MAX_CONNECTION \in Nat
  BY SessionAssumption, FS_CardinalityType DEF MAX_CONNECTION
<1>2. mFreeSessionList \in Seq(Session) /\ Len(mFreeSessionList) = MAX_CONNECTION
  BY <1>1 DEF Init, Pool
<1>3. \A t \in IoThread : pc[t] = "get" /\ hand[t] = Nothing
  BY ThreadsDiffer DEF Init
<1>4. pc[Main] = "sleep" /\ hand[Main] = Nothing
  BY DEF Init
<1>5. TypeOK
  BY <1>1, <1>2 DEF Init, TypeOK, Nothing, IoLocation, MainLocation, IOType
<1>6. HandInv
  BY <1>3, <1>4, SessionAssumption DEF HandInv, IoLocation, MainLocation, Nothing
<1>7. ASSUME NEW s \in Session
      PROVE  InHand(s) = {} /\ InKernel(s) = 0 /\ \A places : "get" \notin places => ThreadsAt(s, places) = {}
  <2>1. InHand(s) = {}
    BY <1>3 DEF InHand
  <2>2. InKernel(s) = 0
    BY DEF Init, InKernel, IOType
  <2>3. ASSUME NEW places, "get" \notin places PROVE ThreadsAt(s, places) = {}
    BY <1>3, <2>3 DEF ThreadsAt
  <2> QED
    BY <2>1, <2>2, <2>3
<1>8. RefCountIsExact
  <2> SUFFICES ASSUME NEW s \in Session
               PROVE  mRefCount[s] = issueRef[s] + InKernel(s) + Cardinality(InHand(s))
    BY DEF RefCountIsExact
  <2>1. Cardinality(InHand(s)) = 0 /\ InKernel(s) = 0
    BY <1>7, FS_EmptySet
  <2> QED
    BY <2>1 DEF Init
<1>9. OneStagePerIssue
  <2> SUFFICES ASSUME NEW s \in Session PROVE Stage(s) = 0 /\ issueRef[s] = 0
    BY DEF OneStagePerIssue
  <2>1. /\ Cardinality(ThreadsAt(s, {"accept"})) = 0
        /\ Cardinality(ThreadsAt(s, {"disconnectEx"})) = 0
        /\ Cardinality(ThreadsAt(s, {"completion"})) = 0
    BY <1>7, FS_EmptySet
  <2>2. /\ posted[s]["IO_ACCEPT"] = 0 /\ posted[s]["IO_DISCONNECT"] = 0
        /\ mConnected[s] = 0 /\ issueRef[s] = 0
    BY DEF Init, IOType
  <2> QED
    BY <1>4, <2>1, <2>2 DEF Stage
<1>10. ReturnInv
  BY <1>3 DEF ReturnInv, Returning
<1>11. PoolInv
  BY <1>2, <1>3 DEF PoolInv, Returning, Init, Pool
<1>12. IssuedInv
  <2>1. InUse = {}
    BY <1>2 DEF InUse, Pooled, Init, Pool
  <2> QED
    BY <2>1, FS_EmptySet DEF IssuedInv, Init
<1> QED
  BY <1>5, <1>6, <1>8, <1>9, <1>10, <1>11, <1>12 DEF SessionInv

LEMMA SessionInvariant == Spec => []SessionInv
<1>1. SessionInv /\ [Next]_vars => SessionInv'
  BY TypeStep, HandStep, RefCountStep, StageStep, ReturnStep, PoolStep, IssuedStep DEF SessionInv
<1> QED
  BY SessionInvInit, <1>1, PTL DEF Spec

-----------------------------------------------------------------------------
(***************************************************************************)
(* One I/O of a connection at a time.  The accept belongs to the same      *)
(* chain: it is what the first receive comes from.                         *)
(***************************************************************************)
Accepting(s) == IF pc[Main] = "postAccept" /\ hand[Main].session = s THEN 1 ELSE 0
Chained(s) ==
  posted[s]["IO_ACCEPT"] + posted[s]["IO_RECV_ZERO"] + posted[s]["IO_RECV"] + posted[s]["IO_SEND"]
Driving(s) == ThreadsAt(s, {"accept", "check", "post"})

ChainInv == \A s \in Session : Accepting(s) + Chained(s) + Cardinality(Driving(s)) <= 1

ChainTypes == posted \in [Session -> [IOType -> Nat]]

LEMMA ChainedType ==
  ASSUME ChainTypes, NEW s \in Session
  PROVE  \A io \in IOType : posted[s][io] \in Nat
BY DEF ChainTypes

LEMMA DrivingType ==
  ASSUME NEW s
  PROVE  /\ Cardinality(Driving(s)) \in Nat /\ Accepting(s) \in {0, 1}
         /\ Cardinality(Driving(s)) = 0 <=> Driving(s) = {}
BY PlaceType DEF Driving, Accepting

LEMMA ThreadKeepsChain ==
  ASSUME ChainInv, ChainTypes, ChainTypes', NEW t \in IoThread, OnlyMoves(t),
         UNCHANGED <<pc[Main], hand[Main]>>,
         \A s \in Session :
           Chained(s)' + In(t, Driving(s))' <= Chained(s) + In(t, Driving(s))
  PROVE  ChainInv'
<1> SUFFICES ASSUME NEW s \in Session
             PROVE  Accepting(s)' + Chained(s)' + Cardinality(Driving(s))' <= 1
  BY DEF ChainInv
<1>1. /\ Cardinality(Driving(s)) \in Nat /\ Cardinality(Driving(s))' \in Nat
      /\ Cardinality(Driving(s))' = Cardinality(Driving(s)) + In(t, Driving(s))' - In(t, Driving(s))
  BY PlaceCount DEF Driving
<1>2. Accepting(s) \in Nat /\ Accepting(s)' = Accepting(s)
  BY DEF Accepting
<1>3. Chained(s) \in Nat /\ Chained(s)' \in Nat
  BY DEF Chained, ChainTypes, IOType
<1>4. In(t, Driving(s)) \in Nat /\ In(t, Driving(s))' \in Nat
  BY DEF In
<1>5. /\ Accepting(s) + Chained(s) + Cardinality(Driving(s)) <= 1
      /\ Chained(s)' + In(t, Driving(s))' <= Chained(s) + In(t, Driving(s))
  BY DEF ChainInv
<1> QED
  BY <1>1, <1>2, <1>3, <1>4, <1>5

LEMMA MainKeepsChain == SessionInv /\ ChainInv /\ MainStep => ChainInv'
<1> SUFFICES ASSUME SessionInv, ChainInv, MainStep, NEW s \in Session
             PROVE  Accepting(s)' + Chained(s)' + Cardinality(Driving(s))' <= 1
  BY DEF ChainInv
<1>0. TypeOK /\ HandInv /\ \A io \in IOType : posted[s][io] \in Nat
  BY KernelType DEF SessionInv
<1>1. Driving(s)' = Driving(s) /\ Cardinality(Driving(s)) \in Nat
  BY <1>0, MainMoves, PlaceType DEF Driving, ThreadsAt
<1>2. Accepting(s) + Chained(s) + Cardinality(Driving(s)) <= 1
  BY DEF ChainInv
<1>3. Accepting(s) \in Nat /\ Chained(s) \in Nat
  BY <1>0 DEF Accepting, Chained, IOType
<1>4. CASE AcceptSessions \/ AllIssued \/ PostAcceptFails
  <2>1. Accepting(s)' = 0
    BY <1>0, <1>4 DEF AcceptSessions, AllIssued, PostAcceptFails, Accepting, Goto, TypeOK
  <2>2. Chained(s)' = Chained(s)
    BY <1>4 DEF AcceptSessions, AllIssued, PostAcceptFails, Chained
  <2> QED
    BY <1>1, <1>2, <1>3, <2>1, <2>2
<1>5. CASE IssueSession
  <2> DEFINE c == mFreeSessionList[Len(mFreeSessionList)]
  <2>1. Chained(s)' = Chained(s)
    BY <1>5 DEF IssueSession, Chained
  <2>2. Accepting(s) = 0 /\ Accepting(s)' = IF s = c THEN 1 ELSE 0
    BY <1>0, <1>5 DEF IssueSession, Accepting, Goto, TypeOK
  <2>3. CASE s = c
    <3>1. InKernel(s) = 0 /\ InHand(s) = {}
      BY <1>5, <2>3, IssuedFromPool, PooledIsIdle DEF IssueSession
    <3>2. Driving(s) = {}
      BY <3>1 DEF Driving, ThreadsAt, InHand
    <3>3. Chained(s) = 0
      <4>1. /\ posted[s]["IO_SEND"] \in Nat /\ posted[s]["IO_RECV"] \in Nat
            /\ posted[s]["IO_RECV_ZERO"] \in Nat /\ posted[s]["IO_ACCEPT"] \in Nat
            /\ posted[s]["IO_DISCONNECT"] \in Nat
        BY <1>0 DEF IOType
      <4>2. Chained(s) + posted[s]["IO_DISCONNECT"] = 0
        BY <3>1, <4>1 DEF InKernel, Chained
      <4> QED
        BY <1>3, <4>1, <4>2
    <3>4. Cardinality(Driving(s)) = 0
      BY <3>2, DrivingType
    <3>5. Accepting(s)' = 1
      BY <2>2, <2>3
    <3> QED
      BY <1>1, <2>1, <3>3, <3>4, <3>5
  <2>4. CASE s # c
    BY <1>1, <1>2, <1>3, <2>1, <2>2, <2>4
  <2> QED
    BY <2>3, <2>4
<1>6. CASE PostAccept
  <2>1. hand[Main].session \in Session /\ Post(hand[Main].session, "IO_ACCEPT")
    BY <1>0, <1>6 DEF PostAccept, HandInv, Goto
  <2>2. \A io \in IOType :
          posted'[s][io] = IF s = hand[Main].session /\ io = "IO_ACCEPT"
                           THEN posted[s][io] + 1 ELSE posted[s][io]
    BY <1>0, <2>1, PostCount DEF IOType
  <2>3. Chained(s)' = IF s = hand[Main].session THEN Chained(s) + 1 ELSE Chained(s)
    BY <1>0, <2>2 DEF Chained, IOType
  <2>4. Accepting(s) = (IF s = hand[Main].session THEN 1 ELSE 0) /\ Accepting(s)' = 0
    BY <1>0, <1>6 DEF PostAccept, Accepting, Goto, TypeOK
  <2> QED
    BY <1>1, <1>2, <1>3, <2>3, <2>4
<1> QED
  BY <1>4, <1>5, <1>6 DEF MainStep

LEMMA ChainStep == SessionInv /\ ChainInv /\ [Next]_vars => ChainInv'
<1> SUFFICES ASSUME SessionInv, ChainInv, [Next]_vars PROVE ChainInv'
  OBVIOUS
<1>0. TypeOK /\ HandInv /\ ChainTypes /\ ChainTypes'
  BY CountTypesStep DEF SessionInv, TypeOK, CountTypes, ChainTypes
<1>1. ASSUME NEW t \in IoThread,
             Serve(t) \/ \E s \in Session, io \in IOType : GetCompletion(t, s, io)
      PROVE  UNCHANGED <<pc[Main], hand[Main]>>
  BY <1>0, <1>1, ThreadsDiffer
  DEF Serve, GetCompletion, AcceptCompletion, CheckConnected, PostNextIo, PostNextIoFails,
      DisconnectRequest, DisconnectEx, DisconnectExFails, DisconnectCompletion, DeleteIoContext,
      ReturnClientSession, SessionReset, Goto, TypeOK
<1>2. ASSUME NEW t \in IoThread,
             Serve(t) \/ \E s \in Session, io \in IOType : GetCompletion(t, s, io)
      PROVE  \A s \in Session :
               Chained(s)' + In(t, Driving(s))' <= Chained(s) + In(t, Driving(s))
  <2> SUFFICES ASSUME NEW s \in Session
               PROVE  Chained(s)' + In(t, Driving(s))' <= Chained(s) + In(t, Driving(s))
    OBVIOUS
  <2>a. In(t, Driving(s)) \in {0, 1} /\ In(t, Driving(s))' \in {0, 1}
    BY DEF In
  <2>b. Chained(s) \in Nat /\ \A io \in IOType : posted[s][io] \in Nat
    BY <1>0 DEF Chained, ChainTypes, IOType
  <2>1. ASSUME NEW r \in Session, NEW io \in IOType, GetCompletion(t, r, io)
        PROVE  Chained(s)' + In(t, Driving(s))' <= Chained(s) + In(t, Driving(s))
    <3>1. \A j \in IOType :
            posted'[s][j] = IF s = r /\ j = io THEN posted[s][j] - 1 ELSE posted[s][j]
      BY <1>0, <2>1, TakeCount DEF GetCompletion
    <3>2. In(t, Driving(s)) = 0
      BY <2>1 DEF GetCompletion, In, Driving, ThreadsAt, Goto
    <3>3. In(t, Driving(s))' = 1 => s = r /\ io # "IO_DISCONNECT"
      BY <1>0, <2>1 DEF GetCompletion, In, Driving, ThreadsAt, Goto, TypeOK
    <3>4. Chained(s)' = IF s = r /\ io # "IO_DISCONNECT" THEN Chained(s) - 1 ELSE Chained(s)
      BY <2>b, <3>1 DEF Chained, IOType
    <3> QED
      BY <2>a, <2>b, <3>2, <3>3, <3>4
  <2>2. CASE PostNextIo(t)
    <3>1. /\ hand[t].session \in Session
          /\ NextIo[hand[t].type] \in {"IO_RECV_ZERO", "IO_RECV", "IO_SEND"}
          /\ Post(hand[t].session, NextIo[hand[t].type])
      BY <1>0, <2>2 DEF PostNextIo, HandInv, NextIo, Goto, TypeOK, IOType
    <3>2. \A j \in IOType :
            posted'[s][j] = IF s = hand[t].session /\ j = NextIo[hand[t].type]
                            THEN posted[s][j] + 1 ELSE posted[s][j]
      BY <1>0, <3>1, PostCount DEF IOType
    <3>3. Chained(s)' = IF s = hand[t].session THEN Chained(s) + 1 ELSE Chained(s)
      BY <2>b, <3>1, <3>2 DEF Chained, IOType
    <3>4. In(t, Driving(s)) = (IF s = hand[t].session THEN 1 ELSE 0) /\ In(t, Driving(s))' = 0
      BY <1>0, <2>2 DEF PostNextIo, In, Driving, ThreadsAt, Goto, TypeOK
    <3> QED
      BY <2>b, <3>3, <3>4
  <2>3. CASE DisconnectEx(t)
    <3>1. hand[t].session \in Session /\ Post(hand[t].session, "IO_DISCONNECT")
      BY <1>0, <2>3 DEF DisconnectEx, HandInv, Goto
    <3>2. \A j \in IOType \ {"IO_DISCONNECT"} : posted'[s][j] = posted[s][j]
      BY <1>0, <3>1, PostCount DEF IOType
    <3>3. Chained(s)' = Chained(s)
      BY <3>2 DEF Chained, IOType
    <3>4. In(t, Driving(s))' = 0
      BY <1>0, <2>3 DEF DisconnectEx, In, Driving, ThreadsAt, Goto, TypeOK
    <3> QED
      BY <2>a, <2>b, <3>3, <3>4
  <2>4. CASE AcceptCompletion(t) \/ CheckConnected(t) \/ PostNextIoFails(t)
    <3>1. Chained(s)' = Chained(s)
      BY <2>4 DEF AcceptCompletion, CheckConnected, PostNextIoFails, Chained
    <3>2. pc[t] \in {"accept", "check", "post"} /\ hand' = hand
      BY <2>4 DEF AcceptCompletion, CheckConnected, PostNextIoFails, Goto
    <3>3. In(t, Driving(s))' = 0 \/ In(t, Driving(s)) = 1
      BY <3>2 DEF In, Driving, ThreadsAt
    <3> QED
      BY <2>a, <2>b, <3>1, <3>3
  <2>5. CASE \/ DisconnectRequest(t) \/ DisconnectExFails(t) \/ DisconnectCompletion(t)
             \/ DeleteIoContext(t) \/ ReturnClientSession(t) \/ SessionReset(t)
    <3>1. Chained(s)' = Chained(s)
      BY <2>5 DEF DisconnectRequest, DisconnectExFails, DisconnectCompletion, DeleteIoContext,
                  ReturnClientSession, SessionReset, Chained
    <3>2. In(t, Driving(s))' = 0
      BY <1>0, <2>5 DEF DisconnectRequest, DisconnectExFails, DisconnectCompletion,
                  DeleteIoContext, ReturnClientSession, SessionReset, In, Driving, ThreadsAt, Goto,
                  TypeOK
    <3> QED
      BY <2>a, <2>b, <3>1, <3>2
  <2> QED
    BY <1>2, <2>1, <2>2, <2>3, <2>4, <2>5 DEF Serve
<1>3. CASE UNCHANGED vars
  BY <1>3 DEF vars, ChainInv, Accepting, Chained, Driving, ThreadsAt
<1> QED
  BY <1>0, <1>1, <1>2, <1>3, OneThreadMoves, MainKeepsChain, ThreadKeepsChain DEF Next

LEMMA ChainInvInit == Init => ChainInv
<1> SUFFICES ASSUME Init, NEW s \in Session
             PROVE  Accepting(s) + Chained(s) + Cardinality(Driving(s)) <= 1
  BY DEF ChainInv
<1>1. Accepting(s) = 0 /\ Chained(s) = 0
  BY DEF Init, Accepting, Chained, IOType
<1>2. Driving(s) = {}
  BY ThreadsDiffer DEF Init, Driving, ThreadsAt
<1> QED
  BY <1>1, <1>2, DrivingType

-----------------------------------------------------------------------------
(***************************************************************************)
(* The theorems.                                                           *)
(***************************************************************************)
\* Every variable keeps its type; no count falls below 0, as ReleaseRef asserts
\* (ClientSession.cpp 301).
THEOREM TypeCorrect == Spec => []TypeOK
  BY SessionInvariant, PTL DEF SessionInv

\* mRefCount is the number of things that can still reach the session.
THEOREM CountExact == Spec => []RefCountIsExact
  BY SessionInvariant, PTL DEF SessionInv

\* The assertion of ReturnClientSession holds and the session is given back once, by
\* a thread that is the only one to know it.
THEOREM ReturnSafe == Spec => []ReturnIsSafe
  BY ReturningIsSafe, SessionInvariant, PTL

\* An issue of a session is in one stage, from its accept to its disconnect, and in none
\* only after one of these could not be posted (DisconnectRequest, AcceptCompletion).
THEOREM OneStage == Spec => []OneStagePerIssue
  BY SessionInvariant, PTL DEF SessionInv

\* The completions of a connection's receives and sends are served one after the other
\* (IoWorkerThread), although no lock says so.
THEOREM OneIo == Spec => []OneIoAtATime
<1>1. TypeOK /\ ChainInv => OneIoAtATime
  <2> SUFFICES ASSUME TypeOK, ChainInv, NEW s \in Session
               PROVE  posted[s]["IO_RECV_ZERO"] + posted[s]["IO_RECV"] + posted[s]["IO_SEND"]
                        + Cardinality(ThreadsAt(s, {"check", "post"})) <= 1
    BY DEF OneIoAtATime
  <2>1. \A io \in IOType : posted[s][io] \in Nat
    BY KernelType
  <2>2. /\ Cardinality(ThreadsAt(s, {"check", "post"})) \in Nat
        /\ Cardinality(ThreadsAt(s, {"check", "post"})) <= Cardinality(Driving(s))
    <3>1. IsFiniteSet(Driving(s)) /\ ThreadsAt(s, {"check", "post"}) \subseteq Driving(s)
      BY ThreadAssumption, FS_Subset DEF Driving, ThreadsAt
    <3> QED
      BY <3>1, FS_Subset, PlaceType
  <2>3. Accepting(s) + Chained(s) + Cardinality(Driving(s)) <= 1
    BY DEF ChainInv
  <2> QED
    BY <2>1, <2>2, <2>3, DrivingType DEF Chained, IOType
<1>2. ChainInv /\ SessionInv /\ [Next]_vars => ChainInv'
  BY ChainStep
<1> QED
  BY <1>1, <1>2, ChainInvInit, SessionInvariant, PTL DEF Spec, SessionInv

\* The CRASH_ASSERT(false) of AcceptCompletion is unreachable.
THEOREM AcceptFresh == Spec => []AcceptFindsFresh
<1>1. SessionInv => AcceptFindsFresh
  BY OnlyStage DEF AcceptFindsFresh
<1> QED
  BY <1>1, SessionInvariant, PTL

\* mFreeSessionList.back() is never taken of an empty list.
THEOREM PoolNeverEmpty == Spec => []PoolHasSessionToIssue
<1>1. SessionInv => PoolHasSessionToIssue
  BY IssuedFromPool DEF PoolHasSessionToIssue
<1> QED
  BY <1>1, SessionInvariant, PTL

\* No context is made for a session whose count has reached 0, except by its next issue.
THEOREM NoRevival == Spec => OnlyIssueRevives
<1>1. SessionInv /\ [Next]_vars =>
        \A s \in Session : mRefCount[s] = 0 /\ mRefCount'[s] > 0
          => pc[Main] = "issue" /\ hand'[Main].session = s
  <2> SUFFICES ASSUME SessionInv, [Next]_vars, NEW s \in Session,
                      mRefCount[s] = 0, mRefCount'[s] > 0
               PROVE  pc[Main] = "issue" /\ hand'[Main].session = s
    OBVIOUS
  <2>1. IssueSession /\ s = mFreeSessionList[Len(mFreeSessionList)]
    BY ZeroStays
  <2> QED
    BY <2>1 DEF IssueSession, Goto, SessionInv, TypeOK
<1> QED
  BY <1>1, SessionInvariant, PTL DEF Spec, OnlyIssueRevives
=============================================================================
