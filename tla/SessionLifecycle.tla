-------------------------- MODULE SessionLifecycle --------------------------
(***************************************************************************)
(* The life of a pooled ClientSession in HW_05_MT: SessionManager issues   *)
(* it to a pending AcceptEx, I/O threads serve its completions, one        *)
(* DisconnectEx ends it, and the thread that drops the last reference      *)
(* gives it back to the pool to be issued again.                           *)
(*                                                                         *)
(* Every OverlappedIOContext holds one reference from its constructor to   *)
(* DeleteIoContext, and the pool's issue holds one more until the          *)
(* disconnect completes.  A connection works one I/O at a time: accept,    *)
(* then zero-byte receive, receive and send (the echo) in turn.            *)
(*                                                                         *)
(* One step is one interlocked operation, one kernel call or one           *)
(* completion taken from the port.  The AddRef of a new context is part of *)
(* the step that posts it, and a post that fails leaves the count as it    *)
(* was (the constructor's AddRef and DeleteIoContext's ReleaseRef): the    *)
(* poster owns a reference, so no other thread can tell.                   *)
(* The receive buffer and the Player are not part of this module.          *)
(***************************************************************************)
EXTENDS Integers, Sequences, FiniteSets

CONSTANTS
  Session,              (* the MAX_CONNECTION sessions of the pool *)
  IoThread,             (* the I/O worker threads *)
  Main,                 (* the thread in IocpManager::StartAccept *)
  NoSession

ASSUME SessionAssumption == IsFiniteSet(Session) /\ NoSession \notin Session
ASSUME ThreadAssumption == IsFiniteSet(IoThread) /\ Main \notin IoThread

IOType == {"IO_SEND", "IO_RECV", "IO_RECV_ZERO", "IO_ACCEPT", "IO_DISCONNECT"}

\* The I/O that the handler of a completed one starts.
NextIo == [IO_ACCEPT    |-> "IO_RECV_ZERO",
           IO_RECV_ZERO |-> "IO_RECV",
           IO_RECV      |-> "IO_SEND",
           IO_SEND      |-> "IO_RECV_ZERO"]

MAX_CONNECTION == Cardinality(Session)

VARIABLES
  mConnected,           (* per session, 0 or 1 *)
  mRefCount,            (* per session *)
  mFreeSessionList,
  mCurrentlyIssued,     (* mCurrentIssueCount - mCurrentReturnCount *)
  mLockOwner,           (* who holds SessionManager::mLock, or NoSession *)
  posted,               (* per session and I/O type, the contexts in the kernel *)
  pc,                   (* per I/O thread and for Main, the place in the code *)
  hand,                 (* per thread, the session and type of the context it serves *)
  issueRef,             (* history: is the issue's reference still held (0 or 1) *)
  lost                  (* history: sessions a failed call left without further I/O *)

vars == <<mConnected, mRefCount, mFreeSessionList, mCurrentlyIssued, mLockOwner,
          posted, pc, hand, issueRef, lost>>

IoLocation == {"get", "accept", "check", "post", "request", "disconnectEx",
               "completion", "delete", "return", "reset"}
MainLocation == {"sleep", "issue", "postAccept", "stopped"}
Nothing == [session |-> NoSession, type |-> "IO_DISCONNECT"]

\* PrepareSessions pushes every session once, in some order.
Pool ==
  {list \in [1..MAX_CONNECTION -> Session] :
     /\ \A s \in Session : \E i \in 1..MAX_CONNECTION : list[i] = s
     /\ \A i, j \in 1..MAX_CONNECTION : list[i] = list[j] => i = j}

Init ==
  /\ mConnected = [s \in Session |-> 0]
  /\ mRefCount = [s \in Session |-> 0]
  /\ mFreeSessionList \in Pool
  /\ mCurrentlyIssued = 0
  /\ mLockOwner = NoSession
  /\ posted = [s \in Session |-> [io \in IOType |-> 0]]
  /\ pc = [t \in IoThread \cup {Main} |-> IF t = Main THEN "sleep" ELSE "get"]
  /\ hand = [t \in IoThread \cup {Main} |-> Nothing]
  /\ issueRef = [s \in Session |-> 0]
  /\ lost = {}

Goto(t, from, to) ==
  /\ pc[t] = from
  /\ pc' = [pc EXCEPT ![t] = to]

\* Faulty: the context takes no reference.
PostUncounted(s, io) ==
  /\ posted' = [posted EXCEPT ![s][io] = @ + 1]
  /\ UNCHANGED mRefCount

\* The kernel takes a new context of s, which holds a reference.
Post(s, io) ==
  /\ posted' = [posted EXCEPT ![s][io] = @ + 1]
  /\ mRefCount' = [mRefCount EXCEPT ![s] = @ + 1]

-----------------------------------------------------------------------------
(***************************************************************************)
(* Main: IocpManager::StartAccept calls AcceptSessions until it fails.     *)
(***************************************************************************)
AcceptSessions ==
  /\ Goto(Main, "sleep", "issue")
  /\ mLockOwner = NoSession
  /\ mLockOwner' = Main
  /\ UNCHANGED <<mConnected, mRefCount, mFreeSessionList, mCurrentlyIssued, posted, hand,
                 issueRef, lost>>

\* Faulty: no reference for the issue.
IssueUncounted ==
  /\ Goto(Main, "issue", "postAccept")
  /\ mCurrentlyIssued < MAX_CONNECTION
  /\ LET newClient == mFreeSessionList[Len(mFreeSessionList)]
     IN  /\ hand' = [hand EXCEPT ![Main] = [session |-> newClient, type |-> "IO_ACCEPT"]]
         /\ issueRef' = [issueRef EXCEPT ![newClient] = 1]
  /\ mFreeSessionList' = SubSeq(mFreeSessionList, 1, Len(mFreeSessionList) - 1)
  /\ mCurrentlyIssued' = mCurrentlyIssued + 1
  /\ UNCHANGED <<mConnected, mRefCount, mLockOwner, posted, lost>>

\* One turn of the loop up to PostAccept.  An empty list would be undefined behaviour.
IssueSession ==
  /\ Goto(Main, "issue", "postAccept")
  /\ mCurrentlyIssued < MAX_CONNECTION
  /\ LET newClient == mFreeSessionList[Len(mFreeSessionList)]
     IN  /\ hand' = [hand EXCEPT ![Main] = [session |-> newClient, type |-> "IO_ACCEPT"]]
         /\ mRefCount' = [mRefCount EXCEPT ![newClient] = @ + 1]
         /\ issueRef' = [issueRef EXCEPT ![newClient] = 1]
  /\ mFreeSessionList' = SubSeq(mFreeSessionList, 1, Len(mFreeSessionList) - 1)
  /\ mCurrentlyIssued' = mCurrentlyIssued + 1
  /\ UNCHANGED <<mConnected, mLockOwner, posted, lost>>

PostAccept ==
  /\ Goto(Main, "postAccept", "issue")
  /\ Post(hand[Main].session, "IO_ACCEPT")
  /\ hand' = [hand EXCEPT ![Main] = Nothing]
  /\ UNCHANGED <<mConnected, mFreeSessionList, mCurrentlyIssued, mLockOwner, issueRef, lost>>

\* AcceptEx fails: AcceptSessions returns false and StartAccept ends for good.
PostAcceptFails ==
  /\ Goto(Main, "postAccept", "stopped")
  /\ lost' = lost \cup {hand[Main].session}
  /\ hand' = [hand EXCEPT ![Main] = Nothing]
  /\ mLockOwner' = NoSession
  /\ UNCHANGED <<mConnected, mRefCount, mFreeSessionList, mCurrentlyIssued, posted, issueRef>>

AllIssued ==
  /\ Goto(Main, "issue", "sleep")
  /\ mCurrentlyIssued >= MAX_CONNECTION
  /\ mLockOwner' = NoSession
  /\ UNCHANGED <<mConnected, mRefCount, mFreeSessionList, mCurrentlyIssued, posted, hand,
                 issueRef, lost>>

-----------------------------------------------------------------------------
(***************************************************************************)
(* I/O threads: IocpManager::IoWorkerThread.                               *)
(***************************************************************************)
\* A completion leaves the port.  A receive or send that failed, transferred nothing or
\* was cut short ends the connection; the other types are handled whatever the result.
GetCompletion(t, s, io) ==
  /\ posted[s][io] > 0
  /\ posted' = [posted EXCEPT ![s][io] = @ - 1]
  /\ hand' = [hand EXCEPT ![t] = [session |-> s, type |-> io]]
  /\ \/ io = "IO_ACCEPT" /\ Goto(t, "get", "accept")
     \/ io = "IO_DISCONNECT" /\ Goto(t, "get", "completion")
     \/ io \in {"IO_RECV_ZERO", "IO_RECV", "IO_SEND"} /\ Goto(t, "get", "check")
     \/ io \in {"IO_RECV", "IO_SEND"} /\ Goto(t, "get", "request")
  /\ UNCHANGED <<mConnected, mRefCount, mFreeSessionList, mCurrentlyIssued, mLockOwner,
                 issueRef, lost>>

\* The socket calls may all succeed, or one of them fails.
AcceptCompletion(t) ==
  /\ Goto(t, "accept", "check") \/ Goto(t, "accept", "request")
  /\ mConnected' = [mConnected EXCEPT ![hand[t].session] = 1]
  /\ UNCHANGED <<mRefCount, mFreeSessionList, mCurrentlyIssued, mLockOwner, posted, hand,
                 issueRef, lost>>

\* PreRecv, PostRecv or PostSend looks at mConnected first.  Their callers answer false
\* with a DisconnectRequest, except AcceptCompletion, which only prints.
CheckConnected(t) ==
  /\ Goto(t, "check", IF mConnected[hand[t].session] = 1 THEN "post"
                      ELSE IF hand[t].type = "IO_ACCEPT" THEN "delete" ELSE "request")
  /\ UNCHANGED <<mConnected, mRefCount, mFreeSessionList, mCurrentlyIssued, mLockOwner, posted,
                 hand, issueRef, lost>>

\* Faulty: the next receive is posted together with the echo.
ReceiveWhileSending(t) ==
  /\ Goto(t, "post", "delete")
  /\ LET s == hand[t].session  io == hand[t].type
     IN  IF io = "IO_RECV"
         THEN /\ posted' = [posted EXCEPT ![s]["IO_SEND"] = @ + 1, ![s]["IO_RECV_ZERO"] = @ + 1]
              /\ mRefCount' = [mRefCount EXCEPT ![s] = @ + 2]
         ELSE Post(s, NextIo[io])
  /\ UNCHANGED <<mConnected, mFreeSessionList, mCurrentlyIssued, mLockOwner, hand, issueRef, lost>>

PostNextIo(t) ==
  /\ Goto(t, "post", "delete")
  /\ Post(hand[t].session, NextIo[hand[t].type])
  /\ UNCHANGED <<mConnected, mFreeSessionList, mCurrentlyIssued, mLockOwner, hand, issueRef, lost>>

\* WSARecv or WSASend fails, or PostRecv finds no room.
PostNextIoFails(t) ==
  /\ \/ Goto(t, "post", "request") /\ hand[t].type # "IO_ACCEPT" /\ UNCHANGED lost
     \/ Goto(t, "post", "delete") /\ hand[t].type = "IO_ACCEPT"
          /\ lost' = lost \cup {hand[t].session}
  /\ UNCHANGED <<mConnected, mRefCount, mFreeSessionList, mCurrentlyIssued, mLockOwner, posted,
                 hand, issueRef>>

\* Faulty: mConnected is tested and left for the completion to clear.
RequestReadsOnly(t) ==
  /\ Goto(t, "request", IF mConnected[hand[t].session] = 0 THEN "delete" ELSE "disconnectEx")
  /\ UNCHANGED <<mConnected, mRefCount, mFreeSessionList, mCurrentlyIssued, mLockOwner, posted,
                 hand, issueRef, lost>>

\* The exchange lets one caller per connection go on to DisconnectEx.
DisconnectRequest(t) ==
  /\ Goto(t, "request", IF mConnected[hand[t].session] = 0 THEN "delete" ELSE "disconnectEx")
  /\ mConnected' = [mConnected EXCEPT ![hand[t].session] = 0]
  /\ UNCHANGED <<mRefCount, mFreeSessionList, mCurrentlyIssued, mLockOwner, posted, hand,
                 issueRef, lost>>

DisconnectEx(t) ==
  /\ Goto(t, "disconnectEx", "delete")
  /\ Post(hand[t].session, "IO_DISCONNECT")
  /\ UNCHANGED <<mConnected, mFreeSessionList, mCurrentlyIssued, mLockOwner, hand, issueRef, lost>>

\* Nothing will release the issue's reference any more.
DisconnectExFails(t) ==
  /\ Goto(t, "disconnectEx", "delete")
  /\ lost' = lost \cup {hand[t].session}
  /\ UNCHANGED <<mConnected, mRefCount, mFreeSessionList, mCurrentlyIssued, mLockOwner, posted,
                 hand, issueRef>>

\* Faulty: the issue's reference is kept.
IssueNotReleased(t) ==
  /\ Goto(t, "completion", "delete")
  /\ issueRef' = [issueRef EXCEPT ![hand[t].session] = 0]
  /\ UNCHANGED <<mConnected, mRefCount, mFreeSessionList, mCurrentlyIssued, mLockOwner, posted,
                 hand, lost>>

\* ReleaseRef of the issue's reference; the disconnect context's own one keeps the
\* count above 0 (RefCountIsExact), so it is DeleteIoContext that may reach 0.
DisconnectCompletion(t) ==
  /\ Goto(t, "completion", "delete")
  /\ mRefCount' = [mRefCount EXCEPT ![hand[t].session] = @ - 1]
  /\ issueRef' = [issueRef EXCEPT ![hand[t].session] = 0]
  /\ UNCHANGED <<mConnected, mFreeSessionList, mCurrentlyIssued, mLockOwner, posted, hand, lost>>

\* Faulty: the end of the disconnect gives the session back, whoever still holds it.
DisconnectReturns(t) ==
  /\ \/ Goto(t, "delete", "return") /\ hand[t].type = "IO_DISCONNECT" /\ UNCHANGED hand
     \/ Goto(t, "delete", "get") /\ hand[t].type # "IO_DISCONNECT"
          /\ hand' = [hand EXCEPT ![t] = Nothing]
  /\ mRefCount' = [mRefCount EXCEPT ![hand[t].session] = @ - 1]
  /\ UNCHANGED <<mConnected, mFreeSessionList, mCurrentlyIssued, mLockOwner, posted, issueRef, lost>>

DeleteIoContext(t) ==
  /\ \/ Goto(t, "delete", "return") /\ mRefCount[hand[t].session] = 1 /\ UNCHANGED hand
     \/ Goto(t, "delete", "get") /\ mRefCount[hand[t].session] # 1
          /\ hand' = [hand EXCEPT ![t] = Nothing]
  /\ mRefCount' = [mRefCount EXCEPT ![hand[t].session] = @ - 1]
  /\ UNCHANGED <<mConnected, mFreeSessionList, mCurrentlyIssued, mLockOwner, posted, issueRef, lost>>

\* ReturnClientSession: the lock, then (ReturnIsSafe) the assertion.
ReturnClientSession(t) ==
  /\ Goto(t, "return", "reset")
  /\ mLockOwner = NoSession
  /\ mLockOwner' = t
  /\ UNCHANGED <<mConnected, mRefCount, mFreeSessionList, mCurrentlyIssued, posted, hand,
                 issueRef, lost>>

\* SessionReset and the rest of ReturnClientSession, up to the unlock.
SessionReset(t) ==
  /\ Goto(t, "reset", "get")
  /\ mConnected' = [mConnected EXCEPT ![hand[t].session] = 0]
  /\ mRefCount' = [mRefCount EXCEPT ![hand[t].session] = 0]
  /\ mFreeSessionList' = Append(mFreeSessionList, hand[t].session)
  /\ mCurrentlyIssued' = mCurrentlyIssued - 1
  /\ mLockOwner' = NoSession
  /\ hand' = [hand EXCEPT ![t] = Nothing]
  /\ UNCHANGED <<posted, issueRef, lost>>

MainStep == AcceptSessions \/ IssueSession \/ PostAccept \/ PostAcceptFails \/ AllIssued

\* A step of a thread that serves a completion.
Serve(t) ==
  \/ AcceptCompletion(t) \/ CheckConnected(t)
  \/ PostNextIo(t) \/ PostNextIoFails(t)
  \/ DisconnectRequest(t) \/ DisconnectEx(t) \/ DisconnectExFails(t)
  \/ DisconnectCompletion(t) \/ DeleteIoContext(t)
  \/ ReturnClientSession(t) \/ SessionReset(t)

Next ==
  \/ MainStep
  \/ \E t \in IoThread :
       Serve(t) \/ \E s \in Session, io \in IOType : GetCompletion(t, s, io)

\* Threads run.  Of the kernel only the disconnects are sure to complete: a client may
\* never connect, send or read.  SF, because the port hands out completions in the order
\* they came and because no thread is shut out for ever by the others' use of mLock.
Fairness ==
  /\ WF_vars(MainStep)
  /\ \A t \in IoThread : WF_vars(Serve(t)) /\ SF_vars(ReturnClientSession(t))
  /\ \A s \in Session : SF_vars(\E t \in IoThread : GetCompletion(t, s, "IO_DISCONNECT"))

Spec == Init /\ [][Next]_vars
FairSpec == Spec /\ Fairness

-----------------------------------------------------------------------------
\* The threads that hold a reference to s through the context in their hand.
InHand(s) ==
  {t \in IoThread : hand[t].session = s /\ pc[t] \notin {"get", "return", "reset"}}

InKernel(s) ==
  posted[s]["IO_SEND"] + posted[s]["IO_RECV"] + posted[s]["IO_RECV_ZERO"]
    + posted[s]["IO_ACCEPT"] + posted[s]["IO_DISCONNECT"]

Pooled(s) == \E i \in 1..Len(mFreeSessionList) : mFreeSessionList[i] = s

ThreadsAt(s, places) == {t \in IoThread : hand[t].session = s /\ pc[t] \in places}

TypeOK ==
  /\ mConnected \in [Session -> {0, 1}]
  /\ mRefCount \in [Session -> Nat]
  /\ mFreeSessionList \in Seq(Session)
  /\ mCurrentlyIssued \in 0..MAX_CONNECTION
  /\ mLockOwner \in IoThread \cup {Main, NoSession}
  /\ posted \in [Session -> [IOType -> Nat]]
  /\ pc \in [IoThread \cup {Main} -> IoLocation \cup MainLocation]
  /\ hand \in [IoThread \cup {Main} -> [session : Session \cup {NoSession}, type : IOType]]
  /\ issueRef \in [Session -> {0, 1}]
  /\ lost \subseteq Session

\* mRefCount counts exactly what keeps the session in use: the issue, the contexts in
\* the kernel and the contexts in the hands of threads.
RefCountIsExact ==
  \A s \in Session : mRefCount[s] = issueRef[s] + InKernel(s) + Cardinality(InHand(s))

\* The assertion of ReturnClientSession (SessionManager.cpp 45), and what it stands for:
\* the session given back is disconnected, referenced by nobody, in no kernel queue and
\* not in the pool already, and one thread returns it.
ReturnIsSafe ==
  \A t \in IoThread : pc[t] \in {"return", "reset"} =>
    LET s == hand[t].session
    IN  /\ mConnected[s] = 0 /\ mRefCount[s] = 0
        /\ InKernel(s) = 0 /\ InHand(s) = {}
        /\ ~Pooled(s)
        /\ \A u \in IoThread : pc[u] \in {"return", "reset"} /\ hand[u].session = s => u = t

\* CRASH_ASSERT(false) of AcceptCompletion (ClientSession.cpp 87) is not reached: the
\* completion of an accept finds its session unconnected.
AcceptFindsFresh ==
  \A t \in IoThread : pc[t] = "accept" => mConnected[hand[t].session] = 0

\* Each issue of a session is in one stage only: its accept is being posted, pending or
\* handled, or it is connected, or its one disconnect is being posted, pending or
\* handled; unless the accept or the disconnect could not be posted.
Stage(s) ==
  (IF pc[Main] = "postAccept" /\ hand[Main].session = s THEN 1 ELSE 0)
    + posted[s]["IO_ACCEPT"] + Cardinality(ThreadsAt(s, {"accept"}))
    + mConnected[s]
    + Cardinality(ThreadsAt(s, {"disconnectEx"}))
    + posted[s]["IO_DISCONNECT"] + Cardinality(ThreadsAt(s, {"completion"}))
OneStagePerIssue ==
  \A s \in Session :
    /\ Stage(s) <= issueRef[s]
    /\ s \notin lost => Stage(s) = issueRef[s]

\* At most one thread or one kernel operation works on a connection's data at a time.
OneIoAtATime ==
  \A s \in Session :
    posted[s]["IO_RECV_ZERO"] + posted[s]["IO_RECV"] + posted[s]["IO_SEND"]
      + Cardinality(ThreadsAt(s, {"check", "post"})) <= 1

\* AcceptSessions never takes the back of an empty list.
PoolHasSessionToIssue ==
  pc[Main] = "issue" /\ mCurrentlyIssued < MAX_CONNECTION => mFreeSessionList # << >>

\* Nobody brings a session back to life: only issuing it takes its count from 0.
OnlyIssueRevives ==
  [][\A s \in Session : mRefCount[s] = 0 /\ mRefCount'[s] > 0
       => pc[Main] = "issue" /\ hand'[Main].session = s]_vars

\* A session whose disconnect was posted comes back to the pool.
DisconnectedIsReturned ==
  \A s \in Session :
    posted[s]["IO_DISCONNECT"] > 0 ~> Pooled(s)
=============================================================================
