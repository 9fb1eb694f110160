---------------------------- MODULE SendPipeline ----------------------------
(***************************************************************************)
(* Sending in the final server (HW_08).  A packet handler only appends its *)
(* reply to the session's send buffer and puts the session on its thread's *)
(* LSendRequestSessionList.  After each turn of DoIocpJob the thread walks *)
(* that list in DoSendJob, and FlushSend hands the contiguous bytes to one *)
(* WSASend; a session that cannot be flushed yet goes to the failed list,  *)
(* which is the list of the next turn.  The key exchange alone is sent     *)
(* from the handler.                                                       *)
(*                                                                         *)
(* A list entry holds no reference, so a flush may meet a session that is  *)
(* being returned to the pool, or was issued again.                        *)
(*                                                                         *)
(* The send buffer is the byte queue of ByteFifo, one element per packet;  *)
(* its contiguous bytes are a non-empty prefix.  A step ends where another *)
(* thread could tell: at a lock, at an interlocked operation on a session  *)
(* whose references may all be gone, and at a kernel call.                 *)
(***************************************************************************)
EXTENDS Integers, FiniteSets, SequencesExt

CONSTANTS
  Session,              (* the MAX_CONNECTION sessions of the pool *)
  IoThread,             (* the I/O worker threads *)
  NoThread,
  MaxIssue,             (* bound: sessions issued in all *)
  MaxRequest            (* bound: packets received on one connection *)

ASSUME ThreadAssumption == IsFiniteSet(IoThread) /\ NoThread \notin IoThread
ASSUME SessionAssumption == IsFiniteSet(Session)
ASSUME BoundAssumption == MaxIssue \in Nat /\ MaxRequest \in Nat

VARIABLES
  mConnected, mRefCount, mSendPendingCount,
  mSendBuffer,          (* per session, the numbers of the stored packets *)
  mSendBufferLock,      (* per session, who holds it *)
  received,             (* per session, the packets received on this connection *)
  sends,                (* per session, the lengths of the sends in the kernel *)
  posted,               (* per session, the other contexts in the kernel *)
  mFreeSessionList,
  mCurrentIssueCount,
  mLock,                (* who holds ClientSessionManager::mLock *)
  accepting,            (* StartAccept is in its loop *)
  todo,                 (* per thread, the calls it still has to make *)
  at,                   (* per thread, the session it makes them on *)
  transferred,          (* per thread, the length of the send it handles or posts *)
  LSendRequestSessionList,
  LSendRequestFailedSessionList,
  crashed,              (* a CRASH_ASSERT failed *)
  handed,               (* history: per session, the packets sent on this connection *)
  strayed               (* history: a context was made for a session nobody held *)

session == <<mConnected, mRefCount, mSendPendingCount, mSendBuffer, mSendBufferLock>>
kernel == <<received, sends, posted, handed>>
pool == <<mFreeSessionList, mCurrentIssueCount, mLock, accepting>>
lists == <<LSendRequestSessionList, LSendRequestFailedSessionList>>
thread == <<todo, at, transferred>>
vars == <<session, kernel, pool, lists, thread, crashed, strayed>>

Call == {"accept", "receive", "preRecv", "commit", "flush", "flushLocked", "wsaSend",
         "unlock", "sent", "disconnect", "release", "return", "reset", "bufferReset",
         "sendJob"}

Init ==
  /\ mConnected = [s \in Session |-> 0]
  /\ mRefCount = [s \in Session |-> 0]
  /\ mSendPendingCount = [s \in Session |-> 0]
  /\ mSendBuffer = [s \in Session |-> << >>]
  /\ mSendBufferLock = [s \in Session |-> NoThread]
  /\ received = [s \in Session |-> 0]
  /\ sends = [s \in Session |-> << >>]
  /\ posted = [s \in Session |-> {}]
  /\ mFreeSessionList \in {list \in [1 .. Cardinality(Session) -> Session] :
                             \A s \in Session : \E i \in DOMAIN list : list[i] = s}
  /\ mCurrentIssueCount = 0
  /\ mLock = NoThread
  /\ accepting = TRUE
  /\ todo = [t \in IoThread |-> << >>]
  /\ at \in [IoThread -> Session]
  /\ transferred = [t \in IoThread |-> 0]
  /\ LSendRequestSessionList = [t \in IoThread |-> << >>]
  /\ LSendRequestFailedSessionList = [t \in IoThread |-> << >>]
  /\ crashed = FALSE
  /\ handed = [s \in Session |-> << >>]
  /\ strayed = FALSE

\* t makes the next call it has to make, which leads to the calls in more.  Nothing
\* runs once a CRASH_ASSERT failed.
Do(t, call, more) ==
  /\ crashed = FALSE
  /\ todo[t] # << >> /\ Head(todo[t]) = call
  /\ todo' = [todo EXCEPT ![t] = more \o Tail(@)]

AddRef(s) == mRefCount' = [mRefCount EXCEPT ![s] = @ + 1]

-----------------------------------------------------------------------------
(***************************************************************************)
(* The pool: AcceptClientSessions, and ReturnClientSession in three steps, *)
(* for SessionReset clears the count before it waits for mSendBufferLock.  *)
(***************************************************************************)
AcceptClientSessions ==
  /\ crashed = FALSE
  /\ accepting /\ mLock = NoThread
  /\ mCurrentIssueCount < MaxIssue
  /\ mFreeSessionList # << >>
  /\ mCurrentIssueCount' = mCurrentIssueCount + 1
  /\ LET s == mFreeSessionList[Len(mFreeSessionList)]
     IN  \/ /\ posted' = [posted EXCEPT ![s] = @ \cup {"accept"}]
            /\ mRefCount' = [mRefCount EXCEPT ![s] = @ + 2]     \* the issue and the context
            /\ UNCHANGED accepting
         \/ /\ AddRef(s)
            /\ accepting' = FALSE
            /\ UNCHANGED posted
  /\ mFreeSessionList' = SubSeq(mFreeSessionList, 1, Len(mFreeSessionList) - 1)
  /\ UNCHANGED <<mConnected, mSendPendingCount, mSendBuffer, mSendBufferLock,
                 received, sends, handed, mLock, lists, thread, crashed, strayed>>

ReturnClientSession(t) ==
  /\ Do(t, "return", <<"reset">>)
  /\ mLock = NoThread
  /\ mLock' = t
  /\ crashed' = ~(mConnected[at[t]] = 0 /\ mRefCount[at[t]] = 0)
  /\ UNCHANGED <<session, kernel, mFreeSessionList, mCurrentIssueCount, accepting, lists,
                 at, transferred, strayed>>

SessionReset(t) ==
  /\ Do(t, "reset", <<"bufferReset">>)
  /\ mConnected' = [mConnected EXCEPT ![at[t]] = 0]
  /\ mRefCount' = [mRefCount EXCEPT ![at[t]] = 0]
  /\ UNCHANGED <<mSendPendingCount, mSendBuffer, mSendBufferLock, kernel, pool, lists,
                 at, transferred, crashed, strayed>>

\* The rest of SessionReset, and of ReturnClientSession.
SendBufferReset(t) ==
  /\ Do(t, "bufferReset", << >>)
  /\ mSendBufferLock[at[t]] = NoThread
  /\ mSendBuffer' = [mSendBuffer EXCEPT ![at[t]] = << >>]
  /\ received' = [received EXCEPT ![at[t]] = 0]
  /\ handed' = [handed EXCEPT ![at[t]] = << >>]
  /\ mFreeSessionList' = Append(mFreeSessionList, at[t])
  /\ mLock' = NoThread
  /\ UNCHANGED <<mConnected, mRefCount, mSendPendingCount, mSendBufferLock, sends, posted,
                 mCurrentIssueCount, accepting, lists, at, transferred, crashed, strayed>>

\* ReleaseRef, alone or in DeleteIoContext.
ReleaseRef(t) ==
  /\ Do(t, "release", IF mRefCount[at[t]] = 1 THEN <<"return">> ELSE << >>)
  /\ mRefCount' = [mRefCount EXCEPT ![at[t]] = @ - 1]
  /\ crashed' = (mRefCount'[at[t]] < 0)
  /\ UNCHANGED <<mConnected, mSendPendingCount, mSendBuffer, mSendBufferLock, kernel, pool,
                 lists, at, transferred, strayed>>

\* DisconnectRequest: a DisconnectEx that fails leaves the count as it was.
DisconnectRequest(t) ==
  /\ Do(t, "disconnect", << >>)
  /\ mConnected' = [mConnected EXCEPT ![at[t]] = 0]
  /\ \/ /\ mConnected[at[t]] = 1
        /\ AddRef(at[t])
        /\ posted' = [posted EXCEPT ![at[t]] = @ \cup {"disconnect"}]
     \/ UNCHANGED <<mRefCount, posted>>
  /\ UNCHANGED <<mSendPendingCount, mSendBuffer, mSendBufferLock, received, sends, handed,
                 pool, lists, at, transferred, crashed, strayed>>

-----------------------------------------------------------------------------
(***************************************************************************)
(* DoIocpJob: one completion from the port, or its timeout.                *)
(***************************************************************************)
TimeOut(t) ==
  /\ crashed = FALSE
  /\ todo[t] = << >>
  /\ todo' = [todo EXCEPT ![t] = <<"sendJob">>]
  /\ UNCHANGED <<session, kernel, pool, lists, at, transferred, crashed, strayed>>

\* The handler is followed by DeleteIoContext and by DoSendJob.  A zero-byte receive
\* and the receive it leads to are one "receive": each holds one reference and ends in
\* the same request to disconnect.
Handle(t, s, calls) ==
  /\ crashed = FALSE
  /\ todo[t] = << >>
  /\ todo' = [todo EXCEPT ![t] = calls \o <<"release", "sendJob">>]
  /\ at' = [at EXCEPT ![t] = s]

GetCompletion(t, s) ==
  /\ \/ /\ "accept" \in posted[s]
        /\ Handle(t, s, <<"accept">>)
        /\ posted' = [posted EXCEPT ![s] = @ \ {"accept"}]
     \/ /\ "disconnect" \in posted[s]
        /\ Handle(t, s, <<"release">>)          \* the reference of the issue
        /\ posted' = [posted EXCEPT ![s] = @ \ {"disconnect"}]
     \/ /\ "receive" \in posted[s]
        /\ Handle(t, s, <<"receive">>) \/ Handle(t, s, <<"disconnect">>)
        /\ posted' = [posted EXCEPT ![s] = @ \ {"receive"}]
  /\ UNCHANGED <<session, received, sends, handed, pool, lists, transferred, crashed, strayed>>

\* A send went out whole, in part, or failed.
GetSendCompletion(t, s) ==
  /\ sends[s] # << >>
  /\ sends' = [sends EXCEPT ![s] = Tail(@)]
  /\ \/ /\ Handle(t, s, <<"sent">>)
        /\ transferred' = [transferred EXCEPT ![t] = Head(sends[s])]
        /\ UNCHANGED handed
     \/ \E unsent \in 1 .. Head(sends[s]) - 1 :
          /\ Handle(t, s, <<"sent", "disconnect">>)
          /\ transferred' = [transferred EXCEPT ![t] = Head(sends[s]) - unsent]
          /\ handed' = [handed EXCEPT ![s] = SubSeq(@, 1, Len(@) - unsent)]
     \/ Handle(t, s, <<"disconnect">>) /\ UNCHANGED <<transferred, handed>>
  /\ UNCHANGED <<session, received, posted, pool, lists, crashed, strayed>>

\* The accepted socket cannot be set up, or the first receive is posted or not.
AcceptCompletion(t) ==
  /\ mConnected' = [mConnected EXCEPT ![at[t]] = 1]
  /\ crashed' = (mConnected[at[t]] = 1)
  /\ \/ Do(t, "accept", <<"disconnect">>) /\ UNCHANGED <<mRefCount, posted>>
     \/ Do(t, "accept", << >>) /\ UNCHANGED <<mRefCount, posted>>
     \/ /\ Do(t, "accept", << >>)
        /\ AddRef(at[t])
        /\ posted' = [posted EXCEPT ![at[t]] = @ \cup {"receive"}]
  /\ UNCHANGED <<mSendPendingCount, mSendBuffer, mSendBufferLock, received, sends, handed,
                 pool, lists, at, transferred, strayed>>

\* RecvCompletion: nothing complete was received, or a packet, whose handler
\* calls SendRequest with the reply.
RecvCompletion(t) ==
  /\ \/ Do(t, "receive", <<"preRecv">>) /\ UNCHANGED received
     \/ /\ received[at[t]] < MaxRequest
        /\ received' = [received EXCEPT ![at[t]] = @ + 1]
        /\ Do(t, "receive",
              IF mConnected[at[t]] = 1 THEN <<"commit", "preRecv">> ELSE <<"preRecv">>)
  /\ UNCHANGED <<session, sends, posted, handed, pool, lists, at, transferred, crashed, strayed>>

PreRecv(t) ==
  /\ \/ /\ mConnected[at[t]] = 1
        /\ Do(t, "preRecv", << >>)
        /\ AddRef(at[t])
        /\ posted' = [posted EXCEPT ![at[t]] = @ \cup {"receive"}]
     \/ Do(t, "preRecv", <<"disconnect">>) /\ UNCHANGED <<mRefCount, posted>>
  /\ UNCHANGED <<mConnected, mSendPendingCount, mSendBuffer, mSendBufferLock, received, sends,
                 handed, pool, lists, at, transferred, crashed, strayed>>

-----------------------------------------------------------------------------
(***************************************************************************)
(* Sending.                                                                *)
(***************************************************************************)
\* Faulty: the context takes no reference.
SendContextUncounted(t, buffer) ==
  /\ mSendBufferLock' = [mSendBufferLock EXCEPT ![at[t]] = t]
  /\ UNCHANGED mRefCount
  /\ \E n \in 1 .. Len(buffer) : transferred' = [transferred EXCEPT ![t] = n]

\* A context for a piece of the buffer's start: the contiguous bytes.
NewSendContext(t, buffer) ==
  /\ mSendBufferLock' = [mSendBufferLock EXCEPT ![at[t]] = t]
  /\ AddRef(at[t])
  /\ \E n \in 1 .. Len(buffer) : transferred' = [transferred EXCEPT ![t] = n]

\* SendRequest with the lock: the reply is dropped for lack of space, or stored and,
\* the first one being the key exchange, sent at once or left to DoSendJob.
SendRequest(t) ==
  LET s == at[t]
      stored == Append(mSendBuffer[s], received[s])
  IN  /\ mSendBufferLock[s] = NoThread
      /\ \/ /\ Do(t, "commit", << >>)
            /\ UNCHANGED <<mSendBuffer, mSendBufferLock, mRefCount, transferred,
                           LSendRequestSessionList>>
         \/ /\ received[s] = 1
            /\ Do(t, "commit", <<"wsaSend">>)
            /\ mSendBuffer' = [mSendBuffer EXCEPT ![s] = stored]
            /\ NewSendContext(t, stored)
            /\ UNCHANGED LSendRequestSessionList
         \/ /\ received[s] > 1
            /\ Do(t, "commit", << >>)
            /\ mSendBuffer' = [mSendBuffer EXCEPT ![s] = stored]
            /\ LSendRequestSessionList' = [LSendRequestSessionList EXCEPT ![t] = Append(@, s)]
            /\ UNCHANGED <<mSendBufferLock, mRefCount, transferred>>
      /\ UNCHANGED <<mConnected, mSendPendingCount, kernel, pool,
                     LSendRequestFailedSessionList, at, crashed, strayed>>


\* DoSendJob takes the next session of the list, or ends and swaps the lists.
DoSendJob(t) ==
  /\ IF LSendRequestSessionList[t] # << >>
     THEN /\ Do(t, "sendJob", <<"flush", "sendJob">>)
          /\ at' = [at EXCEPT ![t] = Head(LSendRequestSessionList[t])]
          /\ LSendRequestSessionList' = [LSendRequestSessionList EXCEPT ![t] = Tail(@)]
          /\ UNCHANGED LSendRequestFailedSessionList
     ELSE /\ Do(t, "sendJob", << >>)
          /\ LSendRequestSessionList' =
               [LSendRequestSessionList EXCEPT ![t] = LSendRequestFailedSessionList[t]]
          /\ LSendRequestFailedSessionList' = [LSendRequestFailedSessionList EXCEPT ![t] = << >>]
          /\ UNCHANGED at
  /\ UNCHANGED <<session, kernel, pool, transferred, crashed, strayed>>

FlushSend(t) ==
  /\ Do(t, "flush", IF mConnected[at[t]] = 0 THEN <<"disconnect">> ELSE <<"flushLocked">>)
  /\ UNCHANGED <<session, kernel, pool, lists, at, transferred, crashed, strayed>>

\* Faulty: a session with a send pending is taken for flushed.
RetryForgotten(t) ==
  LET s == at[t]
  IN  /\ mSendBufferLock[s] = NoThread
      /\ \/ /\ mSendPendingCount[s] > 0 \/ mSendBuffer[s] = << >>
            /\ Do(t, "flushLocked", << >>)
            /\ UNCHANGED <<mRefCount, mSendBufferLock, transferred, strayed>>
         \/ /\ mSendPendingCount[s] = 0 /\ mSendBuffer[s] # << >>
            /\ Do(t, "flushLocked", <<"wsaSend">>)
            /\ NewSendContext(t, mSendBuffer[s])
            /\ strayed' = (strayed \/ mRefCount[s] = 0)
      /\ UNCHANGED <<mConnected, mSendPendingCount, mSendBuffer, kernel, pool, lists, at, crashed>>

\* Faulty: mSendPendingCount is not tested.
FlushWhilePending(t) ==
  LET s == at[t]
  IN  /\ mSendBufferLock[s] = NoThread
      /\ \/ /\ mSendBuffer[s] = << >>
            /\ Do(t, "flushLocked", << >>)
            /\ UNCHANGED <<mRefCount, mSendBufferLock, transferred, strayed>>
         \/ /\ mSendBuffer[s] # << >>
            /\ Do(t, "flushLocked", <<"wsaSend">>)
            /\ NewSendContext(t, mSendBuffer[s])
            /\ strayed' = (strayed \/ mRefCount[s] = 0)
      /\ UNCHANGED <<mConnected, mSendPendingCount, mSendBuffer, kernel, pool, lists, at, crashed>>

\* FlushSend with the lock.
FlushStored(t) ==
  LET s == at[t]
      retry == LSendRequestFailedSessionList' =
                 [LSendRequestFailedSessionList EXCEPT ![t] = Append(@, s)]
  IN  /\ mSendBufferLock[s] = NoThread
      /\ \/ /\ mSendPendingCount[s] > 0
            /\ Do(t, "flushLocked", << >>)
            /\ retry
            /\ UNCHANGED <<mRefCount, mSendBufferLock, transferred, strayed>>
         \/ /\ mSendPendingCount[s] = 0 /\ mSendBuffer[s] = << >>
            /\ Do(t, "flushLocked", << >>)
            /\ UNCHANGED <<mRefCount, mSendBufferLock, transferred, strayed,
                           LSendRequestFailedSessionList>>
         \/ /\ mSendPendingCount[s] = 0 /\ mSendBuffer[s] # << >>
            /\ Do(t, "flushLocked", <<"wsaSend">>)
            /\ NewSendContext(t, mSendBuffer[s])
            /\ strayed' = (strayed \/ mRefCount[s] = 0)
            /\ UNCHANGED LSendRequestFailedSessionList
      /\ UNCHANGED <<mConnected, mSendPendingCount, mSendBuffer, kernel, pool,
                     LSendRequestSessionList, at, crashed>>

\* Faulty: the send is not counted as pending.
SendUncounted(t) ==
  LET s == at[t]
  IN  /\ \/ /\ Do(t, "wsaSend", << >>)
            /\ sends' = [sends EXCEPT ![s] = Append(@, transferred[t])]
            /\ handed' = [handed EXCEPT ![s] = @ \o SubSeq(mSendBuffer[s], 1, transferred[t])]
            /\ mSendBufferLock' = [mSendBufferLock EXCEPT ![s] = NoThread]
         \/ /\ Do(t, "wsaSend", <<"release", "disconnect", "unlock">>)
            /\ UNCHANGED <<sends, handed, mSendBufferLock>>
      /\ UNCHANGED <<mConnected, mRefCount, mSendPendingCount, mSendBuffer, received, posted,
                     pool, lists, at, transferred, crashed, strayed>>

\* The WSASend of either, and the release of the lock.
WSASend(t) ==
  LET s == at[t]
  IN  /\ \/ /\ Do(t, "wsaSend", << >>)
            /\ sends' = [sends EXCEPT ![s] = Append(@, transferred[t])]
            /\ handed' = [handed EXCEPT ![s] = @ \o SubSeq(mSendBuffer[s], 1, transferred[t])]
            /\ mSendPendingCount' = [mSendPendingCount EXCEPT ![s] = @ + 1]
            /\ mSendBufferLock' = [mSendBufferLock EXCEPT ![s] = NoThread]
         \/ /\ Do(t, "wsaSend", <<"release", "disconnect", "unlock">>)
            /\ UNCHANGED <<sends, handed, mSendPendingCount, mSendBufferLock>>
      /\ UNCHANGED <<mConnected, mRefCount, mSendBuffer, received, posted, pool, lists,
                     at, transferred, crashed, strayed>>

Unlock(t) ==
  /\ Do(t, "unlock", << >>)
  /\ mSendBufferLock' = [mSendBufferLock EXCEPT ![at[t]] = NoThread]
  /\ UNCHANGED <<mConnected, mRefCount, mSendPendingCount, mSendBuffer, kernel, pool, lists,
                 at, transferred, crashed, strayed>>

\* Faulty: the sent bytes stay in the buffer.
RemoveForgotten(t) ==
  LET s == at[t]
  IN  /\ Do(t, "sent", << >>)
      /\ mSendBufferLock[s] = NoThread
      /\ mSendPendingCount' = [mSendPendingCount EXCEPT ![s] = @ - 1]
      /\ UNCHANGED <<mConnected, mRefCount, mSendBuffer, mSendBufferLock, kernel, pool, lists, at,
                     transferred, crashed, strayed>>

SendCompletion(t) ==
  LET s == at[t]
  IN  /\ Do(t, "sent", << >>)
      /\ mSendBufferLock[s] = NoThread
      /\ mSendBuffer' = [mSendBuffer EXCEPT ![s] = SubSeq(@, transferred[t] + 1, Len(@))]
      /\ mSendPendingCount' = [mSendPendingCount EXCEPT ![s] = @ - 1]
      /\ UNCHANGED <<mConnected, mRefCount, mSendBufferLock, kernel, pool, lists, at,
                     transferred, crashed, strayed>>

Proceed(t) ==
  \/ ReturnClientSession(t) \/ SessionReset(t) \/ SendBufferReset(t) \/ ReleaseRef(t)
  \/ DisconnectRequest(t) \/ TimeOut(t) \/ AcceptCompletion(t) \/ RecvCompletion(t)
  \/ PreRecv(t) \/ SendRequest(t) \/ DoSendJob(t) \/ FlushSend(t) \/ FlushStored(t)
  \/ WSASend(t) \/ Unlock(t) \/ SendCompletion(t)

Next ==
  \/ AcceptClientSessions
  \/ \E t \in IoThread :
       Proceed(t) \/ \E s \in Session : GetCompletion(t, s) \/ GetSendCompletion(t, s)

\* Threads run, a spinning one gets the lock in the end (a lock is taken boundedly often),
\* and the kernel finishes every send it took: it succeeds or fails.  SF, because a thread
\* that comes back to the port takes a waiting completion rather than the timeout.
Fairness ==
  /\ \A t \in IoThread : WF_vars(Proceed(t))
  /\ \A s \in Session : SF_vars(\E t \in IoThread : GetSendCompletion(t, s))

Spec == Init /\ [][Next]_vars
FairSpec == Spec /\ Fairness
-----------------------------------------------------------------------------
TypeOK ==
  /\ mConnected \in [Session -> 0 .. 1]
  /\ mRefCount \in [Session -> Int]
  /\ mSendPendingCount \in [Session -> Nat]
  /\ mSendBuffer \in [Session -> Seq(1 .. MaxRequest)]
  /\ mSendBufferLock \in [Session -> IoThread \cup {NoThread}]
  /\ received \in [Session -> 0 .. MaxRequest]
  /\ sends \in [Session -> Seq(Nat \ {0})]
  /\ posted \in [Session -> SUBSET {"accept", "receive", "disconnect"}]
  /\ mFreeSessionList \in Seq(Session)
  /\ mCurrentIssueCount \in 0 .. MaxIssue
  /\ mLock \in IoThread \cup {NoThread}
  /\ accepting \in BOOLEAN /\ crashed \in BOOLEAN /\ strayed \in BOOLEAN
  /\ todo \in [IoThread -> Seq(Call)]
  /\ at \in [IoThread -> Session]
  /\ transferred \in [IoThread -> Nat]
  /\ LSendRequestSessionList \in [IoThread -> Seq(Session)]
  /\ LSendRequestFailedSessionList \in [IoThread -> Seq(Session)]
  /\ handed \in [Session -> Seq(1 .. MaxRequest)]

Calling(t, call) == todo[t] # << >> /\ Head(todo[t]) = call

Posting(s) == {t \in IoThread : at[t] = s /\ Calling(t, "wsaSend")}
Completing(s) == {t \in IoThread : at[t] = s /\ Calling(t, "sent")}

\* Until a flush makes a context for a session nobody holds, every CRASH_ASSERT of the
\* send path holds: AcceptCompletion finds an unconnected session (ClientSession.cpp 89),
\* no count falls below 0 (Session.cpp 232) and a session is returned unreferenced and
\* unconnected (ClientSessionManager.cpp 40), although the lists hold no references.
AssertsHold == strayed \/ ~crashed

\* Until a flush has strayed, a connection has one WSASend at a time: FlushSend's test of
\* mSendPendingCount holds against the sends of every thread, those in the kernel and
\* those being completed.
OneSendAtATime ==
  strayed \/ \A s \in Session : Len(sends[s]) + Cardinality(Posting(s) \cup Completing(s)) <= 1

\* Until a flush has strayed, the replies of one connection leave in the order of their
\* requests and each once, whichever threads handle the requests and flush them.  (A stray
\* context makes one reference too few, so that a session may be returned below a handler,
\* which then replies to the next connection.)
SentInOrder ==
  strayed \/ \A s \in Session : \A i, j \in DOMAIN handed[s] : i < j => handed[s][i] < handed[s][j]

Waiting(s) == {k \in ToSet(mSendBuffer[s]) : k \notin ToSet(handed[s])}

\* Connected, and no thread is about to end the connection.
Open(s) ==
  /\ mConnected[s] = 1
  /\ \A t \in IoThread : at[t] = s => "disconnect" \notin ToSet(todo[t])

\* The places of t's where s waits to be flushed, and the packets of the send it posts.
Places(t, s) ==
  LET entries(list) == {i \in DOMAIN list : list[i] = s}
  IN  ({"request"} \X entries(LSendRequestSessionList[t]))
        \cup ({"failed"} \X entries(LSendRequestFailedSessionList[t]))
        \cup {p \in {<<"flush", 1>>} :
                at[t] = s /\ (Calling(t, "flush") \/ Calling(t, "flushLocked"))}
        \cup {p \in {"send"} \X (1 .. transferred[t]) : at[t] = s /\ Calling(t, "wsaSend")}

Listings(s) == UNION {{t} \X Places(t, s) : t \in IoThread}

\* Until a flush has strayed, no wake-up is lost: a connection with stored packets that were
\* not sent is on the list of some thread, or is being flushed, once for every such packet
\* at least.
WaitingIsListed ==
  strayed \/ \A s \in Session : Open(s) => Cardinality(Waiting(s)) <= Cardinality(Listings(s))

Stale(s) == mSendPendingCount[s] > Len(sends[s]) + Cardinality(Completing(s))

\* The assertion of ReturnClientSession (ClientSessionManager.cpp 40): the session that is
\* returned is unconnected and unreferenced.
ReturnedIsIdle ==
  \A t \in IoThread : Calling(t, "return") => mConnected[at[t]] = 0 /\ mRefCount[at[t]] = 0

\* The comment of FlushSend's test (Session.cpp 153), for a connection nobody is about to
\* end: a positive mSendPendingCount means that an earlier send is not completed.
PendingMeansIncomplete ==
  \A s \in Session : Open(s) /\ mSendPendingCount[s] > 0 => sends[s] # << >> \/ Completing(s) # {}

=============================================================================
