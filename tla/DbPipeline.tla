----------------------------- MODULE DbPipeline -----------------------------
(***************************************************************************)
(* The database pipeline of HW_07.  An accepted connection asks for its    *)
(* player: RequestLoad posts a context to the port of the database threads *)
(* and goes on; one of them executes the statement and posts the context   *)
(* to the port of the I/O threads, one of which puts the result into the   *)
(* session.  The same I/O threads receive, echo and send, and DoSendJob of *)
(* this version retries one session until its FlushSend succeeds.          *)
(*                                                                         *)
(* A step of an I/O thread ends where another thread could tell: at a      *)
(* lock, at a test or an interlocked operation on a session of which the   *)
(* thread holds no reference (a list entry holds none), and at a kernel    *)
(* call.  Buffers are counts of messages that never fill and are sent      *)
(* whole; the order within a port is left open, since the threads that     *)
(* take from it run side by side.  The requests of Player that nobody      *)
(* calls, and an AcceptEx that fails, are left out.                        *)
(***************************************************************************)
EXTENDS Integers, Sequences, FiniteSets

CONSTANTS
  Session,
  IoThread,
  NoThread,
  MaxIssue,             (* bound: connections in all *)
  MaxEcho               (* bound: messages received in all *)

ASSUME ThreadAssumption == IsFiniteSet(IoThread) /\ NoThread \notin IoThread
ASSUME BoundAssumption == MaxIssue \in Nat /\ MaxEcho \in Nat

NoPlayer == -1
FirstId == 101

IOType == {"IO_ACCEPT", "IO_RECV_ZERO", "IO_RECV", "IO_SEND", "IO_DISCONNECT", "CK_DB_RESULT"}

\* An OverlappedIOContext or a DatabaseJobContext.  n is the length of a send or what was
\* sent of it, or a player id; ok is the result.  issue is history: the connection it is for.
Context == [io : IOType, session : Session, issue : 0 .. MaxIssue,
            n : (0 .. MaxEcho) \cup (FirstId .. FirstId + MaxIssue), ok : BOOLEAN]

None == [io |-> "none"]

VARIABLES
  mFreeSessionList, mConnected, mRefCount, mPlayerId,
  stored,               (* messages in mSendBuffer *)
  mSendPendingCount,
  mSendBufferLock,      (* per session, who holds it *)
  mLock,                (* who holds ClientSessionManager::mLock *)
  id,                   (* AcceptCompletion's static *)
  mDbCompletionPort,    (* the requests to the database threads *)
  mCompletionPort,      (* contexts the kernel holds, and completions and results *)
  pc, at, context, old, (* an I/O thread: where it is, its session, its context, the id it read *)
  returning,            (* how far it is in ReturnClientSession, called from where it is *)
  LSendRequestSessionList,
  crashed,              (* a CRASH_ASSERT failed *)
  strayed,              (* history: a flush made a context for a session nobody held *)
  issued, issue, asked, (* history: connections in all; of a session, its number and request *)
  answered,             (* history: the connections that got a result *)
  inherited,            (* history: mSendPendingCount when the session was issued *)
  echoes                (* messages received in all *)

player == <<mPlayerId, id, old>>
connection == <<mConnected, mRefCount>>
sending == <<stored, mSendPendingCount, mSendBufferLock>>
pool == <<mFreeSessionList, mLock, returning>>
ports == <<mDbCompletionPort, mCompletionPort>>
thread == <<pc, at, context, LSendRequestSessionList>>
ghost == <<crashed, strayed>>
history == <<issued, issue, asked, answered, inherited, echoes>>
vars == <<player, connection, sending, pool, ports, thread, ghost, history>>

Location == {"idle", "handle", "load", "read", "write", "echo", "preRecv", "disconnect", "delete",
             "drop", "flush", "wsaSend", "count", "release", "fail"}
Return == {"no", "return", "reset", "clear"}

Init ==
  /\ mFreeSessionList = Session
  /\ mConnected = [s \in Session |-> 0]
  /\ mRefCount = [s \in Session |-> 0]
  /\ mPlayerId = [s \in Session |-> NoPlayer]
  /\ stored = [s \in Session |-> 0]
  /\ mSendPendingCount = [s \in Session |-> 0]
  /\ mSendBufferLock = [s \in Session |-> NoThread]
  /\ mLock = NoThread
  /\ id = FirstId
  /\ mDbCompletionPort = {} /\ mCompletionPort = {}
  /\ pc = [t \in IoThread |-> "idle"]
  /\ at \in [IoThread -> Session]
  /\ context = [t \in IoThread |-> None]
  /\ old = [t \in IoThread |-> 0]
  /\ returning = [t \in IoThread |-> "no"]
  /\ LSendRequestSessionList = [t \in IoThread |-> << >>]
  /\ crashed = FALSE /\ strayed = FALSE
  /\ issued = 0 /\ answered = {} /\ echoes = 0
  /\ issue = [s \in Session |-> 0]
  /\ asked = [s \in Session |-> NoPlayer]
  /\ inherited = [s \in Session |-> 0]

NewContext(io, s, n) == [io |-> io, session |-> s, issue |-> issue[s], n |-> n, ok |-> TRUE]

\* Faulty: a database context holds no reference.
IoReferences(s, ios) ==
  mRefCount' = [mRefCount EXCEPT ![s] = @ + Cardinality({c \in ios : c.io # "CK_DB_RESULT"})]

\* Each context that is made for a session holds a reference to it.
AddRef(s, contexts) == mRefCount' = [mRefCount EXCEPT ![s] = @ + Cardinality(contexts)]

\* The operations of these types are posted, with the references of their contexts.
Post(s, ios) ==
  LET contexts == {NewContext(io, s, 0) : io \in ios}
  IN  mCompletionPort' = mCompletionPort \cup contexts /\ AddRef(s, contexts)

\* DisconnectRequest: nothing when it was called before; DisconnectEx may fail.
DisconnectRequest(s) ==
  /\ mConnected' = [mConnected EXCEPT ![s] = 0]
  /\ \E ios \in {{}, IF mConnected[s] = 1 THEN {"IO_DISCONNECT"} ELSE {}} : Post(s, ios)
  /\ UNCHANGED mDbCompletionPort

-----------------------------------------------------------------------------
(***************************************************************************)
(* The main thread, the kernel and the database threads.                   *)
(***************************************************************************)
AcceptClientSessions(s) ==
  /\ mLock = NoThread
  /\ issued < MaxIssue
  /\ s \in mFreeSessionList
  /\ mFreeSessionList' = mFreeSessionList \ {s}
  /\ issued' = issued + 1
  /\ issue' = [issue EXCEPT ![s] = issued + 1]
  /\ asked' = [asked EXCEPT ![s] = NoPlayer]
  /\ inherited' = [inherited EXCEPT ![s] = mSendPendingCount[s]]
  /\ mRefCount' = [mRefCount EXCEPT ![s] = @ + 2]
  /\ mCompletionPort' =
       mCompletionPort \cup {[NewContext("IO_ACCEPT", s, 0) EXCEPT !.issue = issued + 1]}
  /\ UNCHANGED <<player, mConnected, sending, mLock, returning, mDbCompletionPort, thread, ghost,
                 answered, echoes>>

\* Faulty: nothing is posted when the statement fails.
OnlySuccessPosted ==
  \E c \in mDbCompletionPort :
    /\ mDbCompletionPort' = mDbCompletionPort \ {c}
    /\ \E mSuccess \in BOOLEAN :
         mCompletionPort' = IF mSuccess THEN mCompletionPort \cup {c} ELSE mCompletionPort
    /\ UNCHANGED <<player, connection, sending, pool, thread, ghost, history>>

\* A whole job of a database thread; nobody sees anything of it before its result is posted.
DoDatabaseJob ==
  \E c \in mDbCompletionPort :
    /\ mDbCompletionPort' = mDbCompletionPort \ {c}
    /\ \E mSuccess \in BOOLEAN :
         mCompletionPort' = mCompletionPort \cup {[c EXCEPT !.ok = mSuccess]}
    /\ UNCHANGED <<player, connection, sending, pool, thread, ghost, history>>

-----------------------------------------------------------------------------
(***************************************************************************)
(* The last reference: ReturnClientSession, wherever ReleaseRef was called *)
(* from, in three steps.                                                   *)
(***************************************************************************)
ReleaseRef(t) ==
  LET s == at[t]
  IN  /\ mRefCount' = [mRefCount EXCEPT ![s] = @ - 1]
      /\ returning' = [returning EXCEPT ![t] = IF mRefCount[s] = 1 THEN "return" ELSE @]
      /\ crashed' = (mRefCount[s] < 1)

ReturnClientSession(t) ==
  /\ returning[t] = "return"
  /\ mLock = NoThread
  /\ mLock' = t
  /\ crashed' = ~(mConnected[at[t]] = 0 /\ mRefCount[at[t]] = 0)
  /\ returning' = [returning EXCEPT ![t] = "reset"]
  /\ UNCHANGED <<player, connection, sending, mFreeSessionList, ports, thread, strayed, history>>

\* The head of SessionReset, which clears the count before it waits for mSendBufferLock.
SessionReset(t) ==
  /\ returning[t] = "reset"
  /\ mConnected' = [mConnected EXCEPT ![at[t]] = 0]
  /\ mRefCount' = [mRefCount EXCEPT ![at[t]] = 0]
  /\ returning' = [returning EXCEPT ![t] = "clear"]
  /\ UNCHANGED <<player, sending, mFreeSessionList, mLock, ports, thread, ghost, history>>

\* The rest of it, which leaves the count of pending sends, and of ReturnClientSession.
SendBufferReset(t) ==
  /\ returning[t] = "clear"
  /\ mSendBufferLock[at[t]] = NoThread
  /\ stored' = [stored EXCEPT ![at[t]] = 0]
  /\ mPlayerId' = [mPlayerId EXCEPT ![at[t]] = NoPlayer]
  /\ mFreeSessionList' = mFreeSessionList \cup {at[t]}
  /\ mLock' = NoThread
  /\ returning' = [returning EXCEPT ![t] = "no"]
  /\ UNCHANGED <<id, old, connection, mSendPendingCount, mSendBufferLock, ports, thread, ghost,
                 history>>

-----------------------------------------------------------------------------
(***************************************************************************)
(* An I/O thread: DoIocpJob.                                               *)
(***************************************************************************)
Goto(t, from, to) ==
  /\ returning[t] = "no" /\ pc[t] = from
  /\ pc' = [pc EXCEPT ![t] = to]

\* What may come of an operation.  A receive that is not ok is the end of the connection; of
\* a send all is sent, a part of it, or nothing; PostRecv does not look at the result.
Completed(c) ==
  CASE c.io = "IO_SEND" -> {[c EXCEPT !.n = n, !.ok = (n = c.n)] : n \in 0 .. c.n}
    [] c.io = "IO_RECV" -> {[c EXCEPT !.ok = ok] : ok \in {FALSE} \cup {echoes < MaxEcho}}
    [] OTHER -> {c}

\* Nothing was transferred: DoIocpJob disconnects without a call of the handler.
Broken(c) == (c.io = "IO_SEND" /\ c.n = 0) \/ (c.io = "IO_RECV" /\ ~c.ok)

\* A thread with nothing to send takes what has completed; the clients decide when an accept or a receive does.
GetQueuedCompletionStatus(t, ios) ==
  /\ LSendRequestSessionList[t] = << >>
  /\ \E c \in {d \in mCompletionPort : d.io \in ios} :
       /\ mCompletionPort' = mCompletionPort \ {c}
       /\ at' = [at EXCEPT ![t] = c.session]
       /\ \E completed \in Completed(c) :
            /\ context' = [context EXCEPT ![t] = completed]
            /\ echoes' = echoes + (IF c.io = "IO_RECV" /\ completed.ok THEN 1 ELSE 0)
            /\ Goto(t, "idle", IF Broken(completed) THEN "disconnect" ELSE "handle")
  /\ UNCHANGED <<player, connection, sending, pool, mDbCompletionPort, LSendRequestSessionList,
                 ghost, issued, issue, asked, answered, inherited>>

\* The thread handles a context of this type, and goes on there.
Handle(t, io, to) == context[t].io = io /\ Goto(t, "handle", to)

\* Either a socket option fails, or the first receive is posted (whose failure is ignored)
\* and the player is asked for.
AcceptCompletion(t) ==
  /\ mConnected' = [mConnected EXCEPT ![at[t]] = 1]
  /\ crashed' = (mConnected[at[t]] = 1)
  /\ \/ Handle(t, "IO_ACCEPT", "disconnect") /\ UNCHANGED <<mRefCount, mCompletionPort>>
     \/ Handle(t, "IO_ACCEPT", "load") /\ \E ios \in {{}, {"IO_RECV_ZERO"}} : Post(at[t], ios)
  /\ UNCHANGED <<player, sending, pool, mDbCompletionPort, at, context, LSendRequestSessionList,
                 strayed, history>>

\* RequestLoad(id).
RequestLoad(t) ==
  LET request == NewContext("CK_DB_RESULT", at[t], id)
  IN  /\ Goto(t, "load", "read")
      /\ mDbCompletionPort' = mDbCompletionPort \cup {request}
      /\ AddRef(at[t], {request})
      /\ asked' = [asked EXCEPT ![at[t]] = id]
      /\ UNCHANGED <<player, mConnected, sending, pool, mCompletionPort, at, context,
                     LSendRequestSessionList, ghost, issued, issue, answered, inherited, echoes>>

\* id++, by threads that do not lock.
ReadId(t) ==
  /\ Goto(t, "read", "write")
  /\ old' = [old EXCEPT ![t] = id]
  /\ UNCHANGED <<mPlayerId, id, connection, sending, pool, ports, at, context,
                 LSendRequestSessionList, ghost, history>>

WriteId(t) ==
  /\ Goto(t, "write", "delete")
  /\ id' = old[t] + 1
  /\ old' = [old EXCEPT ![t] = 0]
  /\ UNCHANGED <<mPlayerId, connection, sending, pool, ports, at, context,
                 LSendRequestSessionList, ghost, history>>

\* PreRecv or PostRecv succeeds, or fails and a disconnect will be requested.
PostReceive(t, from, io) ==
  /\ \/ /\ mConnected[at[t]] = 1
        /\ Goto(t, from, "delete")
        /\ Post(at[t], {io})
     \/ Goto(t, from, "disconnect") /\ UNCHANGED <<mCompletionPort, mRefCount>>
  /\ UNCHANGED <<player, mConnected, sending, pool, mDbCompletionPort, at, context,
                 LSendRequestSessionList, ghost, history>>

PostRecv(t) == context[t].io = "IO_RECV_ZERO" /\ PostReceive(t, "handle", "IO_RECV")
PreRecv(t) == PostReceive(t, "preRecv", "IO_RECV_ZERO")

\* RecvCompletion, and the test at the head of EchoBack's PostSend.
RecvCompletion(t) ==
  /\ Handle(t, "IO_RECV", IF mConnected[at[t]] = 1 THEN "echo" ELSE "preRecv")
  /\ UNCHANGED <<player, connection, sending, pool, ports, at, context, LSendRequestSessionList,
                 ghost, history>>

\* PostSend with the lock.
EchoBack(t) ==
  /\ Goto(t, "echo", "preRecv")
  /\ mSendBufferLock[at[t]] = NoThread
  /\ stored' = [stored EXCEPT ![at[t]] = @ + 1]
  /\ LSendRequestSessionList' = [LSendRequestSessionList EXCEPT ![t] = Append(@, at[t])]
  /\ UNCHANGED <<player, connection, mSendPendingCount, mSendBufferLock, pool, ports, at, context,
                 ghost, history>>

\* When not all of it was sent the connection ends.
FinishSend(t, pending) ==
  LET c == context[t]
      s == at[t]
  IN  /\ Handle(t, "IO_SEND", IF c.ok THEN "delete" ELSE "disconnect")
      /\ mSendBufferLock[s] = NoThread
      /\ stored' = [stored EXCEPT ![s] = IF @ < c.n THEN 0 ELSE @ - c.n]
      /\ mSendPendingCount' = [mSendPendingCount EXCEPT ![s] = pending]
      /\ UNCHANGED <<player, connection, mSendBufferLock, pool, ports, at, context,
                     LSendRequestSessionList, ghost, history>>

\* Faulty: the count of pending sends does not go down.
PendingForEver(t) == FinishSend(t, mSendPendingCount[at[t]])

SendCompletion(t) == FinishSend(t, mSendPendingCount[at[t]] - 1)

\* The reference of the issue is released; the context still holds one.
DisconnectCompletion(t) ==
  /\ Handle(t, "IO_DISCONNECT", "delete")
  /\ ReleaseRef(t)
  /\ UNCHANGED <<player, mConnected, sending, mFreeSessionList, mLock, ports, at, context,
                 LSendRequestSessionList, strayed, history>>

\* OnSuccess, which is ResponseLoad, or OnFail, which logs.
OnResult(t) ==
  LET c == context[t]
  IN  /\ Handle(t, "CK_DB_RESULT", "delete")
      /\ mPlayerId' = [mPlayerId EXCEPT ![at[t]] = IF c.ok THEN c.n ELSE @]
      /\ answered' = answered \cup {c.issue}
      /\ UNCHANGED <<id, old, connection, sending, pool, ports, at, context,
                     LSendRequestSessionList, ghost, issued, issue, asked, inherited, echoes>>

Disconnect(t) ==
  /\ Goto(t, "disconnect", "delete")
  /\ DisconnectRequest(at[t])
  /\ UNCHANGED <<player, sending, pool, at, context, LSendRequestSessionList, ghost, history>>

DeleteIoContext(t) ==
  /\ Goto(t, "delete", "idle")
  /\ ReleaseRef(t)
  /\ context' = [context EXCEPT ![t] = None]
  /\ UNCHANGED <<player, mConnected, sending, mFreeSessionList, mLock, ports, at,
                 LSendRequestSessionList, strayed, history>>

-----------------------------------------------------------------------------
(***************************************************************************)
(* DoSendJob: FlushSend of the head of the list, until it returns true.    *)
(***************************************************************************)
\* FlushSend tests the connection, without the lock and without a reference.
FlushSend(t) ==
  /\ LSendRequestSessionList[t] # << >>
  /\ at' = [at EXCEPT ![t] = Head(LSendRequestSessionList[t])]
  /\ Goto(t, "idle", IF mConnected[at'[t]] = 1 THEN "flush" ELSE "drop")
  /\ UNCHANGED <<player, connection, sending, pool, ports, context, LSendRequestSessionList,
                 ghost, history>>

\* FlushSend returns true.
Flushed(t, from) ==
  /\ Goto(t, from, "idle")
  /\ LSendRequestSessionList' = [LSendRequestSessionList EXCEPT ![t] = Tail(@)]

Drop(t) ==
  /\ Flushed(t, "drop")
  /\ DisconnectRequest(at[t])
  /\ UNCHANGED <<player, sending, pool, at, context, ghost, history>>

\* Faulty: mSendPendingCount is not tested.
FlushWhilePending(t) ==
  LET s == at[t]
  IN  /\ mSendBufferLock[s] = NoThread
      /\ \/ /\ stored[s] = 0
            /\ Flushed(t, "flush")
            /\ UNCHANGED <<mRefCount, mSendBufferLock, strayed>>
         \/ /\ stored[s] > 0
            /\ Goto(t, "flush", "wsaSend")
            /\ mSendBufferLock' = [mSendBufferLock EXCEPT ![s] = t]
            /\ mRefCount' = [mRefCount EXCEPT ![s] = @ + 1]
            /\ strayed' = (strayed \/ mRefCount[s] = 0)
            /\ UNCHANGED LSendRequestSessionList
      /\ UNCHANGED <<player, mConnected, stored, mSendPendingCount, pool, ports, at, context,
                     crashed, history>>

\* FlushSend with the lock: a send is pending and it returns false, nothing is stored, or
\* it makes a context.
FlushStored(t) ==
  LET s == at[t]
  IN  /\ mSendBufferLock[s] = NoThread
      /\ \/ /\ mSendPendingCount[s] > 0
            /\ Goto(t, "flush", "idle")
            /\ UNCHANGED <<mRefCount, mSendBufferLock, strayed, LSendRequestSessionList>>
         \/ /\ mSendPendingCount[s] = 0 /\ stored[s] = 0
            /\ Flushed(t, "flush")
            /\ UNCHANGED <<mRefCount, mSendBufferLock, strayed>>
         \/ /\ mSendPendingCount[s] = 0 /\ stored[s] > 0
            /\ Goto(t, "flush", "wsaSend")
            /\ mSendBufferLock' = [mSendBufferLock EXCEPT ![s] = t]
            /\ mRefCount' = [mRefCount EXCEPT ![s] = @ + 1]
            /\ strayed' = (strayed \/ mRefCount[s] = 0)
            /\ UNCHANGED LSendRequestSessionList
      /\ UNCHANGED <<player, mConnected, stored, mSendPendingCount, pool, ports, at, context,
                     crashed, history>>

\* WSASend takes what is stored, or fails.
WSASend(t) ==
  /\ \/ /\ Goto(t, "wsaSend", "count")
        /\ mCompletionPort' = mCompletionPort \cup {NewContext("IO_SEND", at[t], stored[at[t]])}
     \/ Goto(t, "wsaSend", "release") /\ UNCHANGED mCompletionPort
  /\ UNCHANGED <<player, connection, sending, pool, mDbCompletionPort, at, context,
                 LSendRequestSessionList, ghost, history>>

\* The send is counted, though it may have completed, and the lock is left.
CountSend(t) ==
  /\ Flushed(t, "count")
  /\ mSendPendingCount' = [mSendPendingCount EXCEPT ![at[t]] = @ + 1]
  /\ mSendBufferLock' = [mSendBufferLock EXCEPT ![at[t]] = NoThread]
  /\ UNCHANGED <<player, connection, stored, pool, ports, at, context, ghost, history>>

\* DeleteIoContext of a send that was not taken, with the lock.
DeleteSendContext(t) ==
  /\ Goto(t, "release", "fail")
  /\ ReleaseRef(t)
  /\ UNCHANGED <<player, mConnected, sending, mFreeSessionList, mLock, ports, at, context,
                 LSendRequestSessionList, strayed, history>>

SendFails(t) ==
  /\ Flushed(t, "fail")
  /\ DisconnectRequest(at[t])
  /\ mSendBufferLock' = [mSendBufferLock EXCEPT ![at[t]] = NoThread]
  /\ UNCHANGED <<player, stored, mSendPendingCount, pool, at, context, ghost, history>>

Run(t) ==
  /\ crashed = FALSE
  /\ \/ GetQueuedCompletionStatus(t, {"IO_SEND", "IO_DISCONNECT", "CK_DB_RESULT"})
     \/ ReturnClientSession(t) \/ SessionReset(t) \/ SendBufferReset(t)
     \/ AcceptCompletion(t) \/ RequestLoad(t) \/ ReadId(t) \/ WriteId(t)
     \/ PostRecv(t) \/ RecvCompletion(t) \/ EchoBack(t) \/ PreRecv(t) \/ SendCompletion(t)
     \/ DisconnectCompletion(t) \/ OnResult(t) \/ Disconnect(t) \/ DeleteIoContext(t)
     \/ FlushSend(t) \/ Drop(t) \/ FlushStored(t)
     \/ WSASend(t) \/ CountSend(t) \/ DeleteSendContext(t) \/ SendFails(t)

Next ==
  \/ crashed = FALSE /\ \E s \in Session : AcceptClientSessions(s)
  \/ crashed = FALSE /\ DoDatabaseJob
  \/ \E t \in IoThread : Run(t) \/ (crashed = FALSE /\ GetQueuedCompletionStatus(t, IOType))

Spec == Init /\ [][Next]_vars

\* The threads run, and what they take completes some time, except for accepts and receives.
FairSpec ==
  /\ Spec
  /\ WF_vars(crashed = FALSE /\ DoDatabaseJob)
  /\ \A t \in IoThread : WF_vars(Run(t))
-----------------------------------------------------------------------------
Contexts == mDbCompletionPort \cup mCompletionPort \cup {context[t] : t \in IoThread}

TypeOK ==
  /\ mFreeSessionList \subseteq Session
  /\ mConnected \in [Session -> {0, 1}]
  /\ mRefCount \in [Session -> Int]
  /\ mPlayerId \in [Session -> {NoPlayer} \cup FirstId .. FirstId + MaxIssue]
  /\ stored \in [Session -> 0 .. MaxEcho]
  /\ mSendPendingCount \in [Session -> {0, 1}]
  /\ mSendBufferLock \in [Session -> IoThread \cup {NoThread}]
  /\ mLock \in IoThread \cup {NoThread}
  /\ id \in FirstId .. FirstId + MaxIssue
  /\ Contexts \subseteq Context \cup {None}
  /\ pc \in [IoThread -> Location] /\ returning \in [IoThread -> Return]
  /\ at \in [IoThread -> Session]
  /\ old \in [IoThread -> {0} \cup FirstId .. FirstId + MaxIssue]
  /\ LSendRequestSessionList \in [IoThread -> Seq(Session)]
  /\ crashed \in BOOLEAN /\ strayed \in BOOLEAN
  /\ issued \in 0 .. MaxIssue /\ echoes \in 0 .. MaxEcho
  /\ issue \in [Session -> 0 .. MaxIssue]
  /\ asked \in [Session -> {NoPlayer} \cup FirstId .. FirstId + MaxIssue]
  /\ answered \subseteq 1 .. MaxIssue
  /\ inherited \in [Session -> {0, 1}]

\* Until a flush has strayed (has made a context for a session nobody held), no result reaches
\* a later connection: while a request waits for a database thread or its result for an I/O
\* thread, the session may be disconnected but is not issued again; the player of a session is
\* the one its connection asked for, and the pool holds none.
ResultsAreOwn ==
  \/ strayed
  \/ /\ \A c \in Contexts \ {None} : c.issue = issue[c.session] /\ c.session \notin mFreeSessionList
     /\ \A s \in Session : mPlayerId[s] \in {NoPlayer, asked[s]}
     /\ \A s \in mFreeSessionList : mPlayerId[s] = NoPlayer

\* Until a flush has strayed no CRASH_ASSERT of a session fails: an accepted session is not
\* connected (ClientSession.cpp 88), no count of references falls below 0 (Session.cpp 222),
\* and a session is returned unconnected and unreferenced (ClientSessionManager.cpp 40),
\* though receives, sends, results and retries of it are in the hands of several threads.
AssertsHold == strayed \/ ~crashed

\* The thread's FlushSend returns false again and again: a send of its session is pending.
Spins(t) ==
  /\ returning[t] = "no" /\ pc[t] \in {"idle", "flush"}
  /\ LSendRequestSessionList[t] # << >>
  /\ LET s == Head(LSendRequestSessionList[t])
     IN  mConnected[s] = 1 /\ mSendPendingCount[s] > 0

\* All I/O threads wait in DoSendJob for completions that only they could handle.
AllSpin == \A t \in IoThread : Spins(t)

\* A thread dropped the last reference in a FlushSend, and SessionReset waits for the lock
\* that this FlushSend holds.
SelfLocked == \E t \in IoThread : returning[t] = "clear" /\ mSendBufferLock[at[t]] = t

\* Every connection that asked for its player gets a result, connected or not, and whether
\* the statement succeeds or fails, unless all I/O threads spin, one has locked itself out,
\* or a flush has strayed.
RequestAnswered ==
  \A k \in 1 .. MaxIssue :
    (\E c \in mDbCompletionPort : c.issue = k)
      ~> (k \in answered \/ AllSpin \/ SelfLocked \/ strayed)

\* A thread that spins in DoSendJob gets out of it, unless all of them spin, or it spins on a
\* count that an earlier connection of the session left behind, or a thread has locked
\* itself out or a flush has strayed.
SpinEnds ==
  \A t \in IoThread :
    Spins(t) ~> \/ ~Spins(t) \/ AllSpin \/ inherited[Head(LSendRequestSessionList[t])] > 0
                \/ SelfLocked \/ strayed
=============================================================================
