-------------------------- MODULE DbPipelineProofs --------------------------
(***************************************************************************)
(* A result of the database reaches the connection that asked for it, for  *)
(* any number of sessions, connections and I/O threads, as long as no      *)
(* flush strays.  Each context in a port or in the hand of a thread holds  *)
(* a reference, and what connects or disconnects the session one more; so  *)
(* a session that is returned has no context left that could be taken for  *)
(* one of its next connection.  The shapes of the state, the send that is  *)
(* pending and the bounds of the numbers hold whether a flush strays or    *)
(* not; they come first.                                                   *)
(***************************************************************************)
EXTENDS DbPipeline, FiniteSetTheorems, TLAPS

\* Where a thread has its context, where it holds mSendBufferLock, where it goes on with
\* its list, and where it holds a reference.
Serving == {"handle", "load", "read", "write", "echo", "preRecv", "disconnect", "delete"}
Locking == {"wsaSend", "count", "release", "fail"}
Flushing == Locking \cup {"drop", "flush"}
Holding == Serving \cup {"wsaSend", "release"}

Live == Contexts \ {None}

Ids == FirstId .. FirstId + MaxIssue
Number == (0 .. MaxEcho) \cup Ids

PortShapes ==
  /\ mDbCompletionPort \subseteq Context /\ IsFiniteSet(mDbCompletionPort)
  /\ mCompletionPort \subseteq Context /\ IsFiniteSet(mCompletionPort)
  /\ \A c \in mDbCompletionPort : c.io = "CK_DB_RESULT"

SessionShapes ==
  /\ mFreeSessionList \subseteq Session
  /\ mConnected \in [Session -> {0, 1}]
  /\ mRefCount \in [Session -> Int]
  /\ mPlayerId \in [Session -> {NoPlayer} \cup Ids]
  /\ stored \in [Session -> Nat]
  /\ mSendPendingCount \in [Session -> {0, 1}]
  /\ mSendBufferLock \in [Session -> IoThread \cup {NoThread}]
  /\ mLock \in IoThread \cup {NoThread}

ThreadShapes ==
  /\ id \in Int /\ old \in [IoThread -> Int]
  /\ pc \in [IoThread -> Location]
  /\ at \in [IoThread -> Session]
  /\ context \in [IoThread -> Context \cup {None}]
  /\ LSendRequestSessionList \in [IoThread -> Seq(Session)]
  /\ returning \in [IoThread -> Return]

HistoryShapes ==
  /\ crashed \in BOOLEAN /\ strayed \in BOOLEAN
  /\ issued \in 0 .. MaxIssue /\ echoes \in 0 .. MaxEcho
  /\ issue \in [Session -> 0 .. MaxIssue]
  /\ asked \in [Session -> {NoPlayer} \cup Ids]
  /\ answered \subseteq 1 .. MaxIssue
  /\ inherited \in [Session -> {0, 1}]

Shapes == PortShapes /\ SessionShapes /\ ThreadShapes /\ HistoryShapes

\* What a thread has in its hand where it is.
Hand(t) ==
  /\ pc[t] \in Serving => context[t] \in Context /\ context[t].session = at[t]
  /\ pc[t] \notin Serving => context[t] = None
  /\ pc[t] \in {"load", "read", "write"} => context[t].io = "IO_ACCEPT"
  /\ pc[t] = "handle" /\ context[t].io = "IO_RECV" => context[t].ok
  /\ pc[t] \in Flushing => LSendRequestSessionList[t] # << >>

HandInv == \A t \in IoThread : Hand(t)

\* The lock of the send buffer is held where a context is made and sent, with no send pending.
LockInv ==
  \A t \in IoThread : pc[t] \in Locking => mSendBufferLock[at[t]] = t /\ mSendPendingCount[at[t]] = 0

\* The sends of s: in the port, being completed, and made but not counted yet.
SendsInPort(s) == {c \in mCompletionPort : c.io = "IO_SEND" /\ c.session = s}
SendsInHand(s) == {t \in IoThread : pc[t] = "handle" /\ context[t].io = "IO_SEND" /\ at[t] = s}
Counting(s) == \E t \in IoThread : pc[t] = "count" /\ at[t] = s

\* At most one send of s is in the port or in a thread's hand; it is pending or about to be.
OneSend(s) ==
  /\ \A c, d \in SendsInPort(s) : c = d
  /\ \A t, u \in SendsInHand(s) : t = u
  /\ SendsInPort(s) = {} \/ SendsInHand(s) = {}
  /\ SendsInPort(s) # {} \/ SendsInHand(s) # {} => mSendPendingCount[s] = 1 \/ Counting(s)

SendInv == LockInv /\ \A s \in Session : OneSend(s)

\* The connection and the number that a context carries.
Numbered(c) ==
  /\ c.io = "IO_ACCEPT" => issue[c.session] >= 1
  /\ IF c.io = "CK_DB_RESULT" THEN c.issue >= 1 /\ c.n \in Ids ELSE c.n \in 0 .. MaxEcho

ContextInv == \A c \in Live : Numbered(c)

\* The accepts whose id++ is to come.
AcceptsInPort == {c \in mCompletionPort : c.io = "IO_ACCEPT"}
Asking ==
  {t \in IoThread : context[t].io = "IO_ACCEPT" /\ pc[t] \in {"handle", "load", "read", "write"}}
ToAsk == Cardinality(AcceptsInPort) + Cardinality(Asking)

\* Of the ids, what the accepts that are to come for theirs leave.
Room == FirstId + issued - ToAsk

IdBound(v) == v \in Nat /\ FirstId <= v /\ v <= Room

\* An id that a thread has read is bounded like the id itself, for it may be written later.
IdInv ==
  /\ IdBound(id)
  /\ \A t \in IoThread : IF pc[t] = "write" THEN IdBound(old[t]) ELSE old[t] = 0

\* The messages that were received and are not stored yet.
Receiving(s) ==
  {t \in IoThread : at[t] = s /\ (pc[t] = "echo" \/ (pc[t] = "handle" /\ context[t].io = "IO_RECV"))}

EchoOne(s) == stored[s] + Cardinality(Receiving(s)) <= echoes

EchoInv == \A s \in Session : EchoOne(s)

Base == Shapes /\ HandInv /\ SendInv /\ ContextInv /\ IdInv /\ EchoInv

-----------------------------------------------------------------------------
(***************************************************************************)
(* The steps of the system, and what a thread's step leaves alone.         *)
(***************************************************************************)
Takes(t) == GetQueuedCompletionStatus(t, IOType)
Returns(t) == ReturnClientSession(t) \/ SessionReset(t) \/ SendBufferReset(t)
Serves(t) ==
  \/ AcceptCompletion(t) \/ RequestLoad(t) \/ ReadId(t) \/ WriteId(t)
  \/ PostRecv(t) \/ RecvCompletion(t) \/ EchoBack(t) \/ PreRecv(t) \/ SendCompletion(t)
  \/ DisconnectCompletion(t) \/ OnResult(t) \/ Disconnect(t) \/ DeleteIoContext(t)
Sends(t) ==
  \/ FlushSend(t) \/ Drop(t) \/ FlushStored(t)
  \/ WSASend(t) \/ CountSend(t) \/ DeleteSendContext(t) \/ SendFails(t)
Works(t) == Takes(t) \/ Returns(t) \/ Serves(t) \/ Sends(t)

LEMMA Kinds ==
  ASSUME Next
  PROVE  \/ \E s \in Session : AcceptClientSessions(s)
         \/ DoDatabaseJob
         \/ \E t \in IoThread : Works(t)
<1>1. ASSUME NEW t, GetQueuedCompletionStatus(t, {"IO_SEND", "IO_DISCONNECT", "CK_DB_RESULT"})
      PROVE  Takes(t)
  BY <1>1 DEF GetQueuedCompletionStatus, Takes, IOType
<1> QED
  BY <1>1 DEF Next, Run, Works, Takes, Returns, Serves, Sends

\* A step of t moves no other thread.
OnlyMoves(t) ==
  \A u \in IoThread \ {t} : pc'[u] = pc[u] /\ at'[u] = at[u] /\ context'[u] = context[u]

\* What t has taken from the port: its type and connection are kept.
LEMMA CompletedKeeps ==
  ASSUME NEW c \in Context, NEW d \in Completed(c), MaxEcho \in Nat, echoes \in 0 .. MaxEcho,
         c.io # "CK_DB_RESULT" => c.n \in 0 .. MaxEcho
  PROVE  /\ d \in Context /\ d.io = c.io /\ d.session = c.session /\ d.issue = c.issue
         /\ c.io \notin {"IO_SEND", "IO_RECV"} => d = c
         /\ c.io # "IO_SEND" => d.n = c.n
         /\ c.io = "IO_SEND" => d.n \in 0 .. MaxEcho
         /\ c.io = "IO_RECV" /\ d.ok => echoes < MaxEcho
         /\ c.io = "IO_RECV" /\ ~d.ok <=> Broken(d) /\ d.io = "IO_RECV"
<1>1. /\ c = [io |-> c.io, session |-> c.session, issue |-> c.issue, n |-> c.n, ok |-> c.ok]
      /\ c.io \in IOType /\ c.session \in Session /\ c.issue \in 0 .. MaxIssue
      /\ c.n \in (0 .. MaxEcho) \cup (FirstId .. FirstId + MaxIssue)
  BY DEF Context
<1>2. CASE c.io = "IO_SEND"
  <2>1. PICK n \in 0 .. c.n : d = [c EXCEPT !.n = n, !.ok = (n = c.n)]
    BY <1>2 DEF Completed
  <2>2. n \in 0 .. MaxEcho /\ (n = c.n) \in BOOLEAN
    BY <1>2
  <2>3. d = [io |-> "IO_SEND", session |-> c.session, issue |-> c.issue, n |-> n, ok |-> (n = c.n)]
    BY <1>1, <1>2, <2>1
  <2> QED
    BY <1>1, <1>2, <2>2, <2>3 DEF Context, Broken
<1>3. CASE c.io = "IO_RECV"
  <2>1. PICK ok \in {FALSE} \cup {echoes < MaxEcho} : d = [c EXCEPT !.ok = ok]
    BY <1>3 DEF Completed
  <2>2. ok \in BOOLEAN /\ (ok => echoes < MaxEcho)
    <3>1. ok = FALSE \/ ok = (echoes < MaxEcho)
      OBVIOUS
    <3>2. (echoes < MaxEcho) \in BOOLEAN
      OBVIOUS
    <3> QED
      BY <3>1, <3>2
  <2>3. d = [io |-> "IO_RECV", session |-> c.session, issue |-> c.issue, n |-> c.n, ok |-> ok]
    BY <1>1, <1>3, <2>1
  <2>4. d \in Context
    <3>1. CASE ok = TRUE
      BY <1>1, <2>3, <3>1 DEF Context, IOType
    <3>2. CASE ok = FALSE
      BY <1>1, <2>3, <3>2 DEF Context, IOType
    <3> QED
      BY <2>2, <3>1, <3>2
  <2> QED
    BY <1>1, <1>3, <2>2, <2>3, <2>4 DEF Broken
<1>4. CASE c.io \notin {"IO_SEND", "IO_RECV"}
  BY <1>4 DEF Completed, Broken
<1> QED
  BY <1>2, <1>3, <1>4

\* A thread that goes on with what it has in its hand.
LEMMA GoesOn ==
  ASSUME ThreadShapes, HandInv, NEW t \in IoThread, NEW from, NEW to \in Location \ {"handle"},
         Goto(t, from, to), at' = at, context' = context, returning' \in [IoThread -> Return],
         from \in Serving <=> to \in Serving,
         to \in {"load", "read", "write"} => context[t].io = "IO_ACCEPT",
         id' \in Int, old' \in [IoThread -> Int],
         LSendRequestSessionList' \in [IoThread -> Seq(Session)],
         to \in Flushing => LSendRequestSessionList'[t] # << >>,
         \A u \in IoThread \ {t} : LSendRequestSessionList'[u] = LSendRequestSessionList[u]
  PROVE  OnlyMoves(t) /\ ThreadShapes' /\ HandInv'
<1>1. pc' \in [IoThread -> Location] /\ pc[t] = from /\ pc'[t] = to
      /\ \A u \in IoThread \ {t} : pc'[u] = pc[u]
  BY DEF ThreadShapes, Goto
<1>2. OnlyMoves(t)
  BY <1>1 DEF OnlyMoves
<1>3. ThreadShapes'
  BY <1>1 DEF ThreadShapes
<1>4. ASSUME NEW u \in IoThread PROVE Hand(u)'
  <2>1. CASE u = t
    BY <1>1, <2>1 DEF HandInv, Hand, Serving
  <2>2. CASE u # t
    BY <1>1, <2>2 DEF HandInv, Hand
  <2> QED
    BY <2>1, <2>2
<1> QED
  BY <1>2, <1>3, <1>4 DEF HandInv

\* The list of a thread after it has dealt with its head.
LEMMA TailKept ==
  ASSUME ThreadShapes, HandInv, NEW t \in IoThread, pc[t] \in Flushing,
         LSendRequestSessionList' = [LSendRequestSessionList EXCEPT ![t] = Tail(@)]
  PROVE  /\ LSendRequestSessionList' \in [IoThread -> Seq(Session)]
         /\ \A u \in IoThread \ {t} : LSendRequestSessionList'[u] = LSendRequestSessionList[u]
<1>1. LSendRequestSessionList[t] \in Seq(Session) /\ LSendRequestSessionList[t] # << >>
  BY DEF ThreadShapes, HandInv, Hand
<1>2. Tail(LSendRequestSessionList[t]) \in Seq(Session)
  BY <1>1
<1> QED
  BY <1>2 DEF ThreadShapes

\* A step of a thread moves no other, and leaves each with what it is to have in its hand.
LEMMA ThreadStep ==
  ASSUME Base, NEW t \in IoThread, Works(t)
  PROVE  OnlyMoves(t) /\ ThreadShapes' /\ HandInv'
<1>0. ThreadShapes /\ HandInv /\ Hand(t) /\ PortShapes /\ ContextInv
  BY DEF Base, Shapes, HandInv
<1> USE DEF Location, Serving, Flushing, Locking
<1>1. CASE Takes(t)
  <2>1. PICK c \in mCompletionPort :
          /\ at' = [at EXCEPT ![t] = c.session]
          /\ \E completed \in Completed(c) :
               /\ context' = [context EXCEPT ![t] = completed]
               /\ Goto(t, "idle", IF Broken(completed) THEN "disconnect" ELSE "handle")
    BY <1>1 DEF Takes, GetQueuedCompletionStatus
  <2>2. PICK d \in Completed(c) :
          /\ context' = [context EXCEPT ![t] = d]
          /\ Goto(t, "idle", IF Broken(d) THEN "disconnect" ELSE "handle")
    BY <2>1
  <2>3. UNCHANGED <<id, old, LSendRequestSessionList, returning>>
    BY <1>1 DEF Takes, GetQueuedCompletionStatus, player, pool
  <2>4. c \in Context /\ c \in Live /\ c # None
    BY <1>0 DEF PortShapes, Live, Contexts, Context, IOType, None
  <2>5. d \in Context /\ d.session = c.session /\ d # None
        /\ (d.io = "IO_RECV" /\ ~Broken(d) => d.ok)
    <3>1. c.io # "CK_DB_RESULT" => c.n \in 0 .. MaxEcho
      BY <1>0, <2>4 DEF ContextInv, Numbered
    <3>2. d \in Context /\ d.session = c.session
      BY <2>4, <3>1, CompletedKeeps, BoundAssumption DEF Base, Shapes, HistoryShapes
    <3> QED
      BY <3>2 DEF Broken, Context, IOType, None
  <2>6. /\ pc' \in [IoThread -> Location] /\ at' \in [IoThread -> Session]
        /\ context' \in [IoThread -> Context \cup {None}]
        /\ pc'[t] = (IF Broken(d) THEN "disconnect" ELSE "handle")
        /\ at'[t] = d.session /\ context'[t] = d
        /\ \A u \in IoThread \ {t} : pc'[u] = pc[u] /\ at'[u] = at[u] /\ context'[u] = context[u]
    BY <1>0, <2>1, <2>2, <2>4, <2>5 DEF ThreadShapes, Goto, Context
  <2>7. ASSUME NEW u \in IoThread PROVE Hand(u)'
    <3>1. CASE u = t
      BY <2>5, <2>6, <3>1 DEF Hand
    <3>2. CASE u # t
      BY <1>0, <2>3, <2>6, <3>2 DEF HandInv, Hand
    <3> QED
      BY <3>1, <3>2
  <2> QED
    BY <1>0, <2>3, <2>6, <2>7 DEF ThreadShapes, OnlyMoves, HandInv
<1>2. CASE Returns(t)
  <2>1. UNCHANGED <<pc, at, context, id, old, LSendRequestSessionList>>
    BY <1>2 DEF Returns, ReturnClientSession, SessionReset, SendBufferReset, player, thread
  <2>2. returning' \in [IoThread -> Return]
    BY <1>0, <1>2 DEF Returns, ReturnClientSession, SessionReset, SendBufferReset, ThreadShapes,
                      Return
  <2> QED
    BY <1>0, <2>1, <2>2 DEF ThreadShapes, OnlyMoves, HandInv, Hand
<1>3. CASE AcceptCompletion(t)
  <2>1. UNCHANGED <<id, old, LSendRequestSessionList, returning, at, context>>
    BY <1>3 DEF AcceptCompletion, player, pool
  <2>2. context[t].io = "IO_ACCEPT"
        /\ (Goto(t, "handle", "disconnect") \/ Goto(t, "handle", "load"))
    BY <1>3 DEF AcceptCompletion, Handle
  <2> QED
    BY <1>0, <2>1, <2>2, GoesOn DEF ThreadShapes, HandInv, Hand
<1>4. CASE RequestLoad(t)
  <2>1. UNCHANGED <<id, old, LSendRequestSessionList, returning, at, context>>
        /\ Goto(t, "load", "read")
    BY <1>4 DEF RequestLoad, player, pool
  <2> QED
    BY <1>0, <2>1, GoesOn DEF ThreadShapes, HandInv, Hand, Goto
<1>5. CASE ReadId(t) \/ WriteId(t)
  <2>1. UNCHANGED <<LSendRequestSessionList, returning, at, context>>
        /\ (Goto(t, "read", "write") \/ Goto(t, "write", "delete"))
        /\ id' \in Int /\ old' \in [IoThread -> Int]
    BY <1>0, <1>5 DEF ReadId, WriteId, pool, ThreadShapes
  <2>2. context[t].io = "IO_ACCEPT" /\ returning' \in [IoThread -> Return]
        /\ LSendRequestSessionList' \in [IoThread -> Seq(Session)]
    BY <1>0, <2>1 DEF ThreadShapes, Hand, Goto
  <2>3. CASE Goto(t, "read", "write")
    BY <1>0, <2>1, <2>2, <2>3, GoesOn
  <2>4. CASE Goto(t, "write", "delete")
    BY <1>0, <2>1, <2>2, <2>4, GoesOn
  <2> QED
    BY <2>1, <2>3, <2>4
<1>6. CASE PostRecv(t) \/ PreRecv(t)
  <2>1. UNCHANGED <<id, old, LSendRequestSessionList, returning, at, context>>
        /\ \E from \in {"handle", "preRecv"}, to \in {"delete", "disconnect"} : Goto(t, from, to)
    BY <1>6 DEF PostRecv, PreRecv, PostReceive, player, pool
  <2> QED
    BY <1>0, <2>1, GoesOn DEF ThreadShapes
<1>7. CASE RecvCompletion(t)
  <2>1. UNCHANGED <<id, old, LSendRequestSessionList, returning, at, context>>
        /\ \E to \in {"echo", "preRecv"} : Goto(t, "handle", to)
    BY <1>7 DEF RecvCompletion, Handle, player, pool, thread
  <2> QED
    BY <1>0, <2>1, GoesOn DEF ThreadShapes
<1>8. CASE EchoBack(t)
  <2>1. UNCHANGED <<id, old, returning, at, context>> /\ Goto(t, "echo", "preRecv")
        /\ LSendRequestSessionList' = [LSendRequestSessionList EXCEPT ![t] = Append(@, at[t])]
    BY <1>8 DEF EchoBack, player, pool
  <2>2. Append(LSendRequestSessionList[t], at[t]) \in Seq(Session)
    BY <1>0 DEF ThreadShapes
  <2>3. LSendRequestSessionList' \in [IoThread -> Seq(Session)]
        /\ \A u \in IoThread \ {t} : LSendRequestSessionList'[u] = LSendRequestSessionList[u]
    BY <1>0, <2>1, <2>2 DEF ThreadShapes
  <2> QED
    BY <1>0, <2>1, <2>3, GoesOn DEF ThreadShapes
<1>9. CASE SendCompletion(t) \/ OnResult(t) \/ Disconnect(t)
  <2>1. UNCHANGED <<id, old, LSendRequestSessionList, returning, at, context>>
        /\ \E from \in {"handle", "disconnect"}, to \in {"delete", "disconnect"} : Goto(t, from, to)
    BY <1>9 DEF SendCompletion, FinishSend, OnResult, Disconnect, Handle, player, pool
  <2> QED
    BY <1>0, <2>1, GoesOn DEF ThreadShapes
<1>10. CASE DisconnectCompletion(t)
  <2>1. UNCHANGED <<id, old, LSendRequestSessionList, at, context>>
        /\ Goto(t, "handle", "delete") /\ returning' \in [IoThread -> Return]
    BY <1>0, <1>10 DEF DisconnectCompletion, ReleaseRef, Handle, player, ThreadShapes, Return
  <2> QED
    BY <1>0, <2>1, GoesOn DEF ThreadShapes
<1>11. CASE DeleteIoContext(t)
  <2>1. /\ UNCHANGED <<id, old, LSendRequestSessionList, at>>
        /\ pc' = [pc EXCEPT ![t] = "idle"] /\ context' = [context EXCEPT ![t] = None]
        /\ returning' \in [IoThread -> Return]
    BY <1>0, <1>11 DEF DeleteIoContext, ReleaseRef, Goto, player, ThreadShapes, Return
  <2>2. ASSUME NEW u \in IoThread PROVE Hand(u)'
    <3>1. CASE u = t
      BY <1>0, <2>1, <3>1 DEF Hand, ThreadShapes
    <3>2. CASE u # t
      BY <1>0, <2>1, <3>2 DEF HandInv, Hand, ThreadShapes
    <3> QED
      BY <3>1, <3>2
  <2> QED
    BY <1>0, <2>1, <2>2 DEF ThreadShapes, OnlyMoves, HandInv
<1>12. CASE FlushSend(t)
  <2> DEFINE s == Head(LSendRequestSessionList[t])
  <2>1. /\ UNCHANGED <<id, old, LSendRequestSessionList, returning, context>>
        /\ LSendRequestSessionList[t] # << >> /\ at' = [at EXCEPT ![t] = s] /\ pc[t] = "idle"
        /\ \E to \in {"flush", "drop"} : pc' = [pc EXCEPT ![t] = to]
    BY <1>12 DEF FlushSend, Goto, player, pool
  <2>2. s \in Session
    BY <1>0, <2>1 DEF ThreadShapes
  <2>3. ThreadShapes' /\ OnlyMoves(t)
    BY <1>0, <2>1, <2>2 DEF ThreadShapes, OnlyMoves
  <2>4. ASSUME NEW u \in IoThread PROVE Hand(u)'
    <3>1. CASE u = t
      BY <1>0, <2>1, <3>1 DEF Hand, ThreadShapes
    <3>2. CASE u # t
      BY <1>0, <2>1, <3>2 DEF HandInv, Hand, ThreadShapes
    <3> QED
      BY <3>1, <3>2
  <2> QED
    BY <2>3, <2>4 DEF HandInv
<1>13. CASE FlushStored(t)
  <2>1. /\ UNCHANGED <<id, old, returning, at, context>>
        /\ \/ UNCHANGED LSendRequestSessionList
              /\ \E to \in {"idle", "wsaSend"} : Goto(t, "flush", to)
           \/ /\ Goto(t, "flush", "idle")
              /\ LSendRequestSessionList' = [LSendRequestSessionList EXCEPT ![t] = Tail(@)]
    BY <1>13 DEF FlushStored, Flushed, player, pool
  <2>2. LSendRequestSessionList[t] # << >> /\ pc[t] \in Flushing
        /\ id' \in Int /\ old' \in [IoThread -> Int] /\ returning' \in [IoThread -> Return]
    BY <1>0, <2>1 DEF ThreadShapes, Goto, Hand
  <2>3. CASE UNCHANGED LSendRequestSessionList /\ \E to \in {"idle", "wsaSend"} : Goto(t, "flush", to)
    <3>1. LSendRequestSessionList' \in [IoThread -> Seq(Session)]
      BY <1>0, <2>3 DEF ThreadShapes
    <3>2. CASE Goto(t, "flush", "idle")
      BY <1>0, <2>1, <2>2, <2>3, <3>1, <3>2, GoesOn
    <3>3. CASE Goto(t, "flush", "wsaSend")
      BY <1>0, <2>1, <2>2, <2>3, <3>1, <3>3, GoesOn
    <3> QED
      BY <2>3, <3>2, <3>3
  <2>4. CASE /\ Goto(t, "flush", "idle")
             /\ LSendRequestSessionList' = [LSendRequestSessionList EXCEPT ![t] = Tail(@)]
    <3>1. /\ LSendRequestSessionList' \in [IoThread -> Seq(Session)]
          /\ \A u \in IoThread \ {t} : LSendRequestSessionList'[u] = LSendRequestSessionList[u]
      BY <1>0, <2>2, <2>4, TailKept
    <3> QED
      BY <1>0, <2>1, <2>2, <2>4, <3>1, GoesOn
  <2> QED
    BY <2>1, <2>3, <2>4
<1>14. CASE WSASend(t)
  <2>1. UNCHANGED <<id, old, LSendRequestSessionList, returning, at, context>>
        /\ \E to \in {"count", "release"} : Goto(t, "wsaSend", to)
    BY <1>14 DEF WSASend, player, pool
  <2>2. LSendRequestSessionList'[t] # << >>
    BY <1>0, <2>1 DEF Goto, Hand
  <2>3. CASE Goto(t, "wsaSend", "count")
    BY <1>0, <2>1, <2>2, <2>3, GoesOn DEF ThreadShapes
  <2>4. CASE Goto(t, "wsaSend", "release")
    BY <1>0, <2>1, <2>2, <2>4, GoesOn DEF ThreadShapes
  <2> QED
    BY <2>1, <2>3, <2>4
<1>15. CASE DeleteSendContext(t)
  <2>1. UNCHANGED <<id, old, LSendRequestSessionList, at, context>>
        /\ Goto(t, "release", "fail") /\ returning' \in [IoThread -> Return]
    BY <1>0, <1>15 DEF DeleteSendContext, ReleaseRef, player, ThreadShapes, Return
  <2> QED
    BY <1>0, <2>1, GoesOn DEF ThreadShapes, Goto, Hand
<1>16. CASE Drop(t) \/ CountSend(t) \/ SendFails(t)
  <2>1. UNCHANGED <<id, old, returning, at, context>>
        /\ \E from \in {"drop", "count", "fail"} : Goto(t, from, "idle")
        /\ LSendRequestSessionList' = [LSendRequestSessionList EXCEPT ![t] = Tail(@)]
    BY <1>16 DEF Drop, CountSend, SendFails, Flushed, player, pool
  <2>2. /\ LSendRequestSessionList' \in [IoThread -> Seq(Session)]
        /\ \A u \in IoThread \ {t} : LSendRequestSessionList'[u] = LSendRequestSessionList[u]
    BY <1>0, <2>1, TailKept DEF Goto
  <2> QED
    BY <1>0, <2>1, <2>2, GoesOn DEF ThreadShapes
<1> QED
  BY <1>1, <1>2, <1>3, <1>4, <1>5, <1>6, <1>7, <1>8, <1>9, <1>10, <1>11, <1>12, <1>13, <1>14, <1>15,
     <1>16 DEF Works, Serves, Sends

-----------------------------------------------------------------------------
(***************************************************************************)
(* What a step puts into the ports.                                        *)
(***************************************************************************)
Posted == {"IO_RECV_ZERO", "IO_RECV", "IO_DISCONNECT"}

\* One context is posted for s, with its reference.
Brings(s, io) ==
  /\ mCompletionPort' = mCompletionPort \cup {NewContext(io, s, 0)}
  /\ mRefCount' = [mRefCount EXCEPT ![s] = @ + 1]

LEMMA PostOne ==
  ASSUME NEW s, NEW io, Post(s, {io})
  PROVE  Brings(s, io)
<1>1. {NewContext(i, s, 0) : i \in {io}} = {NewContext(io, s, 0)}
  OBVIOUS
<1>2. Cardinality({NewContext(io, s, 0)}) = 1
  BY FS_Singleton
<1> QED
  BY <1>1, <1>2 DEF Post, AddRef, Brings

LEMMA PostNone ==
  ASSUME SessionShapes, NEW s, Post(s, {})
  PROVE  UNCHANGED <<mCompletionPort, mRefCount>>
<1>1. {NewContext(i, s, 0) : i \in {}} = {}
  OBVIOUS
<1>2. Cardinality({}) = 0
  BY FS_EmptySet
<1> QED
  BY <1>1, <1>2 DEF Post, AddRef, SessionShapes

\* A request to disconnect posts for a connected session only.
LEMMA Disconnecting ==
  ASSUME SessionShapes, NEW s \in Session, DisconnectRequest(s)
  PROVE  /\ mConnected' = [mConnected EXCEPT ![s] = 0] /\ UNCHANGED mDbCompletionPort
         /\ \/ UNCHANGED <<mCompletionPort, mRefCount>>
            \/ mConnected[s] = 1 /\ Brings(s, "IO_DISCONNECT")
<1>1. PICK ios \in {{}, IF mConnected[s] = 1 THEN {"IO_DISCONNECT"} ELSE {}} : Post(s, ios)
  BY DEF DisconnectRequest
<1>2. CASE ios = {}
  BY <1>1, <1>2, PostNone DEF DisconnectRequest
<1>3. CASE mConnected[s] = 1 /\ ios = {"IO_DISCONNECT"}
  BY <1>1, <1>3, PostOne DEF DisconnectRequest
<1> QED
  BY <1>1, <1>2, <1>3

\* What the steps of a thread do to the ports.
LEMMA PortStep ==
  ASSUME SessionShapes, ThreadShapes, NEW t \in IoThread, Works(t)
  PROVE  \/ Takes(t)
         \/ RequestLoad(t)
         \/ /\ WSASend(t) /\ UNCHANGED mDbCompletionPort
            /\ mCompletionPort' =
                 mCompletionPort \cup {NewContext("IO_SEND", at[t], stored[at[t]])}
         \/ /\ UNCHANGED mDbCompletionPort
            /\ \/ UNCHANGED mCompletionPort
               \/ \E io \in Posted : Brings(at[t], io)
<1>0. at[t] \in Session
  BY DEF ThreadShapes
<1>1. CASE Returns(t)
  BY <1>1 DEF Returns, ReturnClientSession, SessionReset, SendBufferReset, ports
<1>2. CASE \/ ReadId(t) \/ WriteId(t) \/ RecvCompletion(t) \/ EchoBack(t) \/ SendCompletion(t)
           \/ DisconnectCompletion(t) \/ OnResult(t) \/ DeleteIoContext(t)
  BY <1>2 DEF ReadId, WriteId, RecvCompletion, EchoBack, SendCompletion, FinishSend,
              DisconnectCompletion, OnResult, DeleteIoContext, ports
<1>3. CASE FlushSend(t) \/ FlushStored(t) \/ CountSend(t) \/ DeleteSendContext(t)
  BY <1>3 DEF FlushSend, FlushStored, CountSend, DeleteSendContext, ports
<1>4. CASE AcceptCompletion(t)
  BY <1>4, PostOne, PostNone DEF AcceptCompletion, Posted
<1>5. CASE PostRecv(t) \/ PreRecv(t)
  BY <1>5, PostOne DEF PostRecv, PreRecv, PostReceive, Posted
<1>6. CASE Disconnect(t) \/ Drop(t) \/ SendFails(t)
  <2>1. DisconnectRequest(at[t])
    BY <1>6 DEF Disconnect, Drop, SendFails
  <2> QED
    BY <1>0, <2>1, Disconnecting DEF Posted
<1>7. CASE WSASend(t)
  BY <1>7 DEF WSASend
<1> QED
  BY <1>1, <1>2, <1>3, <1>4, <1>5, <1>6, <1>7 DEF Works, Serves, Sends

\* No thread has a context afterwards that it had not before, but for the one it takes.
LEMMA HandStep ==
  ASSUME Base, NEW t \in IoThread, Works(t), ~Takes(t)
  PROVE  /\ \A u \in IoThread : context'[u] \in {context[u], None}
         /\ pc'[t] # "handle" \/ UNCHANGED <<pc, at, context>>
<1>0. ThreadShapes
  BY DEF Base, Shapes
<1>1. CASE Returns(t)
  BY <1>1 DEF Returns, ReturnClientSession, SessionReset, SendBufferReset, thread
<1>2. CASE \/ AcceptCompletion(t) \/ RequestLoad(t) \/ ReadId(t) \/ WriteId(t) \/ PostRecv(t)
           \/ PreRecv(t) \/ RecvCompletion(t) \/ EchoBack(t)
  BY <1>0, <1>2 DEF ReadId, WriteId, RequestLoad, RecvCompletion, EchoBack, AcceptCompletion,
                    PostRecv, PreRecv, PostReceive, Handle, Goto, thread, ThreadShapes
<1>3. CASE SendCompletion(t) \/ OnResult(t) \/ Disconnect(t) \/ DisconnectCompletion(t)
  BY <1>0, <1>3 DEF SendCompletion, FinishSend, OnResult, Disconnect, DisconnectCompletion, Handle,
                    Goto, ThreadShapes
<1>4. CASE DeleteIoContext(t)
  BY <1>0, <1>4 DEF DeleteIoContext, Goto, ThreadShapes
<1>5. CASE FlushSend(t) \/ FlushStored(t) \/ CountSend(t) \/ Drop(t)
  BY <1>0, <1>5 DEF FlushSend, FlushStored, CountSend, Drop, Flushed, Goto, ThreadShapes
<1>6. CASE DeleteSendContext(t) \/ WSASend(t) \/ SendFails(t)
  BY <1>0, <1>6 DEF DeleteSendContext, WSASend, SendFails, Flushed, Goto, ThreadShapes
<1> QED
  BY <1>1, <1>2, <1>3, <1>4, <1>5, <1>6 DEF Works, Serves, Sends

-----------------------------------------------------------------------------
(***************************************************************************)
(* The contexts: each is one that was there, or what came of it, or it was *)
(* made for a connection with its number.                                  *)
(***************************************************************************)
Follows(c, d) ==
  /\ c.io = d.io /\ c.session = d.session /\ c.issue = d.issue
  /\ IF c.io = "IO_SEND" THEN c.n \in 0 .. MaxEcho ELSE c.n = d.n

Made(c) ==
  /\ c.issue = issue'[c.session]
  /\ c.io = "IO_ACCEPT" => c.issue >= 1
  /\ IF c.io = "CK_DB_RESULT" THEN c.issue >= 1 /\ c.n \in Ids ELSE c.n \in 0 .. MaxEcho

\* The accepts are finitely many.
AskNumbers ==
  /\ IsFiniteSet(AcceptsInPort) /\ Cardinality(AcceptsInPort) \in Nat
  /\ IsFiniteSet(Asking) /\ Cardinality(Asking) \in Nat /\ ToAsk \in Nat

LEMMA AskCounts == PortShapes => AskNumbers
<1> SUFFICES ASSUME PortShapes PROVE AskNumbers
  OBVIOUS
<1>1. IsFiniteSet(AcceptsInPort) /\ IsFiniteSet(Asking)
  BY ThreadAssumption, FS_Subset DEF AcceptsInPort, Asking, PortShapes
<1>2. Cardinality(AcceptsInPort) \in Nat /\ Cardinality(Asking) \in Nat
  BY <1>1, FS_CardinalityType
<1> QED
  BY <1>1, <1>2 DEF AskNumbers, ToAsk

\* A bounded id is in range.
LEMMA IdInRange ==
  ASSUME PortShapes, HistoryShapes, NEW v, IdBound(v)
  PROVE  v \in Ids
<1>1. issued \in Nat /\ issued <= MaxIssue /\ MaxIssue \in Nat
  BY BoundAssumption DEF HistoryShapes
<1>2. Room \in Int /\ Room <= FirstId + MaxIssue
  BY <1>1, AskCounts DEF AskNumbers, Room, FirstId
<1>3. v \in Nat /\ FirstId <= v /\ v <= Room
  BY DEF IdBound
<1> QED
  BY <1>1, <1>2, <1>3 DEF Ids, FirstId

\* A new context has the shape of one.
LEMMA NewShape ==
  ASSUME SessionShapes, HistoryShapes, NEW s \in Session, NEW io \in IOType, NEW n \in Number
  PROVE  /\ NewContext(io, s, n) \in Context
         /\ NewContext(io, s, n).io = io /\ NewContext(io, s, n).session = s
         /\ NewContext(io, s, n).issue = issue[s] /\ NewContext(io, s, n).n = n
BY DEF NewContext, Context, Number, Ids, HistoryShapes

\* The context of an accept carries the number of the connection.
LEMMA AcceptContext ==
  ASSUME SessionShapes, HistoryShapes, NEW s \in Session, AcceptClientSessions(s)
  PROVE  LET a == [NewContext("IO_ACCEPT", s, 0) EXCEPT !.issue = issued + 1]
         IN  /\ issued + 1 \in 0 .. MaxIssue /\ issued + 1 >= 1
             /\ a \in Context /\ a.io = "IO_ACCEPT" /\ a.session = s
             /\ a.issue = issued + 1 /\ a.n = 0
<1> DEFINE new == NewContext("IO_ACCEPT", s, 0)
           a == [new EXCEPT !.issue = issued + 1]
<1>1. 0 \in Number
  BY BoundAssumption DEF Number
<1>2. new \in Context /\ new.io = "IO_ACCEPT" /\ new.session = s /\ new.n = 0
  BY <1>1, NewShape DEF IOType
<1>3. issued + 1 \in 0 .. MaxIssue /\ issued + 1 >= 1
  BY BoundAssumption DEF HistoryShapes, AcceptClientSessions
<1>4. a = [new EXCEPT !.issue = issued + 1]
  OBVIOUS
<1> HIDE DEF a, new
<1>5. a \in Context /\ a.io = "IO_ACCEPT" /\ a.session = s /\ a.issue = issued + 1 /\ a.n = 0
  BY <1>2, <1>3, <1>4 DEF Context
<1> QED
  BY <1>3, <1>5 DEF a, new

\* The contexts after a step.
LEMMA ContextStep ==
  ASSUME Base, Next
  PROVE  /\ PortShapes'
         /\ \A c \in Live' : c \in Context /\ ((\E d \in Live : Follows(c, d)) \/ Made(c))
<1>0. /\ PortShapes /\ SessionShapes /\ ThreadShapes /\ HistoryShapes /\ HandInv
      /\ ContextInv /\ IdInv /\ MaxEcho \in Nat /\ MaxIssue \in Nat
      /\ 0 \in Number /\ 0 \in 0 .. MaxEcho
  BY BoundAssumption DEF Base, Shapes, Number
<1>1. \A c \in Context : c # None
  BY DEF Context, IOType, None
<1>2. \A c \in Live : c \in Context /\ c \in mDbCompletionPort \cup mCompletionPort \cup
                                                {context[t] : t \in IoThread}
  BY <1>0 DEF Live, Contexts, PortShapes, ThreadShapes
<1>3. \A c \in Live : c.io # "IO_SEND" \/ c.n \in 0 .. MaxEcho
  BY <1>0 DEF ContextInv, Numbered
<1>4. \A c \in Live : Follows(c, c)
  BY <1>3 DEF Follows
<1>5. ASSUME NEW s \in Session, AcceptClientSessions(s)
      PROVE  /\ PortShapes'
             /\ \A c \in Live' : c \in Context /\ ((\E d \in Live : Follows(c, d)) \/ Made(c))
  <2> DEFINE a == [NewContext("IO_ACCEPT", s, 0) EXCEPT !.issue = issued + 1]
  <2>1. /\ mCompletionPort' = mCompletionPort \cup {a}
        /\ issue' = [issue EXCEPT ![s] = issued + 1]
        /\ UNCHANGED <<mDbCompletionPort, context>>
    BY <1>5 DEF AcceptClientSessions, thread
  <2>2. issued + 1 \in 0 .. MaxIssue /\ issued + 1 >= 1
        /\ a \in Context /\ a.io = "IO_ACCEPT" /\ a.session = s /\ a.issue = issued + 1 /\ a.n = 0
    BY <1>0, <1>5, AcceptContext
  <2>4. a \in Context
    BY <2>2
  <2> HIDE DEF a
  <2>5. Made(a)
    BY <1>0, <2>1, <2>2 DEF Made, HistoryShapes
  <2>6. PortShapes'
    BY <1>0, <2>1, <2>4, FS_AddElement DEF PortShapes
  <2>7. Live' \subseteq Live \cup {a}
    BY <2>1 DEF Live, Contexts
  <2> QED
    BY <1>2, <1>4, <2>4, <2>5, <2>6, <2>7
<1>6. CASE DoDatabaseJob
  <2>1. PICK c \in mDbCompletionPort, mSuccess \in BOOLEAN :
          /\ mDbCompletionPort' = mDbCompletionPort \ {c}
          /\ mCompletionPort' = mCompletionPort \cup {[c EXCEPT !.ok = mSuccess]}
    BY <1>6 DEF DoDatabaseJob
  <2>2. UNCHANGED context
    BY <1>6 DEF DoDatabaseJob, thread
  <2> DEFINE d == [c EXCEPT !.ok = mSuccess]
  <2>3. c \in Context /\ c \in Live /\ c.io = "CK_DB_RESULT"
    BY <1>0, <1>1 DEF PortShapes, Live, Contexts
  <2>4. d \in Context /\ Follows(d, c)
    <3>1. CASE mSuccess = TRUE
      BY <2>3, <3>1 DEF Context, Follows
    <3>2. CASE mSuccess = FALSE
      BY <2>3, <3>2 DEF Context, Follows
    <3> QED
      BY <3>1, <3>2
  <2> HIDE DEF d
  <2>5. mCompletionPort' = mCompletionPort \cup {d}
    BY <2>1 DEF d
  <2>6. PortShapes'
    <3>1. IsFiniteSet(mDbCompletionPort \ {c})
      BY <1>0, FS_RemoveElement DEF PortShapes
    <3>2. IsFiniteSet(mCompletionPort \cup {d})
      BY <1>0, FS_AddElement DEF PortShapes
    <3> QED
      BY <1>0, <2>1, <2>4, <2>5, <3>1, <3>2 DEF PortShapes
  <2>7. Live' \subseteq Live \cup {d}
    BY <2>1, <2>2, <2>5 DEF Live, Contexts
  <2> QED
    BY <1>2, <1>4, <2>3, <2>4, <2>6, <2>7
<1>7. ASSUME NEW t \in IoThread, Takes(t)
      PROVE  /\ PortShapes'
             /\ \A c \in Live' : c \in Context /\ ((\E d \in Live : Follows(c, d)) \/ Made(c))
  <2>1. PICK c \in mCompletionPort :
          /\ mCompletionPort' = mCompletionPort \ {c}
          /\ \E completed \in Completed(c) : context' = [context EXCEPT ![t] = completed]
    BY <1>7 DEF Takes, GetQueuedCompletionStatus
  <2>2. PICK d \in Completed(c) : context' = [context EXCEPT ![t] = d]
    BY <2>1
  <2>3. UNCHANGED mDbCompletionPort
    BY <1>7 DEF Takes, GetQueuedCompletionStatus
  <2>4. c \in Context /\ c \in Live
    BY <1>0, <1>1 DEF PortShapes, Live, Contexts
  <2>5. d \in Context /\ Follows(d, c)
    <3>1. c.io # "CK_DB_RESULT" => c.n \in 0 .. MaxEcho
      BY <1>0, <2>4 DEF ContextInv, Numbered
    <3>2. /\ d \in Context /\ d.io = c.io /\ d.session = c.session /\ d.issue = c.issue
          /\ c.io # "IO_SEND" => d.n = c.n
          /\ c.io = "IO_SEND" => d.n \in 0 .. MaxEcho
      BY <1>0, <2>4, <3>1, CompletedKeeps DEF HistoryShapes
    <3> QED
      BY <3>2 DEF Follows
  <2>6. PortShapes'
    BY <1>0, <2>1, <2>3, FS_RemoveElement DEF PortShapes
  <2>7. Live' \subseteq Live \cup {d}
    BY <1>0, <2>1, <2>2, <2>3 DEF Live, Contexts, ThreadShapes
  <2> QED
    BY <1>2, <1>4, <2>4, <2>5, <2>6, <2>7
<1>8. ASSUME NEW t \in IoThread, Works(t), ~Takes(t)
      PROVE  /\ PortShapes'
             /\ \A c \in Live' : c \in Context /\ ((\E d \in Live : Follows(c, d)) \/ Made(c))
  <2> DEFINE s == at[t]
  <2>0. s \in Session
    BY <1>0 DEF ThreadShapes
  <2>1. \A u \in IoThread : context'[u] \in {context[u], None}
    BY <1>8, HandStep
  <2>2. issue' = issue
    BY <1>8 DEF Works, Returns, Serves, Sends, ReturnClientSession, SessionReset, SendBufferReset,
         AcceptCompletion, RequestLoad, ReadId, WriteId, PostRecv, PreRecv, PostReceive,
         RecvCompletion, EchoBack, SendCompletion, FinishSend, DisconnectCompletion, OnResult,
         Disconnect, DeleteIoContext, FlushSend, Drop, FlushStored, WSASend, CountSend,
         DeleteSendContext, SendFails, history
  <2>3. ASSUME NEW io \in IOType, NEW n \in Number, io # "IO_ACCEPT",
               io = "CK_DB_RESULT" => n \in Ids /\ issue[s] >= 1,
               io # "CK_DB_RESULT" => n \in 0 .. MaxEcho,
               \/ /\ mCompletionPort' = mCompletionPort \cup {NewContext(io, s, n)}
                  /\ io # "CK_DB_RESULT" /\ UNCHANGED mDbCompletionPort
               \/ /\ mDbCompletionPort' = mDbCompletionPort \cup {NewContext(io, s, n)}
                  /\ io = "CK_DB_RESULT" /\ UNCHANGED mCompletionPort
        PROVE  /\ PortShapes'
               /\ \A c \in Live' : c \in Context /\ ((\E d \in Live : Follows(c, d)) \/ Made(c))
    <3> DEFINE a == NewContext(io, s, n)
    <3>1. a \in Context /\ a.io = io /\ a.session = s /\ a.issue = issue[s] /\ a.n = n
      BY <1>0, <2>0, <2>3, NewShape
    <3>2. Made(a)
      BY <2>2, <2>3, <3>1 DEF Made
    <3> HIDE DEF a
    <3>3. \/ mCompletionPort' = mCompletionPort \cup {a} /\ UNCHANGED mDbCompletionPort
          \/ /\ mDbCompletionPort' = mDbCompletionPort \cup {a} /\ UNCHANGED mCompletionPort
             /\ a.io = "CK_DB_RESULT"
      BY <2>3, <3>1 DEF a
    <3>4. PortShapes'
      BY <1>0, <3>1, <3>3, FS_AddElement DEF PortShapes
    <3>5. Live' \subseteq Live \cup {a}
      BY <2>1, <3>3 DEF Live, Contexts
    <3> QED
      BY <1>2, <1>4, <3>1, <3>2, <3>4, <3>5
  <2>4. CASE RequestLoad(t)
    <3>1. /\ pc[t] = "load" /\ UNCHANGED mCompletionPort
          /\ mDbCompletionPort' = mDbCompletionPort \cup {NewContext("CK_DB_RESULT", s, id)}
      BY <2>4 DEF RequestLoad, Goto
    <3>2. context[t] \in Live /\ context[t].io = "IO_ACCEPT" /\ context[t].session = s
      BY <1>0, <1>1, <3>1 DEF HandInv, Hand, Serving, Live, Contexts
    <3>3. issue[s] >= 1
      BY <1>0, <3>2 DEF ContextInv, Numbered
    <3>4. id \in Ids
      BY <1>0, IdInRange DEF IdInv
    <3> QED
      BY <2>3, <3>1, <3>3, <3>4 DEF IOType, Number
  <2>5. CASE WSASend(t) /\ UNCHANGED mDbCompletionPort
             /\ mCompletionPort' = mCompletionPort \cup {NewContext("IO_SEND", s, stored[s])}
    <3>1. stored[s] \in 0 .. MaxEcho
      <4>1. stored[s] + Cardinality(Receiving(s)) <= echoes
        BY <2>0 DEF Base, EchoInv, EchoOne
      <4>2. IsFiniteSet(Receiving(s))
        BY ThreadAssumption, FS_Subset DEF Receiving
      <4>3. Cardinality(Receiving(s)) \in Nat
        BY <4>2, FS_CardinalityType
      <4>4. stored[s] \in Nat /\ echoes \in 0 .. MaxEcho
        BY <1>0, <2>0 DEF SessionShapes, HistoryShapes
      <4> QED
        BY <1>0, <4>1, <4>3, <4>4
    <3> QED
      BY <2>3, <2>5, <3>1 DEF IOType, Number
  <2>6. CASE UNCHANGED mDbCompletionPort /\ UNCHANGED mCompletionPort
    <3>1. Live' \subseteq Live
      BY <2>1, <2>6 DEF Live, Contexts
    <3> QED
      BY <1>0, <1>2, <1>4, <2>6, <3>1 DEF PortShapes
  <2>7. CASE UNCHANGED mDbCompletionPort /\ \E io \in Posted : Brings(s, io)
    BY <1>0, <2>3, <2>7 DEF Brings, Posted, IOType
  <2> QED
    BY <1>0, <1>8, <2>4, <2>5, <2>6, <2>7, PortStep
<1> QED
  BY <1>5, <1>6, <1>7, <1>8, Kinds

\* The numbers of the contexts are kept.
LEMMA NumbersKept ==
  ASSUME Base, Next, \A s \in Session : issue'[s] = issue[s] \/ issue'[s] >= 1
  PROVE  ContextInv'
<1> SUFFICES ASSUME NEW c \in Live' PROVE Numbered(c)'
  BY DEF ContextInv
<1>1. c \in Context /\ c.session \in Session
  BY ContextStep DEF Context
<1>2. CASE \E d \in Live : Follows(c, d)
  <2>1. PICK d \in Live : Follows(c, d)
    BY <1>2
  <2>2. Numbered(d)
    BY DEF Base, ContextInv
  <2> QED
    BY <1>1, <2>1, <2>2 DEF Numbered, Follows
<1>3. CASE Made(c)
  BY <1>3 DEF Numbered, Made
<1> QED
  BY <1>2, <1>3, ContextStep

-----------------------------------------------------------------------------
(***************************************************************************)
(* The lock of the send buffer, and the send that is pending.              *)
(***************************************************************************)
\* Only one action leaves the point where a send is counted.
LEMMA CountingStep ==
  ASSUME NEW t \in IoThread, Works(t), pc[t] = "count"
  PROVE  CountSend(t) \/ UNCHANGED <<pc, at, context>>
<1>1. CASE Returns(t)
  BY <1>1 DEF Returns, ReturnClientSession, SessionReset, SendBufferReset, thread
<1>2. CASE Takes(t) \/ Serves(t)
  BY <1>2 DEF Takes, GetQueuedCompletionStatus, Serves, AcceptCompletion, RequestLoad, ReadId,
       WriteId, PostRecv, PreRecv, PostReceive, RecvCompletion, EchoBack, SendCompletion, FinishSend,
       DisconnectCompletion, OnResult, Disconnect, DeleteIoContext, Handle, Goto
<1>3. CASE Sends(t)
  BY <1>3 DEF Sends, FlushSend, Drop, FlushStored, WSASend, CountSend, DeleteSendContext,
       SendFails, Flushed, Goto
<1> QED
  BY <1>1, <1>2, <1>3 DEF Works

\* Most steps leave the lock and the count of pending sends alone, and enter no locked part.
LEMMA SendingStep ==
  ASSUME ThreadShapes, NEW t \in IoThread, Works(t)
  PROVE  \/ SendCompletion(t) \/ FlushStored(t) \/ CountSend(t) \/ SendFails(t)
         \/ UNCHANGED <<mSendPendingCount, mSendBufferLock>>
<1>1. CASE Returns(t) \/ Takes(t)
  BY <1>1 DEF Returns, ReturnClientSession, SessionReset, SendBufferReset, Takes,
              GetQueuedCompletionStatus, sending
<1>2. CASE Serves(t)
  BY <1>2 DEF Serves, AcceptCompletion, RequestLoad, ReadId, WriteId, PostRecv, PreRecv,
       PostReceive, RecvCompletion, EchoBack, DisconnectCompletion, OnResult, Disconnect,
       DeleteIoContext, sending
<1>3. CASE Sends(t)
  BY <1>3 DEF Sends, FlushSend, Drop, WSASend, DeleteSendContext, sending
<1> QED
  BY <1>1, <1>2, <1>3 DEF Works

\* Where a step of a thread leads while it keeps the lock.
LEMMA LockedStep ==
  ASSUME ThreadShapes, NEW t \in IoThread, Works(t), pc'[t] \in Locking
  PROVE  \/ FlushStored(t)
         \/ pc[t] \in Locking /\ UNCHANGED <<at, mSendPendingCount, mSendBufferLock>>
<1>1. CASE Returns(t)
  BY <1>1 DEF Returns, ReturnClientSession, SessionReset, SendBufferReset, thread, sending
<1>2. CASE Takes(t) \/ Serves(t)
  BY <1>2 DEF Takes, GetQueuedCompletionStatus, Serves, AcceptCompletion, RequestLoad, ReadId,
       WriteId, PostRecv, PreRecv, PostReceive, RecvCompletion, EchoBack, SendCompletion, FinishSend,
       DisconnectCompletion, OnResult, Disconnect, DeleteIoContext, Handle, Goto, Locking,
       ThreadShapes
<1>3. CASE FlushSend(t) \/ Drop(t) \/ CountSend(t) \/ SendFails(t)
  BY <1>3 DEF FlushSend, Drop, CountSend, SendFails, Flushed, Goto, Locking, ThreadShapes
<1>4. CASE WSASend(t) \/ DeleteSendContext(t)
  BY <1>4 DEF WSASend, DeleteSendContext, Goto, Locking, ThreadShapes, sending
<1> QED
  BY <1>1, <1>2, <1>3, <1>4 DEF Works, Sends

\* A send that completes is the one that is pending, unless the lock is held.
LEMMA CompletedIsPending ==
  ASSUME Base, NEW t \in IoThread, SendCompletion(t)
  PROVE  mSendPendingCount[at[t]] = 1 /\ mSendBufferLock[at[t]] = NoThread
<1>1. /\ at[t] \in Session /\ t \in SendsInHand(at[t])
      /\ mSendBufferLock[at[t]] = NoThread
  BY DEF SendCompletion, FinishSend, Handle, Goto, SendsInHand, Base, Shapes, ThreadShapes
<1>2. ~Counting(at[t])
  BY <1>1, ThreadAssumption DEF Counting, Base, SendInv, LockInv, Locking
<1> QED
  BY <1>1, <1>2 DEF Base, SendInv, OneSend

LEMMA LockStep ==
  ASSUME Base, NEW t \in IoThread, Works(t), OnlyMoves(t)
  PROVE  LockInv' /\ mSendPendingCount' \in [Session -> {0, 1}]
         /\ mSendBufferLock' \in [Session -> IoThread \cup {NoThread}]
<1>0. /\ SessionShapes /\ ThreadShapes /\ LockInv /\ at[t] \in Session
      /\ \A u \in IoThread : at[u] \in Session
  BY DEF Base, Shapes, SendInv, ThreadShapes
<1>1. ASSUME pc'[t] \notin Locking \/ (pc[t] \in Locking /\ at'[t] = at[t]),
             UNCHANGED <<mSendPendingCount, mSendBufferLock>>
      PROVE  LockInv'
  BY <1>0, <1>1 DEF LockInv, OnlyMoves
<1>2. CASE SendCompletion(t)
  <2>1. /\ mSendPendingCount[at[t]] = 1 /\ mSendBufferLock[at[t]] = NoThread
        /\ mSendPendingCount' = [mSendPendingCount EXCEPT ![at[t]] = @ - 1]
        /\ mSendBufferLock' = mSendBufferLock
    BY <1>2, CompletedIsPending DEF SendCompletion, FinishSend
  <2>2. pc'[t] \notin Locking
    BY <1>0, <1>2, LockedStep DEF SendCompletion, FinishSend, Handle, Goto, Locking, FlushStored,
                                  Flushed, ThreadShapes
  <2> QED
    BY <1>0, <2>1, <2>2, ThreadAssumption DEF LockInv, OnlyMoves, SessionShapes
<1>3. CASE FlushStored(t)
  <2>1. /\ mSendPendingCount' = mSendPendingCount /\ at' = at /\ mSendBufferLock[at[t]] = NoThread
        /\ \/ pc'[t] = "idle" /\ mSendBufferLock' = mSendBufferLock
           \/ /\ mSendBufferLock' = [mSendBufferLock EXCEPT ![at[t]] = t]
              /\ mSendPendingCount[at[t]] = 0
    BY <1>0, <1>3 DEF FlushStored, Flushed, Goto, ThreadShapes
  <2> QED
    BY <1>0, <2>1, ThreadAssumption DEF LockInv, OnlyMoves, SessionShapes, Locking
<1>4. CASE CountSend(t) \/ SendFails(t)
  <2>1. /\ pc[t] \in Locking /\ pc'[t] = "idle"
        /\ mSendBufferLock' = [mSendBufferLock EXCEPT ![at[t]] = NoThread]
        /\ \/ mSendPendingCount' = mSendPendingCount
           \/ mSendPendingCount' = [mSendPendingCount EXCEPT ![at[t]] = @ + 1]
    BY <1>0, <1>4 DEF CountSend, SendFails, Flushed, Goto, Locking, ThreadShapes
  <2>2. mSendBufferLock[at[t]] = t /\ mSendPendingCount[at[t]] = 0
    BY <1>0, <2>1 DEF LockInv
  <2>3. ASSUME NEW u \in IoThread, pc'[u] \in Locking
        PROVE  mSendBufferLock'[at'[u]] = u /\ mSendPendingCount'[at'[u]] = 0
    <3>1. u # t /\ pc[u] \in Locking /\ at'[u] = at[u]
      BY <2>1, <2>3 DEF Locking, OnlyMoves
    <3>2. at[u] # at[t]
      BY <1>0, <2>2, <3>1 DEF LockInv
    <3> QED
      BY <1>0, <2>1, <3>1, <3>2 DEF LockInv, SessionShapes
  <2> QED
    BY <1>0, <2>1, <2>2, <2>3 DEF LockInv, SessionShapes
<1>5. CASE UNCHANGED <<mSendPendingCount, mSendBufferLock>>
  BY <1>0, <1>1, <1>3, <1>5, LockedStep DEF SessionShapes
<1> QED
  BY <1>0, <1>2, <1>3, <1>4, <1>5, SendingStep

\* No more sends, the same count.
LEMMA SendsKept ==
  ASSUME NEW s, OneSend(s), SendsInPort(s)' \subseteq SendsInPort(s),
         SendsInHand(s)' \subseteq SendsInHand(s),
         mSendPendingCount'[s] = mSendPendingCount[s], Counting(s) => Counting(s)'
  PROVE  OneSend(s)'
BY DEF OneSend

\* A thread's step keeps the sends of s to one.
LEMMA SendStep ==
  ASSUME Base, NEW t \in IoThread, Works(t), OnlyMoves(t), NEW s \in Session
  PROVE  OneSend(s)'
<1>0. /\ PortShapes /\ SessionShapes /\ ThreadShapes /\ HistoryShapes /\ LockInv /\ OneSend(s)
      /\ at[t] \in Session /\ HandInv /\ ContextInv
  BY DEF Base, Shapes, SendInv, ThreadShapes
<1>1. CASE Takes(t)
  <2>1. PICK c \in mCompletionPort :
          /\ mCompletionPort' = mCompletionPort \ {c}
          /\ at' = [at EXCEPT ![t] = c.session]
          /\ \E completed \in Completed(c) :
               /\ context' = [context EXCEPT ![t] = completed]
               /\ Goto(t, "idle", IF Broken(completed) THEN "disconnect" ELSE "handle")
    BY <1>1 DEF Takes, GetQueuedCompletionStatus
  <2>2. PICK d \in Completed(c) : /\ context' = [context EXCEPT ![t] = d]
                                  /\ pc[t] = "idle"
                                  /\ pc' = [pc EXCEPT ![t] = IF Broken(d) THEN "disconnect" ELSE "handle"]
    BY <2>1 DEF Goto
  <2>3. mSendPendingCount' = mSendPendingCount
    BY <1>1 DEF Takes, GetQueuedCompletionStatus, sending
  <2>4. c \in Context /\ c \in Live
    BY <1>0 DEF PortShapes, Live, Contexts, Context, IOType, None
  <2>5. d.io = c.io /\ d.session = c.session
    <3>1. c.io # "CK_DB_RESULT" => c.n \in 0 .. MaxEcho
      BY <1>0, <2>4 DEF ContextInv, Numbered
    <3> QED
      BY <1>0, <2>4, <3>1, CompletedKeeps, BoundAssumption DEF HistoryShapes
  <2>6. at'[t] = c.session /\ context'[t] = d /\ (Counting(s) => Counting(s)')
    BY <1>0, <2>1, <2>2 DEF ThreadShapes, OnlyMoves, Counting
  <2>7. /\ SendsInPort(s)' = SendsInPort(s) \ {c}
        /\ SendsInHand(s)' \subseteq SendsInHand(s) \cup {t}
        /\ t \in SendsInHand(s)' => c \in SendsInPort(s)
    BY <1>0, <2>1, <2>4, <2>5, <2>6 DEF SendsInPort, SendsInHand, OnlyMoves, PortShapes
  <2>8. CASE c \in SendsInPort(s)
    BY <1>0, <2>3, <2>6, <2>7, <2>8 DEF OneSend
  <2>9. CASE c \notin SendsInPort(s)
    <3>1. SendsInHand(s)' \subseteq SendsInHand(s)
      BY <2>7, <2>9
    <3> QED
      BY <1>0, <2>3, <2>6, <2>7, <3>1, SendsKept
  <2> QED
    BY <2>8, <2>9
<1>2. CASE ~Takes(t)
  <2>1. /\ \A u \in IoThread : context'[u] \in {context[u], None}
        /\ pc'[t] # "handle" \/ UNCHANGED <<pc, at, context>>
    BY <1>2, HandStep
  <2>2. SendsInHand(s)' \subseteq SendsInHand(s)
    BY <2>1 DEF SendsInHand, OnlyMoves, None
  <2>3. CASE WSASend(t) /\ at[t] = s /\ pc'[t] = "count"
    <3>1. /\ pc[t] = "wsaSend" /\ at' = at
          /\ mCompletionPort' = mCompletionPort \cup {NewContext("IO_SEND", s, stored[s])}
          /\ mSendPendingCount' = mSendPendingCount
      BY <1>0, <2>3 DEF WSASend, Goto, ThreadShapes, sending
    <3>2. mSendPendingCount[s] = 0 /\ mSendBufferLock[s] = t
      BY <1>0, <2>3, <3>1 DEF LockInv, Locking
    <3>3. ~Counting(s)
      BY <1>0, <3>1, <3>2 DEF Counting, LockInv, Locking
    <3>4. SendsInPort(s) = {} /\ SendsInHand(s) = {}
      BY <1>0, <3>2, <3>3 DEF OneSend
    <3>5. SendsInPort(s)' \subseteq {NewContext("IO_SEND", s, stored[s])}
      BY <3>1, <3>4 DEF SendsInPort
    <3>6. Counting(s)'
      BY <2>3, <3>1 DEF Counting
    <3> QED
      BY <2>2, <3>4, <3>5, <3>6 DEF OneSend
  <2>4. SendsInPort(s)' \subseteq SendsInPort(s) \/ (WSASend(t) /\ at[t] = s /\ pc'[t] = "count")
    <3>1. CASE RequestLoad(t)
      BY <3>1 DEF RequestLoad, SendsInPort
    <3>2. CASE WSASend(t)
      BY <1>0, <3>2 DEF WSASend, SendsInPort, NewContext, Goto, ThreadShapes
    <3>3. CASE UNCHANGED mCompletionPort \/ \E io \in Posted : Brings(at[t], io)
      BY <3>3 DEF Brings, Posted, NewContext, SendsInPort
    <3> QED
      BY <1>0, <1>2, <3>1, <3>2, <3>3, PortStep
  <2>5. CASE CountSend(t)
    <3>1. /\ pc[t] = "count" /\ mCompletionPort' = mCompletionPort /\ at' = at
          /\ mSendPendingCount' = [mSendPendingCount EXCEPT ![at[t]] = @ + 1]
      BY <2>5 DEF CountSend, Flushed, Goto, ports
    <3>2. SendsInPort(s)' = SendsInPort(s)
      BY <3>1 DEF SendsInPort
    <3>3. CASE at[t] = s
      <4>1. mSendPendingCount'[s] = 1
        BY <1>0, <3>1, <3>3 DEF LockInv, Locking, SessionShapes
      <4> QED
        BY <1>0, <2>2, <3>2, <4>1 DEF OneSend
    <3>4. CASE at[t] # s
      <4>1. mSendPendingCount'[s] = mSendPendingCount[s] /\ (Counting(s) => Counting(s)')
        BY <1>0, <3>1, <3>4 DEF Counting, OnlyMoves, SessionShapes
      <4> QED
        BY <1>0, <2>2, <3>2, <4>1, SendsKept
    <3> QED
      BY <3>3, <3>4
  <2>6. CASE SendCompletion(t)
    <3>1. /\ mSendPendingCount' = [mSendPendingCount EXCEPT ![at[t]] = @ - 1]
          /\ mCompletionPort' = mCompletionPort /\ pc[t] = "handle" /\ at' = at
          /\ context[t].io = "IO_SEND"
      BY <2>6 DEF SendCompletion, FinishSend, Handle, Goto, ports
    <3>2. SendsInPort(s)' = SendsInPort(s) /\ pc'[t] # "handle"
      BY <1>0, <2>6, <3>1 DEF SendsInPort, SendCompletion, FinishSend, Handle, Goto, ThreadShapes
    <3>3. CASE at[t] = s
      <4>1. t \in SendsInHand(s) /\ t \notin SendsInHand(s)'
        BY <3>1, <3>2, <3>3 DEF SendsInHand
      <4>2. SendsInPort(s)' = {} /\ SendsInHand(s)' = {}
        BY <1>0, <2>2, <3>2, <4>1 DEF OneSend
      <4> QED
        BY <4>2 DEF OneSend
    <3>4. CASE at[t] # s
      <4>1. mSendPendingCount'[s] = mSendPendingCount[s] /\ (Counting(s) => Counting(s)')
        BY <1>0, <3>1, <3>4 DEF Counting, OnlyMoves, SessionShapes
      <4> QED
        BY <1>0, <2>2, <3>2, <4>1, SendsKept
    <3> QED
      BY <3>3, <3>4
  <2>7. CASE ~CountSend(t) /\ ~SendCompletion(t) /\ SendsInPort(s)' \subseteq SendsInPort(s)
    <3>1. Counting(s) => Counting(s)'
      BY <2>7, CountingStep DEF Counting, OnlyMoves
    <3>2. mSendPendingCount'[s] = mSendPendingCount[s]
      BY <1>0, <2>7, SendingStep DEF FlushStored, SendFails
    <3> QED
      BY <1>0, <2>2, <2>7, <3>1, <3>2, SendsKept
  <2> QED
    BY <2>3, <2>4, <2>5, <2>6, <2>7
<1> QED
  BY <1>1, <1>2

-----------------------------------------------------------------------------
(***************************************************************************)
(* The variables of the sessions and the history keep their shapes.        *)
(***************************************************************************)
\* A thread connects, disconnects and counts references of its own session only.
LEMMA ConnectionStep ==
  ASSUME SessionShapes, ThreadShapes, NEW t \in IoThread, Works(t)
  PROVE  /\ mConnected' \in [Session -> {0, 1}] /\ mRefCount' \in [Session -> Int]
         /\ \A r \in Session \ {at[t]} :
              mConnected'[r] = mConnected[r] /\ mRefCount'[r] = mRefCount[r]
<1>0. at[t] \in Session
  BY DEF ThreadShapes
<1>1. ASSUME UNCHANGED mRefCount \/ (\E io : Brings(at[t], io))
      PROVE  mRefCount' \in [Session -> Int] /\ \A r \in Session \ {at[t]} : mRefCount'[r] = mRefCount[r]
  BY <1>0, <1>1 DEF Brings, SessionShapes
<1>2. ASSUME ReleaseRef(t)
      PROVE  mRefCount' \in [Session -> Int] /\ \A r \in Session \ {at[t]} : mRefCount'[r] = mRefCount[r]
  BY <1>0, <1>2 DEF ReleaseRef, SessionShapes
<1>3. CASE Takes(t) \/ ReadId(t) \/ WriteId(t) \/ RecvCompletion(t) \/ EchoBack(t) \/ SendCompletion(t)
           \/ OnResult(t)
  BY <1>3 DEF Takes, GetQueuedCompletionStatus, ReadId, WriteId, RecvCompletion, EchoBack,
              SendCompletion, FinishSend, OnResult, connection, SessionShapes
<1>4. CASE FlushSend(t) \/ WSASend(t) \/ CountSend(t) \/ ReturnClientSession(t)
           \/ SendBufferReset(t)
  BY <1>4 DEF FlushSend, WSASend, CountSend, ReturnClientSession, SendBufferReset, connection,
              SessionShapes
<1>5. CASE SessionReset(t)
  BY <1>0, <1>5 DEF SessionReset, SessionShapes
<1>6. CASE AcceptCompletion(t)
  <2>1. UNCHANGED mRefCount \/ (\E io : Brings(at[t], io))
    BY <1>6, PostOne, PostNone DEF AcceptCompletion
  <2> QED
    BY <1>0, <1>1, <1>6, <2>1 DEF AcceptCompletion, SessionShapes
<1>7. CASE RequestLoad(t)
  <2> DEFINE request == NewContext("CK_DB_RESULT", at[t], id)
  <2>1. AddRef(at[t], {request}) /\ UNCHANGED mConnected
    BY <1>7 DEF RequestLoad
  <2>2. Cardinality({request}) = 1
    BY FS_Singleton
  <2> HIDE DEF request
  <2> QED
    BY <1>0, <2>1, <2>2 DEF AddRef, SessionShapes
<1>8. CASE PostRecv(t) \/ PreRecv(t)
  <2>1. UNCHANGED mRefCount \/ (\E io : Brings(at[t], io))
    BY <1>8, PostOne DEF PostRecv, PreRecv, PostReceive
  <2>2. UNCHANGED mConnected
    BY <1>8 DEF PostRecv, PreRecv, PostReceive
  <2> QED
    BY <1>1, <2>1, <2>2 DEF SessionShapes
<1>9. CASE DisconnectCompletion(t) \/ DeleteIoContext(t) \/ DeleteSendContext(t)
  BY <1>2, <1>9 DEF DisconnectCompletion, DeleteIoContext, DeleteSendContext, SessionShapes
<1>10. CASE Disconnect(t) \/ Drop(t) \/ SendFails(t)
  <2>1. DisconnectRequest(at[t])
    BY <1>10 DEF Disconnect, Drop, SendFails
  <2>2. /\ mConnected' = [mConnected EXCEPT ![at[t]] = 0]
        /\ UNCHANGED mRefCount \/ (\E io : Brings(at[t], io))
    BY <1>0, <2>1, Disconnecting
  <2> QED
    BY <1>0, <1>1, <2>2 DEF SessionShapes
<1>11. CASE FlushStored(t)
  BY <1>0, <1>11 DEF FlushStored, SessionShapes
<1> QED
  BY <1>3, <1>4, <1>5, <1>6, <1>7, <1>8, <1>9, <1>10, <1>11 DEF Works, Returns, Serves, Sends

\* The pool, the players and the stored messages change in a few steps only.
LEMMA DataStep ==
  ASSUME NEW t \in IoThread, Works(t)
  PROVE  /\ Returns(t) \/ UNCHANGED <<mFreeSessionList, mLock>>
         /\ SendBufferReset(t) \/ OnResult(t) \/ UNCHANGED mPlayerId
         /\ SendBufferReset(t) \/ EchoBack(t) \/ SendCompletion(t) \/ UNCHANGED stored
         /\ RequestLoad(t) \/ UNCHANGED asked
         /\ Takes(t) \/ UNCHANGED echoes
         /\ OnResult(t) \/ UNCHANGED answered
         /\ UNCHANGED <<issued, issue, inherited>>
         /\ ReadId(t) \/ WriteId(t) \/ UNCHANGED <<id, old>>
<1>1. CASE Returns(t)
  BY <1>1 DEF Returns, ReturnClientSession, SessionReset, SendBufferReset, player, sending, history
<1>2. CASE Takes(t)
  BY <1>2 DEF Takes, GetQueuedCompletionStatus, player, sending, pool
<1>3. CASE Serves(t)
  <2>1. CASE AcceptCompletion(t) \/ RequestLoad(t) \/ ReadId(t) \/ WriteId(t)
    BY <2>1 DEF AcceptCompletion, RequestLoad, ReadId, WriteId, player, sending, pool, history
  <2>2. CASE PostRecv(t) \/ PreRecv(t) \/ RecvCompletion(t) \/ EchoBack(t)
    BY <2>2 DEF PostRecv, PreRecv, PostReceive, RecvCompletion, EchoBack, player, sending, pool,
                history
  <2>3. CASE SendCompletion(t) \/ DisconnectCompletion(t) \/ OnResult(t)
    BY <2>3 DEF SendCompletion, FinishSend, DisconnectCompletion, OnResult, player, sending, pool,
                history
  <2>4. CASE Disconnect(t) \/ DeleteIoContext(t)
    BY <2>4 DEF Disconnect, DeleteIoContext, player, sending, pool, history
  <2> QED
    BY <1>3, <2>1, <2>2, <2>3, <2>4 DEF Serves
<1>4. CASE Sends(t)
  BY <1>4 DEF Sends, FlushSend, Drop, FlushStored, WSASend, CountSend, DeleteSendContext, SendFails,
              player, sending, pool, history
<1> QED
  BY <1>1, <1>2, <1>3, <1>4 DEF Works

\* What is sent of the stored messages leaves a number of them.
LEMMA StoredStep ==
  ASSUME Base, NEW t \in IoThread, Works(t)
  PROVE  /\ stored' \in [Session -> Nat]
         /\ \A s \in Session : IF EchoBack(t) /\ s = at[t] THEN stored'[s] = stored[s] + 1
                                                        ELSE stored'[s] <= stored[s]
<1>0. /\ stored \in [Session -> Nat] /\ at[t] \in Session /\ HandInv /\ ContextInv
      /\ ThreadShapes
  BY DEF Base, Shapes, SessionShapes, ThreadShapes
<1>1. CASE SendCompletion(t)
  <2>1. /\ pc[t] = "handle" /\ context[t].io = "IO_SEND"
        /\ stored' = [stored EXCEPT ![at[t]] = IF @ < context[t].n THEN 0 ELSE @ - context[t].n]
        /\ ~EchoBack(t)
    BY <1>1 DEF SendCompletion, FinishSend, Handle, Goto, EchoBack
  <2>2. context[t] \in Live
    BY <1>0, <2>1 DEF HandInv, Hand, Serving, Live, Contexts, Context, IOType, None
  <2>3. context[t].n \in Nat
    BY <1>0, <2>1, <2>2, BoundAssumption DEF ContextInv, Numbered
  <2>4. \A s \in Session :
          stored'[s] = IF s = at[t] THEN IF stored[s] < context[t].n THEN 0 ELSE stored[s] - context[t].n
                       ELSE stored[s]
    BY <1>0, <2>1
  <2>5. PICK n \in Nat : n = context[t].n
    BY <2>3
  <2>6. \A x \in Nat : /\ (IF x < n THEN 0 ELSE x - n) \in Nat
                       /\ (IF x < n THEN 0 ELSE x - n) <= x
    BY <2>5
  <2>7. \A s \in Session : stored'[s] \in Nat /\ stored'[s] <= stored[s]
    BY <1>0, <2>4, <2>5, <2>6
  <2>8. stored' \in [Session -> Nat]
    BY <1>0, <2>1, <2>7
  <2> QED
    BY <2>1, <2>7, <2>8
<1>2. CASE EchoBack(t)
  BY <1>0, <1>2 DEF EchoBack
<1>3. CASE SendBufferReset(t)
  <2>1. stored' = [stored EXCEPT ![at[t]] = 0] /\ returning[t] = "clear"
    BY <1>3 DEF SendBufferReset
  <2>2. ~EchoBack(t)
    BY <2>1 DEF EchoBack, Goto
  <2>3. stored' \in [Session -> Nat] /\ \A s \in Session : stored'[s] \in {0, stored[s]}
    BY <1>0, <2>1
  <2>4. \A s \in Session : stored'[s] <= stored[s]
    BY <1>0, <2>3
  <2> QED
    BY <2>2, <2>3, <2>4
<1>4. CASE ~EchoBack(t) /\ UNCHANGED stored
  BY <1>0, <1>4
<1> QED
  BY <1>1, <1>2, <1>3, <1>4, DataStep

LEMMA SessionStep ==
  ASSUME Base, Next
  PROVE  SessionShapes'
<1>0. SessionShapes /\ ThreadShapes /\ PortShapes /\ HandInv /\ ContextInv
  BY DEF Base, Shapes
<1>1. ASSUME NEW s \in Session, AcceptClientSessions(s) PROVE SessionShapes'
  BY <1>0, <1>1 DEF AcceptClientSessions, player, sending, SessionShapes
<1>2. CASE DoDatabaseJob
  BY <1>0, <1>2 DEF DoDatabaseJob, player, connection, sending, pool, SessionShapes
<1>3. ASSUME NEW t \in IoThread, Works(t) PROVE SessionShapes'
  <2>1. at[t] \in Session
    BY <1>0 DEF ThreadShapes
  <2>2. mFreeSessionList' \subseteq Session /\ mLock' \in IoThread \cup {NoThread}
    <3>1. CASE Returns(t)
      BY <1>0, <2>1, <3>1 DEF Returns, ReturnClientSession, SessionReset, SendBufferReset,
                              SessionShapes
    <3>2. CASE UNCHANGED <<mFreeSessionList, mLock>>
      BY <1>0, <3>2 DEF SessionShapes
    <3> QED
      BY <1>3, <3>1, <3>2, DataStep
  <2>3. mPlayerId' \in [Session -> {NoPlayer} \cup Ids]
    <3>1. CASE SendBufferReset(t)
      BY <1>0, <2>1, <3>1 DEF SendBufferReset, SessionShapes
    <3>2. CASE OnResult(t)
      <4>1. /\ pc[t] = "handle" /\ context[t].io = "CK_DB_RESULT"
            /\ mPlayerId' = [mPlayerId EXCEPT ![at[t]] = IF context[t].ok THEN context[t].n ELSE @]
        BY <3>2 DEF OnResult, Handle, Goto
      <4>2. context[t] \in Live
        BY <1>0, <4>1 DEF HandInv, Hand, Serving, Live, Contexts, Context, IOType, None
      <4>3. context[t].n \in Ids
        BY <1>0, <4>1, <4>2 DEF ContextInv, Numbered
      <4>4. (IF context[t].ok THEN context[t].n ELSE mPlayerId[at[t]]) \in {NoPlayer} \cup Ids
        BY <1>0, <2>1, <4>3 DEF SessionShapes
      <4> QED
        BY <1>0, <2>1, <4>1, <4>4 DEF SessionShapes
    <3>3. CASE UNCHANGED mPlayerId
      BY <1>0, <3>3 DEF SessionShapes
    <3> QED
      BY <1>3, <3>1, <3>2, <3>3, DataStep
  <2>4. /\ mSendPendingCount' \in [Session -> {0, 1}]
        /\ mSendBufferLock' \in [Session -> IoThread \cup {NoThread}]
    <3>1. OnlyMoves(t)
      BY <1>3, ThreadStep
    <3> QED
      BY <1>3, <3>1, LockStep
  <2>5. mConnected' \in [Session -> {0, 1}] /\ mRefCount' \in [Session -> Int]
    BY <1>0, <1>3, ConnectionStep
  <2>6. stored' \in [Session -> Nat]
    BY <1>3, StoredStep
  <2> QED
    BY <2>2, <2>3, <2>4, <2>5, <2>6 DEF SessionShapes
<1> QED
  BY <1>1, <1>2, <1>3, Kinds

LEMMA HistoryStep ==
  ASSUME Base, Next
  PROVE  HistoryShapes' /\ \A s \in Session : issue'[s] = issue[s] \/ issue'[s] >= 1
<1>0. /\ SessionShapes /\ ThreadShapes /\ PortShapes /\ HistoryShapes /\ HandInv /\ ContextInv
      /\ MaxIssue \in Nat /\ MaxEcho \in Nat
  BY BoundAssumption DEF Base, Shapes
<1>1. ASSUME NEW s \in Session, AcceptClientSessions(s)
      PROVE  HistoryShapes' /\ \A r \in Session : issue'[r] = issue[r] \/ issue'[r] >= 1
  <2>1. /\ issued' = issued + 1 /\ issue' = [issue EXCEPT ![s] = issued + 1]
        /\ asked' = [asked EXCEPT ![s] = NoPlayer]
        /\ inherited' = [inherited EXCEPT ![s] = mSendPendingCount[s]]
        /\ UNCHANGED <<crashed, strayed, answered, echoes>>
    BY <1>1 DEF AcceptClientSessions, ghost
  <2>2. issued + 1 \in 0 .. MaxIssue /\ issued + 1 >= 1
    BY <1>0, <1>1, AcceptContext
  <2> QED
    BY <1>0, <2>1, <2>2 DEF HistoryShapes, SessionShapes
<1>2. CASE DoDatabaseJob
  BY <1>0, <1>2 DEF DoDatabaseJob, ghost, history, HistoryShapes
<1>3. ASSUME NEW t \in IoThread, Works(t)
      PROVE  HistoryShapes' /\ \A s \in Session : issue'[s] = issue[s] \/ issue'[s] >= 1
  <2>0. UNCHANGED <<issued, issue, inherited>> /\ at[t] \in Session
    BY <1>0, <1>3, DataStep DEF ThreadShapes
  <2>1. asked' \in [Session -> {NoPlayer} \cup Ids]
    <3>1. CASE RequestLoad(t)
      <4>1. id \in Ids
        BY <1>0, IdInRange DEF Base, IdInv
      <4> QED
        BY <1>0, <2>0, <3>1, <4>1 DEF RequestLoad, HistoryShapes
    <3> QED
      BY <1>0, <1>3, <3>1, DataStep DEF HistoryShapes
  <2>2. answered' \subseteq 1 .. MaxIssue
    <3>1. CASE OnResult(t)
      <4>1. /\ pc[t] = "handle" /\ context[t].io = "CK_DB_RESULT"
            /\ answered' = answered \cup {context[t].issue}
        BY <3>1 DEF OnResult, Handle, Goto
      <4>2. context[t] \in Live /\ context[t] \in Context
        BY <1>0, <4>1 DEF HandInv, Hand, Serving, Live, Contexts, Context, IOType, None
      <4>3. context[t].issue \in 0 .. MaxIssue /\ context[t].issue >= 1
        BY <1>0, <4>1, <4>2 DEF ContextInv, Numbered, Context
      <4>4. context[t].issue \in 1 .. MaxIssue
        BY <1>0, <4>3
      <4> QED
        BY <1>0, <4>1, <4>4 DEF HistoryShapes
    <3> QED
      BY <1>0, <1>3, <3>1, DataStep DEF HistoryShapes
  <2>3. echoes' \in 0 .. MaxEcho
    <3>1. CASE Takes(t)
      <4>1. PICK c \in mCompletionPort : \E completed \in Completed(c) :
              echoes' = echoes + (IF c.io = "IO_RECV" /\ completed.ok THEN 1 ELSE 0)
        BY <3>1 DEF Takes, GetQueuedCompletionStatus
      <4>2. PICK d \in Completed(c) :
              echoes' = echoes + (IF c.io = "IO_RECV" /\ d.ok THEN 1 ELSE 0)
        BY <4>1
      <4>3. c \in Context /\ c \in Live
        BY <1>0 DEF PortShapes, Live, Contexts, Context, IOType, None
      <4>4. c.io = "IO_RECV" /\ d.ok => echoes < MaxEcho
        <5>1. c.io # "CK_DB_RESULT" => c.n \in 0 .. MaxEcho
          BY <1>0, <4>3 DEF ContextInv, Numbered
        <5> QED
          BY <1>0, <4>3, <5>1, CompletedKeeps DEF HistoryShapes
      <4> QED
        BY <1>0, <4>2, <4>4 DEF HistoryShapes
    <3> QED
      BY <1>0, <1>3, <3>1, DataStep DEF HistoryShapes
  <2>4. crashed' \in BOOLEAN
    <3>1. CASE Returns(t) \/ Takes(t)
      BY <1>0, <3>1 DEF Returns, ReturnClientSession, SessionReset, SendBufferReset, Takes,
                        GetQueuedCompletionStatus, ghost, HistoryShapes
    <3>2. CASE ReleaseRef(t)
      BY <3>2 DEF ReleaseRef
    <3>3. CASE AcceptCompletion(t)
      BY <3>3 DEF AcceptCompletion
    <3>4. CASE \/ RequestLoad(t) \/ ReadId(t) \/ WriteId(t)
               \/ PostRecv(t) \/ RecvCompletion(t) \/ EchoBack(t) \/ PreRecv(t) \/ SendCompletion(t)
               \/ OnResult(t) \/ Disconnect(t)
      BY <1>0, <3>4 DEF RequestLoad, ReadId, WriteId, PostRecv, RecvCompletion, EchoBack, PreRecv,
                        PostReceive, SendCompletion, FinishSend, OnResult, Disconnect, ghost,
                        HistoryShapes
    <3>5. CASE FlushSend(t) \/ Drop(t) \/ FlushStored(t) \/ WSASend(t) \/ CountSend(t) \/ SendFails(t)
      BY <1>0, <3>5 DEF FlushSend, Drop, FlushStored, WSASend, CountSend, SendFails, ghost,
                        HistoryShapes
    <3> QED
      BY <1>3, <3>1, <3>2, <3>3, <3>4, <3>5 DEF Works, Serves, Sends, DisconnectCompletion,
                                             DeleteIoContext, DeleteSendContext
  <2>5. strayed' \in BOOLEAN
    <3>1. CASE Returns(t) \/ Takes(t)
      BY <1>0, <3>1 DEF Returns, ReturnClientSession, SessionReset, SendBufferReset, Takes,
                        GetQueuedCompletionStatus, ghost, HistoryShapes
    <3>2. CASE Serves(t)
      BY <1>0, <3>2 DEF Serves, AcceptCompletion, RequestLoad, ReadId, WriteId, PostRecv,
                        RecvCompletion, EchoBack, PreRecv, PostReceive, SendCompletion, FinishSend,
                        DisconnectCompletion, DeleteIoContext, OnResult, Disconnect, ghost,
                        HistoryShapes
    <3>3. CASE FlushStored(t)
      <4>1. strayed' = strayed \/ strayed' = (strayed \/ mRefCount[at[t]] = 0)
        BY <3>3 DEF FlushStored
      <4>2. (strayed \/ mRefCount[at[t]] = 0) \in BOOLEAN /\ strayed \in BOOLEAN
        BY <1>0 DEF HistoryShapes
      <4> QED
        BY <4>1, <4>2
    <3>4. CASE FlushSend(t) \/ Drop(t) \/ WSASend(t) \/ CountSend(t) \/ DeleteSendContext(t)
               \/ SendFails(t)
      BY <1>0, <3>4 DEF FlushSend, Drop, WSASend, CountSend, DeleteSendContext, SendFails, ghost,
                        HistoryShapes
    <3> QED
      BY <1>3, <3>1, <3>2, <3>3, <3>4 DEF Works, Sends
  <2> QED
    BY <1>0, <2>0, <2>1, <2>2, <2>3, <2>4, <2>5 DEF HistoryShapes
<1> QED
  BY <1>1, <1>2, <1>3, Kinds

-----------------------------------------------------------------------------
(***************************************************************************)
(* The ids: there is room for as many as there are accepts to come for one.*)
(***************************************************************************)
\* One element more or less.
LEMMA AddOne ==
  ASSUME NEW S, NEW T, IsFiniteSet(S), NEW x, T = S \cup {x}
  PROVE  Cardinality(T) \in Nat /\ Cardinality(T) <= Cardinality(S) + 1
<1>1. Cardinality(S) \in Nat
  BY FS_CardinalityType
<1>2. Cardinality(T) = IF x \in S THEN Cardinality(S) ELSE Cardinality(S) + 1
  BY FS_AddElement
<1> QED
  BY <1>1, <1>2

LEMMA RemoveOne ==
  ASSUME NEW S, IsFiniteSet(S), NEW x
  PROVE  Cardinality(S \ {x}) = Cardinality(S) - (IF x \in S THEN 1 ELSE 0)
<1>1. Cardinality(S) \in Nat
  BY FS_CardinalityType
<1>2. Cardinality(S \ {x}) = IF x \in S THEN Cardinality(S) - 1 ELSE Cardinality(S)
  BY FS_RemoveElement
<1> QED
  BY <1>1, <1>2

LEMMA AskLess ==
  ASSUME PortShapes, AcceptsInPort' \subseteq AcceptsInPort, Asking' \subseteq Asking
  PROVE  ToAsk' \in Nat /\ ToAsk \in Nat /\ ToAsk' <= ToAsk
<1>1. /\ IsFiniteSet(AcceptsInPort) /\ Cardinality(AcceptsInPort) \in Nat
      /\ IsFiniteSet(Asking) /\ Cardinality(Asking) \in Nat /\ ToAsk \in Nat
  BY AskCounts DEF AskNumbers
<1>2. /\ IsFiniteSet(AcceptsInPort') /\ Cardinality(AcceptsInPort') <= Cardinality(AcceptsInPort)
      /\ IsFiniteSet(Asking') /\ Cardinality(Asking') <= Cardinality(Asking)
  BY <1>1, FS_Subset
<1>3. Cardinality(AcceptsInPort') \in Nat /\ Cardinality(Asking') \in Nat
  BY <1>2, FS_CardinalityType
<1> QED
  BY <1>1, <1>2, <1>3 DEF ToAsk

\* The room for ids does not shrink when no more is to be asked than is issued.
RoomIsInt == AskNumbers /\ issued \in Nat /\ Room \in Int

LEMMA RoomNumbers == PortShapes /\ HistoryShapes => RoomIsInt
<1> SUFFICES ASSUME PortShapes, HistoryShapes PROVE RoomIsInt
  OBVIOUS
<1>1. AskNumbers /\ issued \in Nat
  BY AskCounts, BoundAssumption DEF HistoryShapes
<1> QED
  BY <1>1 DEF RoomIsInt, AskNumbers, Room, FirstId

LEMMA Growth ==
  ASSUME NEW a \in Nat, NEW b \in Nat, NEW i \in Nat, NEW j \in Nat, NEW n \in Nat,
         b + i + n <= a + j
  PROVE  FirstId + i - a + n <= FirstId + j - b
BY DEF FirstId

LEMMA SameIssued ==
  ASSUME NEW a \in Nat, NEW b \in Nat, NEW i \in Nat, NEW n \in Nat, b + n <= a
  PROVE  b + i + n <= a + i
OBVIOUS

LEMMA RoomGrows ==
  ASSUME RoomIsInt, RoomIsInt', NEW n \in Nat, ToAsk' + issued + n <= ToAsk + issued'
  PROVE  Room \in Int /\ Room' \in Int /\ Room + n <= Room' /\ Room <= Room'
<1>1. Room \in Int /\ ToAsk \in Nat /\ issued \in Nat
  BY DEF RoomIsInt, AskNumbers
<1>2. Room' \in Int /\ ToAsk' \in Nat /\ issued' \in Nat
  BY DEF RoomIsInt, AskNumbers
<1>3. PICK a \in Nat : a = ToAsk
  BY <1>1
<1>4. PICK b \in Nat : b = ToAsk'
  BY <1>2
<1>5. PICK i \in Nat : i = issued
  BY <1>1
<1>6. PICK j \in Nat : j = issued'
  BY <1>2
<1>7. b + i + n <= a + j
  BY <1>3, <1>4, <1>5, <1>6
<1>8. FirstId + i - a + n <= FirstId + j - b
  BY <1>7, Growth
<1>9. Room + n <= Room'
  BY <1>3, <1>4, <1>5, <1>6, <1>8 DEF Room
<1>10. PICK x \in Int : x = Room
  BY <1>1
<1>11. PICK y \in Int : y = Room'
  BY <1>2
<1>12. x + n <= y => x <= y
  OBVIOUS
<1> QED
  BY <1>1, <1>2, <1>9, <1>10, <1>11, <1>12

LEMMA BoundKept ==
  ASSUME Room \in Int, Room' \in Int, Room <= Room', NEW v, IdBound(v)
  PROVE  v \in Nat /\ FirstId <= v /\ v <= Room'
<1>1. PICK a \in Int : a = Room
  OBVIOUS
<1>2. PICK b \in Int : b = Room'
  OBVIOUS
<1>3. a <= b
  BY <1>1, <1>2
<1>4. v \in Nat /\ FirstId <= v /\ v <= a
  BY <1>1 DEF IdBound
<1>5. v <= b
  BY <1>3, <1>4
<1> QED
  BY <1>2, <1>4, <1>5

\* Then the ids that are left alone stay bounded.
LEMMA IdKept ==
  ASSUME IdInv, Room \in Int, Room' \in Int, Room <= Room',
         id' = id, old' = old, \A t \in IoThread : pc'[t] = "write" <=> pc[t] = "write"
  PROVE  IdInv'
<1>1. IdBound(id)'
  <2>1. id \in Nat /\ FirstId <= id /\ id <= Room'
    BY BoundKept DEF IdInv
  <2> QED
    BY <2>1 DEF IdBound
<1>2. ASSUME NEW t \in IoThread
      PROVE  IF pc'[t] = "write" THEN IdBound(old[t])' ELSE old'[t] = 0
  <2>1. CASE pc[t] = "write"
    <3>1. old[t] \in Nat /\ FirstId <= old[t] /\ old[t] <= Room'
      BY <2>1, BoundKept DEF IdInv
    <3> QED
      BY <2>1, <3>1 DEF IdBound
  <2>2. CASE pc[t] # "write"
    BY <2>2 DEF IdInv
  <2> QED
    BY <2>1, <2>2
<1> QED
  BY <1>1, <1>2 DEF IdInv

\* A thread goes on to its id++ from the accept, and leaves it with WriteId.
LEMMA AskingStep ==
  ASSUME Base, NEW t \in IoThread, Works(t), ~Takes(t), OnlyMoves(t)
  PROVE  /\ Asking' \subseteq Asking
         /\ ReadId(t) \/ WriteId(t) \/ \A u \in IoThread : pc'[u] = "write" <=> pc[u] = "write"
<1>0. ThreadShapes /\ HandInv
  BY DEF Base, Shapes
<1>1. /\ \A u \in IoThread : context'[u] \in {context[u], None}
      /\ pc'[t] # "handle" \/ UNCHANGED <<pc, at, context>>
  BY HandStep
<1>2. /\ pc'[t] \in {"load", "read", "write"} => pc[t] \in {"handle", "load", "read", "write"}
      /\ ReadId(t) \/ WriteId(t) \/ (pc'[t] = "write" <=> pc[t] = "write")
  <2>1. CASE Returns(t)
    BY <2>1 DEF Returns, ReturnClientSession, SessionReset, SendBufferReset, thread
  <2>2. CASE AcceptCompletion(t) \/ RequestLoad(t) \/ ReadId(t) \/ WriteId(t)
    BY <1>0, <2>2 DEF AcceptCompletion, RequestLoad, ReadId, WriteId, Handle, Goto, ThreadShapes
  <2>3. CASE PostRecv(t) \/ PreRecv(t) \/ RecvCompletion(t) \/ EchoBack(t) \/ SendCompletion(t)
    BY <1>0, <2>3 DEF PostRecv, PreRecv, PostReceive, RecvCompletion, EchoBack, SendCompletion,
                      FinishSend, Handle, Goto, ThreadShapes
  <2>4. CASE DisconnectCompletion(t) \/ OnResult(t) \/ Disconnect(t) \/ DeleteIoContext(t)
    BY <1>0, <2>4 DEF DisconnectCompletion, OnResult, Disconnect, DeleteIoContext, Handle, Goto,
                      ThreadShapes
  <2>5. CASE Sends(t)
    BY <1>0, <2>5 DEF Sends, FlushSend, Drop, FlushStored, WSASend, CountSend, DeleteSendContext,
                      SendFails, Flushed, Goto, ThreadShapes
  <2> QED
    BY <2>1, <2>2, <2>3, <2>4, <2>5 DEF Works, Serves
<1>3. ASSUME NEW u \in Asking' PROVE u \in Asking
  <2>1. u \in IoThread /\ context'[u] = context[u] /\ context[u].io = "IO_ACCEPT"
    BY <1>1 DEF Asking, None
  <2> QED
    BY <1>1, <1>2, <2>1 DEF Asking, OnlyMoves
<1> QED
  BY <1>2, <1>3 DEF OnlyMoves

\* Each id++ writes at most one more than was asked for before, and for its own accept.
LEMMA IdStep ==
  ASSUME Base, PortShapes', HistoryShapes', Next
  PROVE  IdInv'
<1>0. /\ issued \in Nat /\ issued' \in Nat /\ RoomIsInt /\ RoomIsInt'
      /\ PortShapes /\ SessionShapes /\ ThreadShapes /\ HistoryShapes /\ IdInv /\ ContextInv
  <2>1. RoomIsInt /\ RoomIsInt'
    <3>1. PortShapes /\ HistoryShapes
      BY DEF Base, Shapes
    <3>2. RoomIsInt'
      BY RoomNumbers, PTL
    <3> QED
      BY <3>1, <3>2, RoomNumbers
  <2> QED
    BY <2>1 DEF Base, Shapes, RoomIsInt
<1>1. /\ IsFiniteSet(AcceptsInPort) /\ Cardinality(AcceptsInPort) \in Nat
      /\ IsFiniteSet(Asking) /\ Cardinality(Asking) \in Nat /\ ToAsk \in Nat
  BY <1>0 DEF RoomIsInt, AskNumbers
<1>2. /\ Cardinality(AcceptsInPort)' \in Nat /\ Cardinality(Asking)' \in Nat /\ ToAsk' \in Nat
  BY <1>0 DEF RoomIsInt, AskNumbers
<1>3. ASSUME ToAsk' <= ToAsk, issued' = issued
      PROVE  Room \in Int /\ Room' \in Int /\ Room <= Room'
  <2>1. ToAsk' + issued + 0 <= ToAsk + issued'
    <3>1. ToAsk' + 0 <= ToAsk
      <4>1. \A n \in Nat : n + 0 = n
        OBVIOUS
      <4> QED
        BY <1>2, <1>3, <4>1
    <3>2. ToAsk' + issued + 0 <= ToAsk + issued
      BY <1>0, <1>1, <1>2, <3>1, SameIssued
    <3> QED
      BY <1>3, <3>2
  <2> QED
    BY <1>0, <2>1, RoomGrows
<1>4. ASSUME NEW s \in Session, AcceptClientSessions(s) PROVE IdInv'
  <2> DEFINE c == [NewContext("IO_ACCEPT", s, 0) EXCEPT !.issue = issued + 1]
  <2>1. /\ issued' = issued + 1 /\ mCompletionPort' = mCompletionPort \cup {c}
        /\ UNCHANGED <<id, pc, context, old>>
    BY <1>4 DEF AcceptClientSessions, thread, player
  <2>2. c.io = "IO_ACCEPT"
    BY <1>0, <1>4, AcceptContext
  <2> HIDE DEF c
  <2>3. AcceptsInPort' = AcceptsInPort \cup {c} /\ Asking' = Asking
    BY <2>1, <2>2 DEF AcceptsInPort, Asking
  <2>4. Cardinality(AcceptsInPort') <= Cardinality(AcceptsInPort) + 1
    BY <1>1, <2>3, AddOne
  <2>5. Room \in Int /\ Room' \in Int /\ Room <= Room'
    <3>1. ToAsk' + issued + 0 <= ToAsk + issued'
      BY <1>0, <1>1, <1>2, <2>1, <2>3, <2>4 DEF ToAsk
    <3> QED
      BY <1>0, <3>1, RoomGrows
  <2> QED
    BY <1>0, <2>1, <2>5, IdKept
<1>5. CASE DoDatabaseJob
  <2>1. UNCHANGED <<id, pc, context, old, issued>>
    BY <1>5 DEF DoDatabaseJob, thread, player, history
  <2>2. AcceptsInPort' = AcceptsInPort
    <3>1. PICK c \in mDbCompletionPort, ok \in BOOLEAN :
            mCompletionPort' = mCompletionPort \cup {[c EXCEPT !.ok = ok]}
      BY <1>5 DEF DoDatabaseJob
    <3>2. c.io = "CK_DB_RESULT" /\ c \in Context
      BY <1>0 DEF PortShapes
    <3>3. [c EXCEPT !.ok = ok].io = "CK_DB_RESULT"
      BY <3>2 DEF Context
    <3> QED
      BY <3>1, <3>3 DEF AcceptsInPort
  <2>3. Asking' = Asking
    BY <2>1 DEF Asking
  <2>4. Room \in Int /\ Room' \in Int /\ Room <= Room'
    <3>1. ToAsk' <= ToAsk /\ issued' = issued
      BY <1>1, <2>1, <2>2, <2>3 DEF ToAsk
    <3> QED
      BY <3>1, <1>3
  <2> QED
    BY <1>0, <2>1, <2>4, IdKept
<1>6. ASSUME NEW t \in IoThread, Takes(t) PROVE IdInv'
  <2>1. PICK c \in mCompletionPort : \E e \in Completed(c) :
          /\ mCompletionPort' = mCompletionPort \ {c} /\ context' = [context EXCEPT ![t] = e]
          /\ Goto(t, "idle", IF Broken(e) THEN "disconnect" ELSE "handle")
    BY <1>6 DEF Takes, GetQueuedCompletionStatus
  <2>2. PICK d \in Completed(c) :
          /\ mCompletionPort' = mCompletionPort \ {c} /\ context' = [context EXCEPT ![t] = d]
          /\ pc[t] = "idle"
          /\ pc' = [pc EXCEPT ![t] = IF Broken(d) THEN "disconnect" ELSE "handle"]
    BY <2>1 DEF Goto
  <2>3. UNCHANGED <<id, old, issued>>
    BY <1>6 DEF Takes, GetQueuedCompletionStatus, player
  <2>4. c \in Context /\ d.io = c.io
    <3>1. c \in Context /\ c \in Live
      BY <1>0 DEF PortShapes, Live, Contexts, Context, IOType, None
    <3>2. c.io # "CK_DB_RESULT" => c.n \in 0 .. MaxEcho
      BY <1>0, <3>1 DEF ContextInv, Numbered
    <3> QED
      BY <1>0, <3>1, <3>2, CompletedKeeps, BoundAssumption DEF HistoryShapes
  <2>5. /\ pc'[t] \in {"disconnect", "handle"} /\ context'[t] = d
        /\ \A u \in IoThread \ {t} : pc'[u] = pc[u] /\ context'[u] = context[u]
    BY <1>0, <2>2 DEF ThreadShapes
  <2>6. ToAsk' <= ToAsk
    <3>1. CASE c.io = "IO_ACCEPT"
      <4>1. AcceptsInPort' = AcceptsInPort \ {c} /\ c \in AcceptsInPort
        BY <2>2, <3>1 DEF AcceptsInPort
      <4>2. Cardinality(AcceptsInPort') = Cardinality(AcceptsInPort) - 1
        BY <1>1, <4>1, RemoveOne
      <4>3. Asking' \subseteq Asking \cup {t}
        BY <2>5 DEF Asking
      <4>4. Cardinality(Asking \cup {t}) <= Cardinality(Asking) + 1
            /\ IsFiniteSet(Asking \cup {t}) /\ Cardinality(Asking \cup {t}) \in Nat
        BY <1>1, AddOne, FS_AddElement
      <4>5. Cardinality(Asking') <= Cardinality(Asking \cup {t})
        BY <4>3, <4>4, FS_Subset
      <4> QED
        BY <1>1, <1>2, <4>2, <4>4, <4>5 DEF ToAsk
    <3>2. CASE c.io # "IO_ACCEPT"
      <4>1. AcceptsInPort' \subseteq AcceptsInPort
        BY <2>2 DEF AcceptsInPort
      <4>2. Asking' \subseteq Asking
        BY <2>4, <2>5, <3>2 DEF Asking
      <4> QED
        BY <1>0, <4>1, <4>2, AskLess
    <3> QED
      BY <3>1, <3>2
  <2>7. \A u \in IoThread : pc'[u] = "write" <=> pc[u] = "write"
    BY <2>2, <2>5
  <2>8. Room \in Int /\ Room' \in Int /\ Room <= Room'
    BY <1>3, <2>3, <2>6
  <2> QED
    BY <1>0, <2>3, <2>7, <2>8, IdKept
<1>7. ASSUME NEW t \in IoThread, Works(t), ~Takes(t) PROVE IdInv'
  <2>1. /\ Asking' \subseteq Asking
        /\ ReadId(t) \/ WriteId(t) \/ \A u \in IoThread : pc'[u] = "write" <=> pc[u] = "write"
        /\ \A u \in IoThread \ {t} : pc'[u] = pc[u]
    <3>1. OnlyMoves(t)
      BY <1>7, ThreadStep
    <3> QED
      BY <1>7, <3>1, AskingStep DEF OnlyMoves
  <2>2. AcceptsInPort' \subseteq AcceptsInPort
    <3>1. CASE RequestLoad(t)
      BY <3>1 DEF RequestLoad, AcceptsInPort
    <3>2. CASE mCompletionPort' = mCompletionPort \cup {NewContext("IO_SEND", at[t], stored[at[t]])}
      BY <3>2 DEF NewContext, AcceptsInPort
    <3>3. CASE UNCHANGED mCompletionPort \/ \E io \in Posted : Brings(at[t], io)
      BY <3>3 DEF Brings, Posted, NewContext, AcceptsInPort
    <3> QED
      BY <1>0, <1>7, <3>1, <3>2, <3>3, PortStep
  <2>3. ToAsk' <= ToAsk
    BY <1>0, <2>1, <2>2, AskLess
  <2>4. issued' = issued
    BY <1>7, DataStep
  <2>5. Room \in Int /\ Room' \in Int /\ Room <= Room'
    BY <1>3, <2>3, <2>4
  <2>6. IdBound(id) /\ \A u \in IoThread : IF pc[u] = "write" THEN IdBound(old[u]) ELSE old[u] = 0
    BY <1>0 DEF IdInv
  <2>7. ASSUME NEW u \in IoThread \ {t}, old'[u] = old[u]
        PROVE  IF pc'[u] = "write" THEN IdBound(old[u])' ELSE old'[u] = 0
    <3>1. CASE pc[u] = "write"
      <4>1. old[u] \in Nat /\ FirstId <= old[u] /\ old[u] <= Room'
        BY <2>6, <2>5, <3>1, BoundKept
      <4> QED
        BY <2>1, <2>7, <3>1, <4>1 DEF IdBound
    <3>2. CASE pc[u] # "write"
      BY <2>1, <2>6, <2>7, <3>2
    <3> QED
      BY <3>1, <3>2
  <2>8. CASE ReadId(t)
    <3>1. /\ pc' = [pc EXCEPT ![t] = "write"] /\ old' = [old EXCEPT ![t] = id] /\ UNCHANGED id
      BY <2>8 DEF ReadId, Goto
    <3>2. pc'[t] = "write" /\ old'[t] = id /\ \A u \in IoThread \ {t} : old'[u] = old[u]
      BY <1>0, <3>1 DEF ThreadShapes
    <3>3. IdBound(id)'
      <4>1. id \in Nat /\ FirstId <= id /\ id <= Room'
        BY <2>6, <2>5, BoundKept
      <4> QED
        BY <3>1, <4>1 DEF IdBound
    <3>4. IdBound(old[t])'
      BY <3>1, <3>2, <3>3 DEF IdBound
    <3> QED
      BY <2>7, <3>2, <3>3, <3>4 DEF IdInv
  <2>9. CASE WriteId(t)
    <3>1. /\ pc[t] = "write" /\ pc' = [pc EXCEPT ![t] = "delete"]
          /\ id' = old[t] + 1 /\ old' = [old EXCEPT ![t] = 0]
      BY <2>9 DEF WriteId, Goto
    <3>2. pc'[t] = "delete" /\ old'[t] = 0 /\ \A u \in IoThread \ {t} : old'[u] = old[u]
      BY <1>0, <3>1 DEF ThreadShapes
    <3>3. Asking' \subseteq Asking \ {t} /\ t \in Asking
      BY <2>1, <3>1, <3>2 DEF Asking, Base, HandInv, Hand
    <3>4. Cardinality(Asking \ {t}) = Cardinality(Asking) - 1 /\ IsFiniteSet(Asking \ {t})
      BY <1>1, <3>3, RemoveOne, FS_RemoveElement
    <3>5. Cardinality(Asking') <= Cardinality(Asking) - 1
      BY <3>3, <3>4, FS_Subset
    <3>6. Cardinality(AcceptsInPort') <= Cardinality(AcceptsInPort)
      BY <1>1, <2>2, FS_Subset
    <3>7. ToAsk' + 1 <= ToAsk
      BY <1>1, <1>2, <3>5, <3>6 DEF ToAsk
    <3>8. IdBound(id)'
      <4>1. old[t] \in Nat /\ FirstId <= old[t] /\ old[t] <= Room
        BY <2>6, <3>1 DEF IdBound
      <4>2. ToAsk' + issued + 1 <= ToAsk + issued'
        <5>1. ToAsk' + issued + 1 <= ToAsk + issued
          BY <1>0, <1>1, <1>2, <3>7, SameIssued
        <5> QED
          BY <2>4, <5>1
      <4>3. Room + 1 <= Room'
        BY <1>0, <4>2, RoomGrows
      <4>4. old[t] + 1 \in Nat /\ FirstId <= old[t] + 1 /\ old[t] + 1 <= Room'
        BY <2>5, <4>1, <4>3 DEF FirstId
      <4> QED
        BY <3>1, <4>4 DEF IdBound
    <3> QED
      BY <2>7, <3>2, <3>8 DEF IdInv
  <2>10. CASE ~(ReadId(t) \/ WriteId(t))
    <3>1. UNCHANGED <<id, old>>
      BY <1>7, <2>10, DataStep
    <3> QED
      BY <1>0, <2>1, <2>5, <2>10, <3>1, IdKept
  <2> QED
    BY <2>8, <2>9, <2>10
<1> QED
  BY <1>4, <1>5, <1>6, <1>7, Kinds

-----------------------------------------------------------------------------
(***************************************************************************)
(* The stored messages: each was received, and a receive that is in the    *)
(* hand of a thread counts as received already.                            *)
(***************************************************************************)
LEMMA Receivers ==
  ASSUME NEW S \in SUBSET IoThread
  PROVE  IsFiniteSet(S) /\ Cardinality(S) \in Nat
BY ThreadAssumption, FS_Subset, FS_CardinalityType

\* What is stored was received: k more is stored, and there are j more receives in hand.
LEMMA EchoKept ==
  ASSUME NEW s, EchoOne(s), echoes \in Nat, echoes' \in Nat, stored[s] \in Nat, stored'[s] \in Nat,
         NEW k \in Nat, NEW j \in Nat, stored'[s] <= stored[s] + k, echoes + j <= echoes',
         Cardinality(Receiving(s)') + k <= Cardinality(Receiving(s)) + j
  PROVE  EchoOne(s)'
<1>1. PICK x \in Nat : x = stored[s]
  OBVIOUS
<1>2. PICK y \in Nat : y = stored'[s]
  OBVIOUS
<1>3. PICK m \in Nat : m = Cardinality(Receiving(s))
  BY Receivers DEF Receiving
<1>4. PICK n \in Nat : n = Cardinality(Receiving(s)')
  BY Receivers DEF Receiving
<1>5. PICK e \in Nat : e = echoes
  OBVIOUS
<1>6. PICK f \in Nat : f = echoes'
  OBVIOUS
<1>7. x + m <= e /\ y <= x + k /\ e + j <= f /\ n + k <= m + j
  BY <1>1, <1>2, <1>3, <1>4, <1>5, <1>6 DEF EchoOne
<1>8. y + n <= f
  BY <1>7
<1> QED
  BY <1>2, <1>4, <1>6, <1>8 DEF EchoOne

\* With no more receives in hand it suffices that no more is stored.
LEMMA EchoLess ==
  ASSUME NEW s, EchoOne(s), echoes \in Nat, echoes' = echoes, stored[s] \in Nat,
         stored'[s] \in Nat, stored'[s] <= stored[s], Receiving(s)' \subseteq Receiving(s)
  PROVE  EchoOne(s)'
<1>1. Cardinality(Receiving(s)') <= Cardinality(Receiving(s))
  <2>1. IsFiniteSet(Receiving(s))
    BY Receivers DEF Receiving
  <2> QED
    BY <2>1, FS_Subset
<1>2. Cardinality(Receiving(s)) \in Nat /\ Cardinality(Receiving(s)') \in Nat
  BY Receivers DEF Receiving
<1>3. /\ Cardinality(Receiving(s)') + 0 <= Cardinality(Receiving(s)) + 0
      /\ echoes + 0 <= echoes'
  BY <1>1, <1>2
<1>4. stored'[s] <= stored[s] + 0
  OBVIOUS
<1> QED
  BY <1>3, <1>4, EchoKept

\* The threads that receive: one more when a receive is taken, one less when it is stored.
LEMMA ReceivingStep ==
  ASSUME Base, NEW t \in IoThread, Works(t), ~Takes(t), OnlyMoves(t), NEW s
  PROVE  /\ Receiving(s)' \subseteq Receiving(s)
         /\ EchoBack(t) => (at[t] = s => t \in Receiving(s)) /\ t \notin Receiving(s)'
<1>0. ThreadShapes /\ HandInv
  BY DEF Base, Shapes
<1>1. /\ \A u \in IoThread : context'[u] \in {context[u], None}
      /\ pc'[t] # "handle" \/ UNCHANGED <<pc, at, context>>
  BY HandStep
<1>2. \/ UNCHANGED <<pc, at>>
      \/ pc'[t] # "echo"
      \/ pc[t] = "handle" /\ context[t].io = "IO_RECV" /\ at'[t] = at[t]
  <2>1. CASE Returns(t)
    BY <2>1 DEF Returns, ReturnClientSession, SessionReset, SendBufferReset, thread
  <2>2. CASE AcceptCompletion(t) \/ RequestLoad(t) \/ ReadId(t) \/ WriteId(t)
    BY <1>0, <2>2 DEF AcceptCompletion, RequestLoad, ReadId, WriteId, Handle, Goto, ThreadShapes
  <2>3. CASE PostRecv(t) \/ PreRecv(t) \/ RecvCompletion(t) \/ EchoBack(t) \/ SendCompletion(t)
    BY <1>0, <2>3 DEF PostRecv, PreRecv, PostReceive, RecvCompletion, EchoBack, SendCompletion,
                      FinishSend, Handle, Goto, ThreadShapes
  <2>4. CASE DisconnectCompletion(t) \/ OnResult(t) \/ Disconnect(t) \/ DeleteIoContext(t)
    BY <1>0, <2>4 DEF DisconnectCompletion, OnResult, Disconnect, DeleteIoContext, Handle, Goto,
                      ThreadShapes
  <2>5. CASE Sends(t)
    BY <1>0, <2>5 DEF Sends, FlushSend, Drop, FlushStored, WSASend, CountSend, DeleteSendContext,
                      SendFails, Flushed, Goto, ThreadShapes
  <2> QED
    BY <2>1, <2>2, <2>3, <2>4, <2>5 DEF Works, Serves
<1>3. Receiving(s)' \subseteq Receiving(s)
  BY <1>1, <1>2 DEF Receiving, OnlyMoves, None
<1>4. EchoBack(t) => pc[t] = "echo" /\ pc'[t] = "preRecv"
  BY <1>0 DEF EchoBack, Goto, ThreadShapes
<1> QED
  BY <1>3, <1>4 DEF Receiving

LEMMA EchoStep ==
  ASSUME Base, Next
  PROVE  EchoInv'
<1>0. /\ echoes \in Nat /\ MaxEcho \in Nat /\ echoes \in 0 .. MaxEcho
      /\ \A s \in Session : stored[s] \in Nat /\ EchoOne(s)
      /\ PortShapes /\ SessionShapes /\ ThreadShapes /\ ContextInv
  BY BoundAssumption DEF Base, Shapes, EchoInv, SessionShapes, HistoryShapes
<1>1. ASSUME echoes' = echoes,
             \A s \in Session : /\ stored'[s] \in Nat /\ stored'[s] <= stored[s]
                                /\ Receiving(s)' \subseteq Receiving(s)
      PROVE  EchoInv'
  <2>1. \A s \in Session : EchoOne(s)'
    BY <1>0, <1>1, EchoLess
  <2> QED
    BY <2>1 DEF EchoInv
<1>2. ASSUME UNCHANGED <<pc, at, context, stored, echoes>> PROVE EchoInv'
  <2>1. \A s \in Session : Receiving(s)' \subseteq Receiving(s)
    BY <1>2 DEF Receiving
  <2> QED
    BY <1>0, <1>1, <1>2, <2>1
<1>3. ASSUME NEW s \in Session, AcceptClientSessions(s) PROVE EchoInv'
  BY <1>2, <1>3 DEF AcceptClientSessions, thread, sending
<1>4. CASE DoDatabaseJob
  BY <1>2, <1>4 DEF DoDatabaseJob, sending, thread, history
<1>5. ASSUME NEW t \in IoThread, Takes(t) PROVE EchoInv'
  <2>1. PICK c \in mCompletionPort : \E e \in Completed(c) :
          /\ context' = [context EXCEPT ![t] = e]
          /\ echoes' = echoes + (IF c.io = "IO_RECV" /\ e.ok THEN 1 ELSE 0)
          /\ Goto(t, "idle", IF Broken(e) THEN "disconnect" ELSE "handle")
    BY <1>5 DEF Takes, GetQueuedCompletionStatus
  <2>2. PICK d \in Completed(c) :
          /\ context' = [context EXCEPT ![t] = d]
          /\ echoes' = echoes + (IF c.io = "IO_RECV" /\ d.ok THEN 1 ELSE 0)
          /\ pc[t] = "idle"
          /\ pc' = [pc EXCEPT ![t] = IF Broken(d) THEN "disconnect" ELSE "handle"]
    BY <2>1 DEF Goto
  <2>3. stored' = stored
    BY <1>5 DEF Takes, GetQueuedCompletionStatus, sending
  <2>4. d.io = c.io /\ (c.io = "IO_RECV" /\ ~d.ok => Broken(d))
    <3>1. c \in Context /\ c \in Live
      BY <1>0 DEF PortShapes, Live, Contexts, Context, IOType, None
    <3>2. c.io # "CK_DB_RESULT" => c.n \in 0 .. MaxEcho
      BY <1>0, <3>1 DEF ContextInv, Numbered
    <3> QED
      BY <1>0, <3>1, <3>2, CompletedKeeps
  <2>5. /\ pc'[t] = (IF Broken(d) THEN "disconnect" ELSE "handle") /\ context'[t] = d
        /\ \A u \in IoThread \ {t} : pc'[u] = pc[u] /\ at'[u] = at[u] /\ context'[u] = context[u]
    <3>1. OnlyMoves(t)
      BY <1>5, ThreadStep DEF Works
    <3> QED
      BY <1>0, <2>2, <3>1 DEF ThreadShapes, OnlyMoves
  <2>6. CASE c.io = "IO_RECV" /\ d.ok
    <3>1. echoes' = echoes + 1
      BY <2>2, <2>6
    <3>2. ASSUME NEW s \in Session PROVE EchoOne(s)'
      <4>1. Receiving(s)' \subseteq Receiving(s) \cup {t}
        BY <2>5 DEF Receiving
      <4>2. Cardinality(Receiving(s) \cup {t}) <= Cardinality(Receiving(s)) + 1
        <5>1. IsFiniteSet(Receiving(s))
          BY Receivers DEF Receiving
        <5> QED
          BY <5>1, AddOne
      <4>3. Cardinality(Receiving(s)') <= Cardinality(Receiving(s) \cup {t})
        <5>1. IsFiniteSet(Receiving(s) \cup {t})
          BY Receivers DEF Receiving
        <5> QED
          BY <4>1, <5>1, FS_Subset
      <4>4. /\ Cardinality(Receiving(s)) \in Nat /\ Cardinality(Receiving(s)') \in Nat
            /\ Cardinality(Receiving(s) \cup {t}) \in Nat
        BY Receivers DEF Receiving
      <4>5. Cardinality(Receiving(s)') + 0 <= Cardinality(Receiving(s)) + 1
        BY <4>2, <4>3, <4>4
      <4>6. /\ stored'[s] \in Nat /\ stored'[s] <= stored[s] + 0
            /\ echoes' \in Nat /\ echoes + 1 <= echoes'
        BY <1>0, <2>3, <3>1
      <4> QED
        BY <1>0, <4>5, <4>6, EchoKept
    <3> QED
      BY <3>2 DEF EchoInv
  <2>7. CASE ~(c.io = "IO_RECV" /\ d.ok)
    <3>1. echoes' = echoes
      BY <1>0, <2>2, <2>7
    <3>2. \A s \in Session : Receiving(s)' \subseteq Receiving(s)
      BY <2>4, <2>5, <2>7 DEF Receiving
    <3>3. \A s \in Session : stored'[s] \in Nat /\ stored'[s] <= stored[s]
      BY <1>0, <2>3
    <3> QED
      BY <1>1, <3>1, <3>2, <3>3
  <2> QED
    BY <2>6, <2>7
<1>6. ASSUME NEW t \in IoThread, Works(t), ~Takes(t) PROVE EchoInv'
  <2>1. OnlyMoves(t)
    BY <1>6, ThreadStep
  <2>2. echoes' = echoes
    BY <1>6, DataStep
  <2>3. \A s : /\ Receiving(s)' \subseteq Receiving(s)
               /\ EchoBack(t) => (at[t] = s => t \in Receiving(s)) /\ t \notin Receiving(s)'
    BY <1>6, <2>1, ReceivingStep
  <2>4. /\ \A s \in Session : stored'[s] \in Nat
        /\ \A s \in Session : IF EchoBack(t) /\ s = at[t] THEN stored'[s] = stored[s] + 1
                                                       ELSE stored'[s] <= stored[s]
    BY <1>6, StoredStep
  <2>5. ASSUME NEW s \in Session, EchoBack(t), s = at[t] PROVE EchoOne(s)'
    <3>1. t \in Receiving(s) /\ Receiving(s)' \subseteq Receiving(s) \ {t}
      BY <2>3, <2>5
    <3>2. /\ IsFiniteSet(Receiving(s)) /\ IsFiniteSet(Receiving(s) \ {t})
          /\ Cardinality(Receiving(s)) \in Nat /\ Cardinality(Receiving(s)') \in Nat
          /\ Cardinality(Receiving(s) \ {t}) \in Nat
      BY Receivers DEF Receiving
    <3>3. Cardinality(Receiving(s) \ {t}) = Cardinality(Receiving(s)) - 1
      BY <3>1, <3>2, RemoveOne
    <3>4. Cardinality(Receiving(s)') <= Cardinality(Receiving(s) \ {t})
      BY <3>1, <3>2, FS_Subset
    <3>5. Cardinality(Receiving(s)') + 1 <= Cardinality(Receiving(s)) + 0
      BY <3>2, <3>3, <3>4
    <3>6. stored'[s] \in Nat /\ stored'[s] <= stored[s] + 1 /\ echoes + 0 <= echoes'
      BY <1>0, <2>2, <2>4, <2>5
    <3> QED
      BY <1>0, <2>2, <3>5, <3>6, EchoKept
  <2>6. ASSUME NEW s \in Session, ~(EchoBack(t) /\ s = at[t]) PROVE EchoOne(s)'
    BY <1>0, <2>2, <2>3, <2>4, <2>6, EchoLess
  <2> QED
    BY <2>5, <2>6 DEF EchoInv
<1> QED
  BY <1>3, <1>4, <1>5, <1>6, Kinds

-----------------------------------------------------------------------------
(***************************************************************************)
(* What holds whether a flush strays or not.                               *)
(***************************************************************************)
LEMMA InitBase == Init => Base
<1> SUFFICES ASSUME Init PROVE Base
  OBVIOUS
<1>1. Live = {}
  BY DEF Init, Live, Contexts
<1>2. Shapes
  <2>1. PortShapes /\ ThreadShapes
    BY FS_EmptySet DEF Init, PortShapes, ThreadShapes, Location, Return, FirstId
  <2>2. SessionShapes
    BY DEF Init, SessionShapes
  <2>3. HistoryShapes
    <3>1. crashed \in BOOLEAN /\ strayed \in BOOLEAN
      BY DEF Init
    <3>2. 0 \in 0 .. MaxIssue /\ 0 \in 0 .. MaxEcho
      BY BoundAssumption
    <3> QED
      BY <3>1, <3>2 DEF Init, HistoryShapes
  <2> QED
    BY <2>1, <2>2, <2>3 DEF Shapes
<1>3. HandInv /\ LockInv /\ ContextInv
  BY <1>1 DEF Init, HandInv, Hand, LockInv, ContextInv, Serving, Flushing, Locking
<1>4. \A s \in Session : OneSend(s)
  BY DEF Init, OneSend, SendsInPort, SendsInHand
<1>5. IdInv
  <2>1. AcceptsInPort = {} /\ Asking = {}
    BY DEF Init, AcceptsInPort, Asking, None
  <2>2. ToAsk = 0
    BY <2>1, FS_EmptySet DEF ToAsk
  <2>3. IdBound(id)
    BY <2>2 DEF Init, IdBound, Room, FirstId
  <2> QED
    BY <2>3 DEF Init, IdInv
<1>6. ASSUME NEW s \in Session PROVE EchoOne(s)
  <2>1. Receiving(s) = {}
    BY DEF Init, Receiving
  <2> QED
    BY <2>1, FS_EmptySet DEF Init, EchoOne
<1> QED
  BY <1>2, <1>3, <1>4, <1>5, <1>6 DEF Base, SendInv, EchoInv

LEMMA NextBase ==
  ASSUME Base, Next
  PROVE  Base'
<1>1. PortShapes' /\ SessionShapes' /\ HistoryShapes'
  BY ContextStep, SessionStep, HistoryStep
<1>2. ThreadShapes' /\ HandInv'
  <2>1. ASSUME UNCHANGED <<thread, id, old, returning>> PROVE ThreadShapes' /\ HandInv'
    BY <2>1 DEF Base, Shapes, thread, ThreadShapes, HandInv, Hand
  <2>2. ASSUME NEW s \in Session, AcceptClientSessions(s) PROVE UNCHANGED <<thread, id, old, returning>>
    BY <2>2 DEF AcceptClientSessions, player
  <2>3. ASSUME DoDatabaseJob PROVE UNCHANGED <<thread, id, old, returning>>
    BY <2>3 DEF DoDatabaseJob, player, pool
  <2> QED
    BY <2>1, <2>2, <2>3, ThreadStep, Kinds
<1>3. SendInv'
  <2>1. ASSUME UNCHANGED <<sending, thread>>,
               \A c \in mCompletionPort' \ mCompletionPort : c.io # "IO_SEND"
        PROVE  SendInv'
    <3>1. LockInv'
      BY <2>1 DEF Base, SendInv, LockInv, sending, thread
    <3>2. ASSUME NEW s \in Session PROVE OneSend(s)'
      <4>1. /\ SendsInPort(s)' \subseteq SendsInPort(s) /\ SendsInHand(s)' = SendsInHand(s)
            /\ mSendPendingCount' = mSendPendingCount /\ (Counting(s) => Counting(s)')
        BY <2>1 DEF SendsInPort, SendsInHand, Counting, sending, thread
      <4> QED
        BY <4>1, SendsKept DEF Base, SendInv
    <3> QED
      BY <3>1, <3>2 DEF SendInv
  <2>2. ASSUME NEW s \in Session, AcceptClientSessions(s) PROVE SendInv'
    <3>1. [NewContext("IO_ACCEPT", s, 0) EXCEPT !.issue = issued + 1].io = "IO_ACCEPT"
      BY <2>2, AcceptContext DEF Base, Shapes
    <3> QED
      BY <2>1, <2>2, <3>1 DEF AcceptClientSessions
  <2>3. CASE DoDatabaseJob
    <3>1. PICK c \in mDbCompletionPort, ok \in BOOLEAN :
            mCompletionPort' = mCompletionPort \cup {[c EXCEPT !.ok = ok]}
      BY <2>3 DEF DoDatabaseJob
    <3>2. c.io = "CK_DB_RESULT" /\ c \in Context
      BY DEF Base, Shapes, PortShapes
    <3>3. [c EXCEPT !.ok = ok].io = "CK_DB_RESULT"
      BY <3>2 DEF Context
    <3>4. UNCHANGED <<sending, thread>>
      BY <2>3 DEF DoDatabaseJob
    <3> QED
      BY <2>1, <3>1, <3>3, <3>4
  <2>4. ASSUME NEW t \in IoThread, Works(t) PROVE SendInv'
    BY <2>4, ThreadStep, LockStep, SendStep DEF SendInv
  <2> QED
    BY <2>2, <2>3, <2>4, Kinds
<1>4. ContextInv'
  BY HistoryStep, NumbersKept
<1>5. IdInv' /\ EchoInv'
  BY <1>1, IdStep, EchoStep
<1> QED
  BY <1>1, <1>2, <1>3, <1>4, <1>5 DEF Base, Shapes

-----------------------------------------------------------------------------
(***************************************************************************)
(* While no flush has strayed: who holds the references of a session.      *)
(***************************************************************************)
StageIo == {"IO_ACCEPT", "IO_DISCONNECT"}

InDb(s) == {c \in mDbCompletionPort : c.session = s}
InPort(s) == {c \in mCompletionPort : c.session = s}
StageInPort(s) == {c \in mCompletionPort : c.session = s /\ c.io \in StageIo}
InHand(s) == {t \in IoThread : pc[t] \in Holding /\ at[t] = s}
StageInHand(s) == {t \in IoThread : pc[t] = "handle" /\ at[t] = s /\ context[t].io \in StageIo}

\* The references that the ports and the connection of s need, less those it has.
PortNeed(s) ==
  Cardinality(InDb(s)) + Cardinality(InPort(s)) + Cardinality(StageInPort(s)) - mRefCount[s]
Need(s) == PortNeed(s) + mConnected[s]

\* Nothing that refers to a session is without a reference: a context in a port or in a hand
\* has one, and what will connect or disconnect the session, or has connected it, one more.
EnoughReferences ==
  \A s \in Session : Need(s) + Cardinality(InHand(s)) + Cardinality(StageInHand(s)) <= 0

PoolUnreferenced == \A s \in mFreeSessionList : mRefCount[s] = 0

\* A session is being returned by one thread, unreferenced and not in the pool yet.
ReturnInv ==
  /\ \A t \in IoThread :
       returning[t] # "no" => mRefCount[at[t]] = 0 /\ at[t] \notin mFreeSessionList
  /\ \A t, u \in IoThread : returning[t] # "no" /\ returning[u] # "no" /\ at[t] = at[u] => t = u

\* A context is for the connection its session has now.
OwnInv == \A c \in Live : c.issue = issue[c.session]

\* An accept that is completed, up to its request for the player.
Opens(t) == pc[t] \in {"handle", "load"} /\ context[t].io = "IO_ACCEPT"

\* Nobody asked for the player of s, and nothing is there that could answer.
Fresh(s) ==
  /\ asked[s] = NoPlayer /\ mPlayerId[s] = NoPlayer
  /\ \A c \in Live : c.session = s => c.io # "CK_DB_RESULT"

OpenIsFresh ==
  /\ \A c \in mCompletionPort : c.io = "IO_ACCEPT" => Fresh(c.session) /\ mConnected[c.session] = 0
  /\ \A t \in IoThread : Opens(t) => Fresh(at[t]) /\ (pc[t] = "handle" => mConnected[at[t]] = 0)

\* A session is accepted once: by a context in the port or in one thread's hand.
OpenedOnce ==
  /\ \A c, d \in mCompletionPort :
       c.io = "IO_ACCEPT" /\ d.io = "IO_ACCEPT" /\ c.session = d.session => c = d
  /\ \A c \in mCompletionPort : \A t \in IoThread :
       c.io = "IO_ACCEPT" /\ Opens(t) => c.session # at[t]
  /\ \A t, u \in IoThread : Opens(t) /\ Opens(u) /\ at[t] = at[u] => t = u

\* A request and its result carry the id that the connection asked for.
AnswerInv == \A c \in Live : c.io = "CK_DB_RESULT" => c.n = asked[c.session]

PlayerInv ==
  /\ \A s \in Session : mPlayerId[s] \in {NoPlayer, asked[s]}
  /\ \A s \in mFreeSessionList : mPlayerId[s] = NoPlayer

Good ==
  /\ crashed = FALSE
  /\ EnoughReferences /\ PoolUnreferenced /\ ReturnInv
  /\ OwnInv /\ OpenIsFresh /\ OpenedOnce /\ AnswerInv /\ PlayerInv

\* A stray flush takes a reference that nobody counts on; only the shapes survive it.
IInv == Base /\ (strayed \/ Good)

-----------------------------------------------------------------------------
(***************************************************************************)
(* Counting references.                                                    *)
(***************************************************************************)
In(t, S) == IF t \in S THEN 1 ELSE 0

\* What a thread stands for where it is.
Weight(t) ==
  (IF pc[t] \in Holding THEN 1 ELSE 0)
    + (IF pc[t] = "handle" /\ context[t].io \in StageIo THEN 1 ELSE 0)

\* Two sets that differ in one thread.
LEMMA CountChange ==
  ASSUME NEW S \in SUBSET IoThread, NEW T \in SUBSET IoThread, NEW t \in IoThread,
         S \ {t} = T \ {t}
  PROVE  /\ Cardinality(S) \in Nat
         /\ Cardinality(T) \in Nat
         /\ Cardinality(T) = Cardinality(S) + In(t, T) - In(t, S)
<1>1. Cardinality(S) \in Nat /\ Cardinality(T) \in Nat /\ IsFiniteSet(S) /\ IsFiniteSet(T)
  BY Receivers
<1>2. /\ Cardinality(S \ {t}) = Cardinality(S) - In(t, S)
      /\ Cardinality(T \ {t}) = Cardinality(T) - In(t, T)
  BY <1>1, RemoveOne DEF In
<1>3. In(t, S) \in Int /\ In(t, T) \in Int
  BY DEF In
<1> QED
  BY <1>1, <1>2, <1>3

\* A step of one thread changes the counts of hands by what it takes or leaves.
LEMMA HandCounts ==
  ASSUME NEW t \in IoThread, OnlyMoves(t), NEW s
  PROVE  /\ Cardinality(InHand(s)) \in Nat /\ Cardinality(InHand(s))' \in Nat
         /\ Cardinality(InHand(s))'
              = Cardinality(InHand(s)) + In(t, InHand(s))' - In(t, InHand(s))
         /\ Cardinality(StageInHand(s)) \in Nat /\ Cardinality(StageInHand(s))' \in Nat
         /\ Cardinality(StageInHand(s))'
              = Cardinality(StageInHand(s)) + In(t, StageInHand(s))' - In(t, StageInHand(s))
<1>1. InHand(s) \ {t} = InHand(s)' \ {t} /\ StageInHand(s) \ {t} = StageInHand(s)' \ {t}
  BY DEF OnlyMoves, InHand, StageInHand
<1> QED
  BY <1>1, CountChange DEF InHand, StageInHand

\* The ports hold finitely many contexts of a session.
LEMMA PortCounts ==
  ASSUME PortShapes, NEW s
  PROVE  /\ IsFiniteSet(InDb(s)) /\ Cardinality(InDb(s)) \in Nat
         /\ IsFiniteSet(InPort(s)) /\ Cardinality(InPort(s)) \in Nat
         /\ IsFiniteSet(StageInPort(s)) /\ Cardinality(StageInPort(s)) \in Nat
<1>1. IsFiniteSet(InDb(s)) /\ IsFiniteSet(InPort(s)) /\ IsFiniteSet(StageInPort(s))
  BY FS_Subset DEF PortShapes, InDb, InPort, StageInPort
<1> QED
  BY <1>1, FS_CardinalityType

NeedsAreInt ==
  \A s \in Session :
    /\ Cardinality(InDb(s)) \in Nat /\ Cardinality(InPort(s)) \in Nat
    /\ Cardinality(StageInPort(s)) \in Nat
    /\ PortNeed(s) \in Int /\ Need(s) \in Int

\* The needs are numbers.
LEMMA NeedType == PortShapes /\ SessionShapes => NeedsAreInt
  BY PortCounts DEF SessionShapes, PortNeed, Need, NeedsAreInt

\* What a thread's step must not do: need more than it brings.
LEMMA ThreadKeepsEnough ==
  ASSUME PortShapes, SessionShapes, PortShapes', SessionShapes', EnoughReferences,
         NEW t \in IoThread, OnlyMoves(t),
         \A s \in Session :
           Need(s)' + (IF at'[t] = s THEN Weight(t)' ELSE 0)
             <= Need(s) + (IF at[t] = s THEN Weight(t) ELSE 0)
  PROVE  EnoughReferences'
<1> SUFFICES ASSUME NEW s \in Session
             PROVE  Need(s)' + Cardinality(InHand(s))' + Cardinality(StageInHand(s))' <= 0
  BY DEF EnoughReferences
<1>1. /\ Cardinality(InHand(s)) \in Nat /\ Cardinality(InHand(s))' \in Nat
      /\ Cardinality(InHand(s))'
           = Cardinality(InHand(s)) + In(t, InHand(s))' - In(t, InHand(s))
      /\ Cardinality(StageInHand(s)) \in Nat /\ Cardinality(StageInHand(s))' \in Nat
      /\ Cardinality(StageInHand(s))'
           = Cardinality(StageInHand(s)) + In(t, StageInHand(s))' - In(t, StageInHand(s))
  BY HandCounts
<1>2. Need(s) \in Int
  BY NeedType DEF NeedsAreInt
<1>3. Need(s)' \in Int
  <2>1. NeedsAreInt'
    BY NeedType, PTL
  <2> QED
    BY <2>1 DEF NeedsAreInt
<1>4. /\ In(t, InHand(s)) \in Int /\ In(t, InHand(s))' \in Int
      /\ In(t, StageInHand(s)) \in Int /\ In(t, StageInHand(s))' \in Int
  BY DEF In
<1>5. Need(s) + Cardinality(InHand(s)) + Cardinality(StageInHand(s)) <= 0
  BY DEF EnoughReferences
<1>6. (IF at[t] = s THEN Weight(t) ELSE 0) = In(t, InHand(s)) + In(t, StageInHand(s))
  BY DEF Weight, In, InHand, StageInHand
<1>7. (IF at'[t] = s THEN Weight(t)' ELSE 0) = In(t, InHand(s))' + In(t, StageInHand(s))'
  BY DEF Weight, In, InHand, StageInHand
<1>8. Need(s)' + (In(t, InHand(s))' + In(t, StageInHand(s))')
        <= Need(s) + (In(t, InHand(s)) + In(t, StageInHand(s)))
  BY <1>6, <1>7
<1> HIDE DEF In
<1> QED
  BY <1>1, <1>2, <1>3, <1>4, <1>5, <1>8

\* What refers to a session has a reference.
LEMMA Unreferenced ==
  ASSUME Shapes, EnoughReferences, NEW s \in Session, mRefCount[s] <= 0
  PROVE  /\ mConnected[s] = 0 /\ mRefCount[s] = 0
         /\ InDb(s) = {} /\ InPort(s) = {} /\ InHand(s) = {}
<1>1. mRefCount[s] \in Int /\ mConnected[s] \in {0, 1}
  BY DEF Shapes, SessionShapes
<1>2. /\ IsFiniteSet(InHand(s)) /\ Cardinality(InHand(s)) \in Nat
      /\ IsFiniteSet(StageInHand(s)) /\ Cardinality(StageInHand(s)) \in Nat
  BY Receivers DEF InHand, StageInHand
<1>3. /\ IsFiniteSet(InDb(s)) /\ Cardinality(InDb(s)) \in Nat
      /\ IsFiniteSet(InPort(s)) /\ Cardinality(InPort(s)) \in Nat
      /\ IsFiniteSet(StageInPort(s)) /\ Cardinality(StageInPort(s)) \in Nat
  BY PortCounts DEF Shapes
<1>4. Need(s) + Cardinality(InHand(s)) + Cardinality(StageInHand(s)) <= 0
  BY DEF EnoughReferences
<1>5. /\ mConnected[s] = 0 /\ mRefCount[s] = 0 /\ Cardinality(InDb(s)) = 0
      /\ Cardinality(InPort(s)) = 0 /\ Cardinality(InHand(s)) = 0
  <2>1. Cardinality(InDb(s)) + Cardinality(InPort(s)) + Cardinality(StageInPort(s))
          - mRefCount[s] + mConnected[s] + Cardinality(InHand(s)) + Cardinality(StageInHand(s)) <= 0
    BY <1>4 DEF Need, PortNeed
  <2> DEFINE a == Cardinality(InDb(s))
             b == Cardinality(InPort(s))
             c == Cardinality(StageInPort(s))
             e == Cardinality(InHand(s))
             f == Cardinality(StageInHand(s))
             m == mConnected[s]
             r == mRefCount[s]
  <2>2. /\ a \in Nat /\ b \in Nat /\ c \in Nat /\ e \in Nat /\ f \in Nat /\ m \in Nat
        /\ r \in Int /\ r <= 0 /\ a + b + c - r + m + e + f <= 0
    BY <1>1, <1>2, <1>3, <2>1
  <2>3. m = 0 /\ r = 0 /\ a = 0 /\ b = 0 /\ e = 0
    <3> HIDE DEF a, b, c, e, f, m, r
    <3> QED
      BY <2>2
  <2> QED
    BY <2>3
<1> QED
  BY <1>2, <1>3, <1>5, FS_EmptySet

\* A session without references has nothing in a port, in a hand, or being returned twice.
LEMMA InUse ==
  ASSUME Base, EnoughReferences
  PROVE  /\ \A t \in IoThread : pc[t] \in Holding => mRefCount[at[t]] >= 1
         /\ \A c \in Live : c.session \in Session /\ mRefCount[c.session] >= 1
         /\ \A s \in Session : mConnected[s] = 1 => mRefCount[s] >= 1
<1>1. \A s \in Session : mRefCount[s] \in Int
  BY DEF Base, Shapes, SessionShapes
<1>2. ASSUME NEW t \in IoThread, pc[t] \in Holding PROVE mRefCount[at[t]] >= 1
  <2>1. at[t] \in Session /\ t \in InHand(at[t])
    BY <1>2 DEF Base, Shapes, ThreadShapes, InHand
  <2> QED
    BY <1>1, <2>1, Unreferenced DEF Base
<1>3. ASSUME NEW c \in Live PROVE c.session \in Session /\ mRefCount[c.session] >= 1
  <2>1. CASE c \in mDbCompletionPort \cup mCompletionPort
    <3>1. c.session \in Session
      BY <2>1 DEF Base, Shapes, PortShapes, Context
    <3>2. c \in InDb(c.session) \cup InPort(c.session)
      BY <2>1 DEF InDb, InPort
    <3> QED
      BY <1>1, <3>1, <3>2, Unreferenced DEF Base
  <2>2. CASE c \notin mDbCompletionPort \cup mCompletionPort
    <3>1. PICK t \in IoThread : c = context[t]
      BY <2>2 DEF Live, Contexts
    <3>2. pc[t] \in Serving /\ c.session = at[t] /\ at[t] \in Session
      BY <3>1 DEF Live, Base, Shapes, ThreadShapes, HandInv, Hand
    <3> QED
      BY <1>2, <3>2 DEF Holding
  <2> QED
    BY <2>1, <2>2
<1>4. ASSUME NEW s \in Session, mConnected[s] = 1 PROVE mRefCount[s] >= 1
  BY <1>1, <1>4, Unreferenced DEF Base
<1> QED
  BY <1>2, <1>3, <1>4

-----------------------------------------------------------------------------
(***************************************************************************)
(* No thread's step needs more references than it brings.                  *)
(***************************************************************************)
\* A context more in the port of the I/O threads.
LEMMA PortGrows ==
  ASSUME PortShapes, SessionShapes, NEW c, c.session \in Session,
         UNCHANGED mDbCompletionPort, mCompletionPort' = mCompletionPort \cup {c},
         NEW r \in Session, NEW i \in Int, mRefCount'[r] = mRefCount[r] + i
  PROVE  PortNeed(r)' <= PortNeed(r) - i
           + (IF c.session = r THEN IF c.io \in StageIo THEN 2 ELSE 1 ELSE 0)
<1>1. /\ InDb(r)' = InDb(r)
      /\ InPort(r)' = IF c.session = r THEN InPort(r) \cup {c} ELSE InPort(r)
      /\ StageInPort(r)' = IF c.session = r /\ c.io \in StageIo THEN StageInPort(r) \cup {c}
                                                              ELSE StageInPort(r)
  BY DEF InDb, InPort, StageInPort
<1>2. /\ IsFiniteSet(InDb(r)) /\ Cardinality(InDb(r)) \in Nat
      /\ IsFiniteSet(InPort(r)) /\ Cardinality(InPort(r)) \in Nat
      /\ IsFiniteSet(StageInPort(r)) /\ Cardinality(StageInPort(r)) \in Nat
      /\ mRefCount[r] \in Int
  BY PortCounts DEF SessionShapes
<1>3. /\ Cardinality(InPort(r)') \in Nat
      /\ Cardinality(InPort(r)') <= Cardinality(InPort(r)) + (IF c.session = r THEN 1 ELSE 0)
  <2>1. CASE c.session = r
    BY <1>1, <1>2, <2>1, AddOne
  <2>2. CASE c.session # r
    BY <1>1, <1>2, <2>2
  <2> QED
    BY <2>1, <2>2
<1>4. /\ Cardinality(StageInPort(r)') \in Nat
      /\ Cardinality(StageInPort(r)')
           <= Cardinality(StageInPort(r)) + (IF c.session = r /\ c.io \in StageIo THEN 1 ELSE 0)
  <2>1. CASE c.session = r /\ c.io \in StageIo
    BY <1>1, <1>2, <2>1, AddOne
  <2>2. CASE ~(c.session = r /\ c.io \in StageIo)
    BY <1>1, <1>2, <2>2
  <2> QED
    BY <2>1, <2>2
<1>5. /\ PortNeed(r) = Cardinality(InDb(r)) + Cardinality(InPort(r)) + Cardinality(StageInPort(r))
                         - mRefCount[r]
      /\ PortNeed(r)' = Cardinality(InDb(r)) + Cardinality(InPort(r)')
                          + Cardinality(StageInPort(r)') - (mRefCount[r] + i)
  BY <1>1 DEF PortNeed
<1> QED
  BY <1>2, <1>3, <1>4, <1>5

\* The same ports and other counts.
LEMMA PortStays ==
  ASSUME PortShapes, SessionShapes, UNCHANGED <<mDbCompletionPort, mCompletionPort>>,
         NEW r \in Session, NEW i \in Int, mRefCount'[r] = mRefCount[r] + i
  PROVE  PortNeed(r)' = PortNeed(r) - i
<1>1. InDb(r)' = InDb(r) /\ InPort(r)' = InPort(r) /\ StageInPort(r)' = StageInPort(r)
  BY DEF InDb, InPort, StageInPort
<1>2. /\ Cardinality(InDb(r)) \in Nat /\ Cardinality(InPort(r)) \in Nat
      /\ Cardinality(StageInPort(r)) \in Nat /\ mRefCount[r] \in Int
  BY PortCounts DEF SessionShapes
<1> QED
  BY <1>1, <1>2 DEF PortNeed

\* A posted context brings its reference; one that disconnects stands for two.
LEMMA BringsItsOwn ==
  ASSUME PortShapes, SessionShapes, HistoryShapes, UNCHANGED mDbCompletionPort,
         NEW s \in Session, NEW io \in Posted, Brings(s, io), NEW r \in Session
  PROVE  PortNeed(r)' <= PortNeed(r) + (IF r = s /\ io = "IO_DISCONNECT" THEN 1 ELSE 0)
<1> DEFINE c == NewContext(io, s, 0)
<1>1. io \in IOType /\ 0 \in Number
  BY BoundAssumption DEF Posted, IOType, Number
<1>2. c.io = io /\ c.session = s
  BY <1>1, NewShape
<1>3. mCompletionPort' = mCompletionPort \cup {c}
  BY DEF Brings
<1> HIDE DEF c
<1>4. mRefCount[r] \in Int /\ mRefCount'[r] = mRefCount[r] + (IF r = s THEN 1 ELSE 0)
  BY DEF Brings, SessionShapes
<1>5. PortNeed(r) \in Int
  BY NeedType DEF NeedsAreInt
<1>6. CASE r = s
  <2>1. PortNeed(r)' <= PortNeed(r) - 1 + (IF c.io \in StageIo THEN 2 ELSE 1)
    BY <1>2, <1>3, <1>4, <1>6, PortGrows
  <2> QED
    BY <1>2, <1>5, <1>6, <2>1 DEF StageIo, Posted
<1>7. CASE r # s
  <2>1. PortNeed(r)' <= PortNeed(r) - 0 + 0
    BY <1>2, <1>3, <1>4, <1>7, PortGrows
  <2> QED
    BY <1>5, <1>7, <2>1
<1> QED
  BY <1>6, <1>7

\* What t's step does to the ports' needs of r, of which at[t]'s alone may grow.
LEMMA NeedsOf ==
  ASSUME Base, NEW t \in IoThread, NEW d \in Int, NEW i \in Int,
         PortNeed(at[t])' <= PortNeed(at[t]) + d,
         \A r \in Session \ {at[t]} : PortNeed(r)' <= PortNeed(r),
         mConnected' \in [Session -> {0, 1}],
         \A r \in Session \ {at[t]} : mConnected'[r] = mConnected[r],
         mConnected'[at[t]] <= mConnected[at[t]] + i,
         d + i + Weight(t)' <= Weight(t), NeedsAreInt', at' = at
  PROVE  \A s \in Session :
           Need(s)' + (IF at'[t] = s THEN Weight(t)' ELSE 0)
             <= Need(s) + (IF at[t] = s THEN Weight(t) ELSE 0)
<1> SUFFICES ASSUME NEW s \in Session
             PROVE  Need(s)' + (IF at'[t] = s THEN Weight(t)' ELSE 0)
                      <= Need(s) + (IF at[t] = s THEN Weight(t) ELSE 0)
  OBVIOUS
<1>1. /\ PortNeed(s) \in Int /\ PortNeed(s)' \in Int
      /\ mConnected[s] \in Int /\ mConnected'[s] \in Int
  <2>1. NeedsAreInt /\ mConnected \in [Session -> {0, 1}]
    BY NeedType DEF Base, Shapes, SessionShapes
  <2> QED
    BY <2>1 DEF NeedsAreInt
<1>2. Weight(t) \in Int /\ Weight(t)' \in Int
  BY DEF Weight
<1>3. Need(s) = PortNeed(s) + mConnected[s] /\ Need(s)' = PortNeed(s)' + mConnected'[s]
  BY DEF Need
<1>4. CASE s = at[t]
  <2>1. PortNeed(s)' + mConnected'[s] + Weight(t)' <= PortNeed(s) + mConnected[s] + Weight(t)
    BY <1>1, <1>2, <1>4
  <2> QED
    BY <1>3, <1>4, <2>1
<1>5. CASE s # at[t]
  <2>1. PortNeed(s)' + mConnected'[s] <= PortNeed(s) + mConnected[s]
    BY <1>1, <1>5
  <2>2. Need(s)' + 0 <= Need(s) + 0
    BY <1>1, <1>3, <2>1
  <2> QED
    BY <1>5, <2>2
<1> QED
  BY <1>4, <1>5

\* A thread that keeps its session and does not count more than it brings.
LEMMA Balanced ==
  ASSUME Base, PortShapes', SessionShapes', EnoughReferences, NEW t \in IoThread, Works(t),
         OnlyMoves(t), at' = at, NEW d \in Int, NEW i \in Int,
         PortNeed(at[t])' <= PortNeed(at[t]) + d,
         \A r \in Session \ {at[t]} : PortNeed(r)' <= PortNeed(r),
         mConnected'[at[t]] <= mConnected[at[t]] + i,
         d + i + Weight(t)' <= Weight(t)
  PROVE  EnoughReferences'
<1>1. PortShapes /\ SessionShapes /\ ThreadShapes
  BY DEF Base, Shapes
<1>2. NeedsAreInt'
  BY NeedType, PTL
<1>3. /\ mConnected' \in [Session -> {0, 1}]
      /\ \A r \in Session \ {at[t]} : mConnected'[r] = mConnected[r]
  BY <1>1, ConnectionStep
<1>4. \A s \in Session :
        Need(s)' + (IF at'[t] = s THEN Weight(t)' ELSE 0)
          <= Need(s) + (IF at[t] = s THEN Weight(t) ELSE 0)
  BY <1>2, <1>3, NeedsOf
<1> QED
  BY <1>1, <1>4, ThreadKeepsEnough

\* The same, for a step that leaves the ports alone: k references of at[t] are made.
LEMMA PortsKept ==
  ASSUME Base, PortShapes', SessionShapes', EnoughReferences, NEW t \in IoThread, Works(t),
         OnlyMoves(t), at' = at, UNCHANGED ports, NEW k \in Int, NEW i \in Int,
         mRefCount'[at[t]] = mRefCount[at[t]] + k,
         mConnected'[at[t]] <= mConnected[at[t]] + i,
         i + Weight(t)' <= Weight(t) + k
  PROVE  EnoughReferences'
<1>1. /\ PortShapes /\ SessionShapes /\ ThreadShapes /\ at[t] \in Session
      /\ UNCHANGED <<mDbCompletionPort, mCompletionPort>>
  BY DEF Base, Shapes, ThreadShapes, ports
<1>2. PortNeed(at[t])' = PortNeed(at[t]) - k /\ PortNeed(at[t]) \in Int
  BY <1>1, PortStays, NeedType DEF NeedsAreInt
<1>3. ASSUME NEW r \in Session \ {at[t]} PROVE PortNeed(r)' <= PortNeed(r)
  <2>1. mRefCount'[r] = mRefCount[r] + 0
    BY <1>1, ConnectionStep DEF SessionShapes
  <2>2. PortNeed(r)' = PortNeed(r) - 0 /\ PortNeed(r) \in Int
    BY <1>1, <2>1, PortStays, NeedType DEF NeedsAreInt
  <2> QED
    BY <2>2
<1>4. Weight(t) \in Int /\ Weight(t)' \in Int
  BY DEF Weight
<1>5. -k \in Int /\ PortNeed(at[t])' <= PortNeed(at[t]) + (-k) /\ (-k) + i + Weight(t)' <= Weight(t)
  BY <1>2, <1>4
<1> QED
  BY <1>1, <1>3, <1>5, Balanced

\* The same, for a step that posts one context.
LEMMA OnePosted ==
  ASSUME Base, PortShapes', SessionShapes', EnoughReferences, NEW t \in IoThread, Works(t),
         OnlyMoves(t), at' = at, UNCHANGED mDbCompletionPort,
         NEW io \in Posted, Brings(at[t], io), NEW i \in Int,
         mConnected'[at[t]] <= mConnected[at[t]] + i,
         (IF io = "IO_DISCONNECT" THEN 1 ELSE 0) + i + Weight(t)' <= Weight(t)
  PROVE  EnoughReferences'
<1>1. /\ PortShapes /\ SessionShapes /\ ThreadShapes /\ HistoryShapes /\ at[t] \in Session
  BY DEF Base, Shapes, ThreadShapes
<1>2. \A r \in Session :
        PortNeed(r)' <= PortNeed(r) + (IF r = at[t] /\ io = "IO_DISCONNECT" THEN 1 ELSE 0)
  BY <1>1, BringsItsOwn
<1>3. ASSUME NEW r \in Session \ {at[t]} PROVE PortNeed(r)' <= PortNeed(r)
  <2>1. PortNeed(r)' <= PortNeed(r) + 0 /\ PortNeed(r) \in Int
    BY <1>1, <1>2, NeedType DEF NeedsAreInt
  <2> QED
    BY <2>1
<1>4. PortNeed(at[t])' <= PortNeed(at[t]) + (IF io = "IO_DISCONNECT" THEN 1 ELSE 0)
  BY <1>1, <1>2
<1>5. (IF io = "IO_DISCONNECT" THEN 1 ELSE 0) \in Int
  OBVIOUS
<1> QED
  BY <1>1, <1>3, <1>4, <1>5, Balanced

LEMMA DisconnectKeeps ==
  ASSUME Base, PortShapes', SessionShapes', EnoughReferences, NEW t \in IoThread, Works(t),
         OnlyMoves(t), at' = at, DisconnectRequest(at[t]), Weight(t)' <= Weight(t)
  PROVE  EnoughReferences'
<1>1. SessionShapes /\ at[t] \in Session
  BY DEF Base, Shapes, ThreadShapes
<1>2. /\ mConnected'[at[t]] = 0 /\ mConnected[at[t]] \in {0, 1} /\ mRefCount[at[t]] \in Int
      /\ UNCHANGED mDbCompletionPort
      /\ \/ UNCHANGED <<mCompletionPort, mRefCount>>
         \/ mConnected[at[t]] = 1 /\ Brings(at[t], "IO_DISCONNECT")
  BY <1>1, Disconnecting DEF SessionShapes
<1>3. Weight(t) \in Int /\ Weight(t)' \in Int
  BY DEF Weight
<1>4. CASE UNCHANGED <<mCompletionPort, mRefCount>>
  <2>1. /\ UNCHANGED ports /\ mRefCount'[at[t]] = mRefCount[at[t]] + 0
        /\ mConnected'[at[t]] <= mConnected[at[t]] + 0 /\ 0 + Weight(t)' <= Weight(t) + 0
    BY <1>2, <1>3, <1>4 DEF ports
  <2> QED
    BY <2>1, PortsKept
<1>5. CASE mConnected[at[t]] = 1 /\ Brings(at[t], "IO_DISCONNECT")
  <2>1. /\ mConnected'[at[t]] <= mConnected[at[t]] + (-1)
        /\ (IF "IO_DISCONNECT" = "IO_DISCONNECT" THEN 1 ELSE 0) + (-1) + Weight(t)' <= Weight(t)
        /\ "IO_DISCONNECT" \in Posted /\ -1 \in Int
    BY <1>2, <1>3, <1>5 DEF Posted
  <2> QED
    BY <1>2, <1>5, <2>1, OnePosted
<1> QED
  BY <1>2, <1>4, <1>5

\* A thread takes a context from the port, with its references.
LEMMA TakesKeeps ==
  ASSUME Base, PortShapes', SessionShapes', EnoughReferences, NEW t \in IoThread, Takes(t),
         OnlyMoves(t)
  PROVE  EnoughReferences'
<1>1. /\ PortShapes /\ SessionShapes /\ HandInv /\ pc[t] = "idle" /\ Weight(t) = 0
      /\ UNCHANGED <<mDbCompletionPort, mConnected, mRefCount>>
  BY DEF Base, Shapes, Takes, GetQueuedCompletionStatus, Goto, Weight, Holding, Serving, connection
<1>2. PICK c \in mCompletionPort :
        /\ mCompletionPort' = mCompletionPort \ {c} /\ at' = [at EXCEPT ![t] = c.session]
        /\ \E d \in Completed(c) :
             /\ context' = [context EXCEPT ![t] = d]
             /\ pc' = [pc EXCEPT ![t] = IF Broken(d) THEN "disconnect" ELSE "handle"]
  BY DEF Takes, GetQueuedCompletionStatus, Goto
<1>3. PICK d \in Completed(c) :
        /\ context' = [context EXCEPT ![t] = d]
        /\ pc' = [pc EXCEPT ![t] = IF Broken(d) THEN "disconnect" ELSE "handle"]
  BY <1>2
<1>4. at'[t] = c.session /\ context'[t] = d /\ pc'[t] \in {"handle", "disconnect"}
  BY <1>2, <1>3 DEF Base, Shapes, ThreadShapes
<1>5. d.io = c.io /\ c \in Context
  <2>1. c \in Live /\ c \in Context
    <3>1. c \in Context /\ c.io \in IOType
      BY DEF Base, Shapes, PortShapes, Context
    <3>2. c # None
      BY <3>1 DEF Context, None
    <3> QED
      BY <3>1, <3>2 DEF Live, Contexts
  <2>2. c.io # "CK_DB_RESULT" => c.n \in 0 .. MaxEcho
    BY <2>1 DEF Base, ContextInv, Numbered
  <2> QED
    BY <2>1, <2>2, CompletedKeeps, BoundAssumption DEF Base, Shapes, HistoryShapes
<1>6. Weight(t)' \in Nat /\ Weight(t)' <= 1 + (IF c.io \in StageIo THEN 1 ELSE 0)
  BY <1>4, <1>5 DEF Weight, Holding, Serving
<1>7. ASSUME NEW s \in Session
      PROVE  Need(s)' + (IF at'[t] = s THEN Weight(t)' ELSE 0)
               <= Need(s) + (IF at[t] = s THEN Weight(t) ELSE 0)
  <2>1. /\ InDb(s)' = InDb(s)
        /\ InPort(s)' = InPort(s) \ {c} /\ StageInPort(s)' = StageInPort(s) \ {c}
        /\ c \in InPort(s) <=> c.session = s
        /\ c \in StageInPort(s) <=> c.session = s /\ c.io \in StageIo
    BY <1>1, <1>2 DEF InDb, InPort, StageInPort
  <2>2. /\ IsFiniteSet(InDb(s)) /\ Cardinality(InDb(s)) \in Nat
        /\ IsFiniteSet(InPort(s)) /\ Cardinality(InPort(s)) \in Nat
        /\ IsFiniteSet(StageInPort(s)) /\ Cardinality(StageInPort(s)) \in Nat
        /\ mRefCount[s] \in Int /\ mConnected[s] \in Int
    BY <1>1, PortCounts DEF SessionShapes
  <2>3. /\ Cardinality(InPort(s)') = Cardinality(InPort(s)) - (IF c.session = s THEN 1 ELSE 0)
        /\ Cardinality(StageInPort(s)')
             = Cardinality(StageInPort(s)) - (IF c.session = s /\ c.io \in StageIo THEN 1 ELSE 0)
    BY <2>1, <2>2, RemoveOne
  <2>4. /\ Need(s) = Cardinality(InDb(s)) + Cardinality(InPort(s)) + Cardinality(StageInPort(s))
                       - mRefCount[s] + mConnected[s]
        /\ Need(s)' = Cardinality(InDb(s)) + Cardinality(InPort(s)') + Cardinality(StageInPort(s)')
                       - mRefCount[s] + mConnected[s]
    BY <1>1, <2>1 DEF Need, PortNeed
  <2>5. CASE c.session = s
    <3>1. Need(s)' + Weight(t)' <= Need(s) + 0
      BY <1>6, <2>2, <2>3, <2>4, <2>5
    <3> QED
      BY <1>1, <1>4, <2>5, <3>1
  <2>6. CASE c.session # s
    <3>1. Need(s)' + 0 <= Need(s) + 0
      BY <2>2, <2>3, <2>4, <2>6
    <3> QED
      BY <1>1, <1>4, <2>6, <3>1
  <2> QED
    BY <2>5, <2>6
<1> QED
  BY <1>1, <1>7, ThreadKeepsEnough

\* The request for the player brings its reference to the other port.
LEMMA LoadKeeps ==
  ASSUME Base, PortShapes', SessionShapes', EnoughReferences, NEW t \in IoThread, RequestLoad(t),
         OnlyMoves(t)
  PROVE  EnoughReferences'
<1> DEFINE s == at[t]
           c == NewContext("CK_DB_RESULT", s, id)
<1>1. /\ PortShapes /\ SessionShapes /\ ThreadShapes /\ HistoryShapes /\ s \in Session
      /\ pc[t] = "load" /\ pc'[t] = "read"
      /\ UNCHANGED <<mCompletionPort, mConnected, at, context>>
      /\ mDbCompletionPort' = mDbCompletionPort \cup {c}
      /\ mRefCount' = [mRefCount EXCEPT ![s] = @ + Cardinality({c})]
  BY DEF Base, Shapes, ThreadShapes, RequestLoad, Goto, AddRef
<1>2. c.session = s
  BY <1>1, NewShape, IdInRange DEF Base, IdInv, IOType, Number
<1> HIDE DEF c
<1>3. Cardinality({c}) = 1
  BY FS_Singleton
<1>4. at'[t] = at[t] /\ Weight(t) = 1 /\ Weight(t)' = 1
  BY <1>1 DEF Weight, Holding, Serving
<1>5. ASSUME NEW r \in Session
      PROVE  Need(r)' + (IF at'[t] = r THEN Weight(t)' ELSE 0)
               <= Need(r) + (IF at[t] = r THEN Weight(t) ELSE 0)
  <2>1. /\ InDb(r)' = IF r = s THEN InDb(r) \cup {c} ELSE InDb(r)
        /\ InPort(r)' = InPort(r) /\ StageInPort(r)' = StageInPort(r)
    BY <1>1, <1>2 DEF InDb, InPort, StageInPort
  <2>2. /\ IsFiniteSet(InDb(r)) /\ Cardinality(InDb(r)) \in Nat
        /\ Cardinality(InPort(r)) \in Nat /\ Cardinality(StageInPort(r)) \in Nat
        /\ mRefCount[r] \in Int /\ mConnected[r] \in Int
    BY <1>1, PortCounts DEF SessionShapes
  <2>3. /\ Cardinality(InDb(r)') \in Nat
        /\ Cardinality(InDb(r)') <= Cardinality(InDb(r)) + (IF r = s THEN 1 ELSE 0)
    <3>1. CASE r = s
      BY <2>1, <2>2, <3>1, AddOne
    <3>2. CASE r # s
      BY <2>1, <2>2, <3>2
    <3> QED
      BY <3>1, <3>2
  <2>4. mRefCount'[r] = mRefCount[r] + (IF r = s THEN 1 ELSE 0)
    BY <1>1, <1>3, <2>2 DEF SessionShapes
  <2>5. /\ Need(r) = Cardinality(InDb(r)) + Cardinality(InPort(r)) + Cardinality(StageInPort(r))
                       - mRefCount[r] + mConnected[r]
        /\ Need(r)' = Cardinality(InDb(r)') + Cardinality(InPort(r)) + Cardinality(StageInPort(r))
                       - mRefCount'[r] + mConnected[r]
    BY <1>1, <2>1 DEF Need, PortNeed
  <2>6. Need(r)' <= Need(r) /\ Need(r) \in Int /\ Need(r)' \in Int
    BY <2>2, <2>3, <2>4, <2>5
  <2> QED
    BY <1>4, <2>6
<1> QED
  BY <1>1, <1>5, ThreadKeepsEnough

\* What a thread that completes the accept needs, it had.
LEMMA AcceptedKeeps ==
  ASSUME Base, PortShapes', SessionShapes', EnoughReferences, NEW t \in IoThread, Works(t),
         OnlyMoves(t), AcceptCompletion(t)
  PROVE  EnoughReferences'
<1>1. /\ SessionShapes /\ at[t] \in Session /\ mConnected[at[t]] \in {0, 1}
      /\ mRefCount[at[t]] \in Int /\ at' = at
  BY DEF Base, Shapes, ThreadShapes, SessionShapes, AcceptCompletion
<1>2. mConnected'[at[t]] <= mConnected[at[t]] + 1 /\ UNCHANGED mDbCompletionPort
  BY <1>1 DEF AcceptCompletion, SessionShapes
<1>3. Weight(t) = 2 /\ Weight(t)' = 1
  <2>1. pc[t] = "handle" /\ context[t].io = "IO_ACCEPT" /\ pc'[t] \in {"disconnect", "load"}
    BY DEF AcceptCompletion, Handle, Goto, Base, Shapes, ThreadShapes
  <2> QED
    BY <2>1 DEF Weight, Holding, Serving, StageIo
<1>4. CASE UNCHANGED <<mCompletionPort, mRefCount>>
  <2>1. UNCHANGED ports /\ mRefCount'[at[t]] = mRefCount[at[t]] + 0 /\ 1 + Weight(t)' <= Weight(t) + 0
    BY <1>1, <1>2, <1>3, <1>4 DEF ports
  <2> QED
    BY <1>1, <1>2, <2>1, PortsKept
<1>5. CASE Brings(at[t], "IO_RECV_ZERO")
  <2>1. /\ "IO_RECV_ZERO" \in Posted
        /\ (IF "IO_RECV_ZERO" = "IO_DISCONNECT" THEN 1 ELSE 0) + 1 + Weight(t)' <= Weight(t)
    BY <1>3 DEF Posted
  <2> QED
    BY <1>1, <1>2, <1>5, <2>1, OnePosted
<1>6. \/ UNCHANGED <<mCompletionPort, mRefCount>>
      \/ Post(at[t], {}) \/ Post(at[t], {"IO_RECV_ZERO"})
  BY DEF AcceptCompletion
<1> QED
  BY <1>1, <1>4, <1>5, <1>6, PostOne, PostNone

\* A receive is posted, or none.
LEMMA ReceiveKeeps ==
  ASSUME Base, PortShapes', SessionShapes', EnoughReferences, NEW t \in IoThread, Works(t),
         OnlyMoves(t), PostRecv(t) \/ PreRecv(t)
  PROVE  EnoughReferences'
<1>1. /\ at[t] \in Session /\ mConnected[at[t]] \in {0, 1} /\ mRefCount[at[t]] \in Int
  BY DEF Base, Shapes, ThreadShapes, SessionShapes
<1>2. PICK io \in {"IO_RECV_ZERO", "IO_RECV"} :
        /\ at' = at /\ UNCHANGED <<mDbCompletionPort, mConnected>>
        /\ pc[t] \in {"handle", "preRecv"} /\ pc'[t] \in {"delete", "disconnect"}
        /\ UNCHANGED <<mCompletionPort, mRefCount>> \/ Post(at[t], {io})
  <2>1. CASE PostRecv(t)
    BY <2>1 DEF PostRecv, PostReceive, Goto, Base, Shapes, ThreadShapes
  <2>2. CASE PreRecv(t)
    BY <2>2 DEF PreRecv, PostReceive, Goto, Base, Shapes, ThreadShapes
  <2> QED
    BY <2>1, <2>2
<1>3. Weight(t) \in Int /\ Weight(t)' = 1 /\ 1 <= Weight(t) /\ mConnected'[at[t]] <= mConnected[at[t]] + 0
  BY <1>1, <1>2 DEF Weight, Holding, Serving
<1>4. CASE UNCHANGED <<mCompletionPort, mRefCount>>
  <2>1. UNCHANGED ports /\ mRefCount'[at[t]] = mRefCount[at[t]] + 0 /\ 0 + Weight(t)' <= Weight(t) + 0
    BY <1>1, <1>2, <1>3, <1>4 DEF ports
  <2> QED
    BY <1>2, <1>3, <2>1, PortsKept
<1>5. CASE Post(at[t], {io})
  <2>1. Brings(at[t], io)
    BY <1>5, PostOne
  <2>2. io \in Posted /\ (IF io = "IO_DISCONNECT" THEN 1 ELSE 0) + 0 + Weight(t)' <= Weight(t)
    BY <1>3 DEF Posted
  <2> QED
    BY <1>2, <1>3, <2>1, <2>2, OnePosted
<1> QED
  BY <1>2, <1>4, <1>5

\* The send that is posted takes the reference that FlushSend made for it.
LEMMA SentKeeps ==
  ASSUME Base, PortShapes', SessionShapes', EnoughReferences, NEW t \in IoThread, Works(t),
         OnlyMoves(t), WSASend(t)
  PROVE  EnoughReferences'
<1> DEFINE s == at[t]
           c == NewContext("IO_SEND", s, stored[s])
<1>1. /\ PortShapes /\ SessionShapes /\ ThreadShapes /\ HistoryShapes /\ s \in Session
      /\ mConnected[s] \in {0, 1} /\ at' = at
      /\ UNCHANGED <<mDbCompletionPort, mConnected, mRefCount>>
      /\ \A r \in Session : mRefCount[r] \in Int
      /\ pc[t] = "wsaSend" /\ Weight(t) = 1 /\ mConnected'[s] <= mConnected[s] + 0
  BY DEF Base, Shapes, ThreadShapes, SessionShapes, WSASend, Goto, connection, Weight, Holding,
         Serving
<1>2. CASE UNCHANGED mCompletionPort
  <2>1. Weight(t)' \in {0, 1}
    BY <1>1 DEF WSASend, Goto, Weight, ThreadShapes
  <2>2. UNCHANGED ports /\ mRefCount'[s] = mRefCount[s] + 0 /\ 0 + Weight(t)' <= Weight(t) + 0
    BY <1>1, <1>2, <2>1 DEF ports
  <2> QED
    BY <1>1, <2>2, PortsKept
<1>3. CASE pc'[t] = "count" /\ mCompletionPort' = mCompletionPort \cup {c}
  <2>1. Weight(t)' = 0
    BY <1>3 DEF Weight, Holding, Serving
  <2>2. c.io = "IO_SEND" /\ c.session = s
    BY DEF NewContext
  <2> HIDE DEF c
  <2>3. \A r \in Session :
          PortNeed(r)' <= PortNeed(r) - 0
            + (IF c.session = r THEN IF c.io \in StageIo THEN 2 ELSE 1 ELSE 0)
    <3> SUFFICES ASSUME NEW r \in Session
                 PROVE  PortNeed(r)' <= PortNeed(r) - 0
                          + (IF c.session = r THEN IF c.io \in StageIo THEN 2 ELSE 1 ELSE 0)
      OBVIOUS
    <3>1. mRefCount'[r] = mRefCount[r] + 0
      BY <1>1
    <3> QED
      BY <1>1, <1>3, <2>2, <3>1, PortGrows
  <2>4. \A r \in Session : PortNeed(r) \in Int
    BY <1>1, NeedType DEF NeedsAreInt
  <2>5. /\ PortNeed(s)' <= PortNeed(s) + 1
        /\ \A r \in Session \ {s} : PortNeed(r)' <= PortNeed(r)
    <3>1. c.io \notin StageIo
      BY <2>2 DEF StageIo
    <3>2. PortNeed(s)' <= PortNeed(s) - 0 + 1 /\ PortNeed(s) \in Int
      BY <1>1, <2>2, <2>3, <2>4, <3>1
    <3>3. ASSUME NEW r \in Session \ {s} PROVE PortNeed(r)' <= PortNeed(r)
      <4>1. PortNeed(r)' <= PortNeed(r) - 0 + 0 /\ PortNeed(r) \in Int
        BY <2>2, <2>3, <2>4
      <4> QED
        BY <4>1
    <3> QED
      BY <3>2, <3>3
  <2>6. 1 + 0 + Weight(t)' <= Weight(t)
    BY <1>1, <2>1
  <2> QED
    BY <1>1, <2>5, <2>6, Balanced
<1>4. \/ UNCHANGED mCompletionPort
      \/ pc'[t] = "count" /\ mCompletionPort' = mCompletionPort \cup {c}
  BY <1>1 DEF WSASend, Goto, ThreadShapes
<1> QED
  BY <1>2, <1>3, <1>4

\* The steps that leave the ports and the sessions' connections alone.
LEMMA CountedKeeps ==
  ASSUME Base, PortShapes', SessionShapes', EnoughReferences, NEW t \in IoThread, Works(t),
         OnlyMoves(t), UNCHANGED <<ports, mConnected, at>>,
         NEW k \in Int, mRefCount'[at[t]] = mRefCount[at[t]] + k, Weight(t)' <= Weight(t) + k
  PROVE  EnoughReferences'
<1>1. mConnected[at[t]] \in {0, 1}
  BY DEF Base, Shapes, ThreadShapes, SessionShapes
<1>2. Weight(t)' \in Int
  BY DEF Weight
<1>3. mConnected'[at[t]] <= mConnected[at[t]] + 0 /\ 0 + Weight(t)' <= Weight(t) + k
  BY <1>1, <1>2
<1> QED
  BY <1>3, PortsKept

\* FlushSend looks at another session, with nothing in the hand.
LEMMA LooksKeeps ==
  ASSUME Base, PortShapes', SessionShapes', EnoughReferences, NEW t \in IoThread, FlushSend(t),
         OnlyMoves(t)
  PROVE  EnoughReferences'
<1>1. PortShapes /\ SessionShapes /\ UNCHANGED <<mDbCompletionPort, mCompletionPort, mRefCount, mConnected>>
  BY DEF Base, Shapes, FlushSend, connection, ports
<1>2. Weight(t) = 0 /\ Weight(t)' = 0
  <2>1. pc[t] = "idle" /\ pc'[t] \in {"flush", "drop"}
    BY DEF FlushSend, Goto, Base, Shapes, ThreadShapes
  <2> QED
    BY <2>1 DEF Weight, Holding, Serving
<1>3. ASSUME NEW s \in Session
      PROVE  Need(s)' + (IF at'[t] = s THEN Weight(t)' ELSE 0)
               <= Need(s) + (IF at[t] = s THEN Weight(t) ELSE 0)
  <2>1. Need(s)' = Need(s) /\ Need(s) \in Int
    BY <1>1, NeedType DEF Need, PortNeed, InDb, InPort, StageInPort, NeedsAreInt
  <2> QED
    BY <1>2, <2>1
<1> QED
  BY <1>1, <1>3, ThreadKeepsEnough

\* The references that the other steps make of at[t], and what t has in its hand.
LEMMA Counted ==
  ASSUME Base, ReturnInv, NEW t \in IoThread,
         \/ Returns(t)
         \/ ReadId(t) \/ WriteId(t) \/ RecvCompletion(t) \/ EchoBack(t) \/ SendCompletion(t)
         \/ DisconnectCompletion(t) \/ OnResult(t) \/ DeleteIoContext(t)
         \/ FlushStored(t) \/ CountSend(t) \/ DeleteSendContext(t)
  PROVE  /\ UNCHANGED <<ports, at>>
         /\ SessionReset(t) \/ UNCHANGED mConnected
         /\ \E k \in Int : mRefCount'[at[t]] = mRefCount[at[t]] + k /\ Weight(t)' <= Weight(t) + k
<1>1. /\ at[t] \in Session /\ mRefCount \in [Session -> Int] /\ mRefCount[at[t]] \in Int
      /\ pc \in [IoThread -> Location]
  BY DEF Base, Shapes, ThreadShapes, SessionShapes
<1>2. Weight(t) \in Int /\ Weight(t)' \in Int
  BY DEF Weight
<1>3. CASE Returns(t)
  <2>1. UNCHANGED <<ports, pc, at, context>> /\ (SessionReset(t) \/ UNCHANGED mConnected)
    BY <1>3 DEF Returns, ReturnClientSession, SessionReset, SendBufferReset, thread, connection
  <2>2. mRefCount'[at[t]] = mRefCount[at[t]] + 0
    <3>1. CASE SessionReset(t)
      <4>1. mRefCount[at[t]] = 0
        BY <3>1 DEF SessionReset, ReturnInv
      <4> QED
        BY <1>1, <3>1, <4>1 DEF SessionReset
    <3>2. CASE ~SessionReset(t)
      BY <1>1, <1>3, <3>2 DEF Returns, ReturnClientSession, SendBufferReset, connection
    <3> QED
      BY <3>1, <3>2
  <2>3. Weight(t)' <= Weight(t) + 0
    BY <1>2, <2>1 DEF Weight
  <2> QED
    BY <2>1, <2>2, <2>3
<1>4. CASE \/ ReadId(t) \/ WriteId(t) \/ RecvCompletion(t) \/ EchoBack(t) \/ SendCompletion(t)
           \/ OnResult(t) \/ CountSend(t)
  <2>1. /\ UNCHANGED <<ports, at, mConnected, mRefCount>>
        /\ pc[t] \in Serving \cup {"count"} /\ pc'[t] \in Serving \cup {"idle"}
        /\ pc[t] = "count" => pc'[t] = "idle"
        /\ pc'[t] # "handle"
    <3>1. CASE ReadId(t) \/ WriteId(t) \/ EchoBack(t) \/ CountSend(t)
      BY <1>1, <3>1 DEF ReadId, WriteId, EchoBack, CountSend, Flushed, Goto, Serving, connection
    <3>2. CASE RecvCompletion(t) \/ SendCompletion(t) \/ OnResult(t)
      BY <1>1, <3>2 DEF RecvCompletion, SendCompletion, FinishSend, OnResult, Handle, Goto, Serving,
                        connection
    <3> QED
      BY <1>4, <3>1, <3>2
  <2>2. Weight(t)' <= Weight(t) + 0
    BY <2>1 DEF Weight, Holding, Serving
  <2> QED
    BY <1>1, <2>1, <2>2
<1>5. CASE DisconnectCompletion(t) \/ DeleteIoContext(t) \/ DeleteSendContext(t)
  <2>1. UNCHANGED <<ports, at, mConnected>> /\ mRefCount'[at[t]] = mRefCount[at[t]] + (-1)
    BY <1>1, <1>5 DEF DisconnectCompletion, DeleteIoContext, DeleteSendContext, ReleaseRef
  <2>2. Weight(t)' <= Weight(t) + (-1)
    <3>1. CASE DisconnectCompletion(t)
      <4>1. pc[t] = "handle" /\ context[t].io \in StageIo /\ pc'[t] = "delete"
        BY <1>1, <3>1 DEF DisconnectCompletion, Handle, Goto, StageIo
      <4> QED
        BY <4>1 DEF Weight, Holding, Serving
    <3>2. CASE DeleteIoContext(t) \/ DeleteSendContext(t)
      <4>1. pc[t] \in {"delete", "release"} /\ pc'[t] \in {"idle", "fail"}
        BY <1>1, <3>2 DEF DeleteIoContext, DeleteSendContext, Goto
      <4> QED
        BY <4>1 DEF Weight, Holding, Serving
    <3> QED
      BY <1>5, <3>1, <3>2
  <2>3. -1 \in Int
    OBVIOUS
  <2> QED
    BY <2>1, <2>2, <2>3
<1>6. CASE FlushStored(t)
  <2>1. UNCHANGED <<ports, at, mConnected>> /\ pc[t] = "flush" /\ Weight(t) = 0
    BY <1>6 DEF FlushStored, Flushed, Goto, Weight, Holding, Serving
  <2>2. CASE pc'[t] = "idle" /\ UNCHANGED mRefCount
    <3>1. mRefCount'[at[t]] = mRefCount[at[t]] + 0 /\ Weight(t)' <= Weight(t) + 0
      BY <1>1, <2>1, <2>2 DEF Weight, Holding, Serving
    <3> QED
      BY <2>1, <3>1
  <2>3. CASE pc'[t] = "wsaSend" /\ mRefCount' = [mRefCount EXCEPT ![at[t]] = @ + 1]
    <3>1. mRefCount'[at[t]] = mRefCount[at[t]] + 1 /\ Weight(t)' <= Weight(t) + 1
      BY <1>1, <2>1, <2>3 DEF Weight, Holding, Serving
    <3> QED
      BY <2>1, <3>1
  <2> QED
    BY <1>1, <1>6, <2>2, <2>3 DEF FlushStored, Flushed, Goto
<1> QED
  BY <1>3, <1>4, <1>5, <1>6

LEMMA Frugal ==
  ASSUME Base, PortShapes', SessionShapes', EnoughReferences, ReturnInv, NEW t \in IoThread,
         Works(t), OnlyMoves(t)
  PROVE  EnoughReferences'
<1>1. CASE Takes(t) \/ RequestLoad(t) \/ FlushSend(t) \/ AcceptCompletion(t) \/ PostRecv(t)
           \/ PreRecv(t) \/ WSASend(t)
  BY <1>1, TakesKeeps, LoadKeeps, LooksKeeps, AcceptedKeeps, ReceiveKeeps, SentKeeps
<1>2. CASE Disconnect(t) \/ Drop(t) \/ SendFails(t)
  <2>1. /\ at' = at /\ DisconnectRequest(at[t])
        /\ pc[t] \in {"disconnect", "drop", "fail"}
        /\ pc'[t] = IF pc[t] = "disconnect" THEN "delete" ELSE "idle"
    BY <1>2 DEF Disconnect, Drop, SendFails, Flushed, Goto, Base, Shapes, ThreadShapes
  <2>2. Weight(t)' <= Weight(t)
    BY <2>1 DEF Weight, Holding, Serving
  <2> QED
    BY <2>1, <2>2, DisconnectKeeps
<1>3. CASE SessionReset(t)
  <2>1. /\ UNCHANGED <<ports, at, pc, context>> /\ mRefCount[at[t]] = 0
        /\ mConnected'[at[t]] = 0 /\ mRefCount'[at[t]] = 0
        /\ mConnected[at[t]] \in {0, 1}
    BY <1>3 DEF SessionReset, thread, ReturnInv, Base, Shapes, ThreadShapes, SessionShapes
  <2>2. Weight(t)' = Weight(t) /\ Weight(t) \in Int
    BY <2>1 DEF Weight
  <2>3. /\ mRefCount'[at[t]] = mRefCount[at[t]] + 0 /\ mConnected'[at[t]] <= mConnected[at[t]] + 0
        /\ 0 + Weight(t)' <= Weight(t) + 0
    BY <2>1, <2>2
  <2> QED
    BY <2>1, <2>3, PortsKept
<1>4. CASE \/ Returns(t) /\ ~SessionReset(t)
           \/ ReadId(t) \/ WriteId(t) \/ RecvCompletion(t) \/ EchoBack(t) \/ SendCompletion(t)
           \/ DisconnectCompletion(t) \/ OnResult(t) \/ DeleteIoContext(t)
           \/ FlushStored(t) \/ CountSend(t) \/ DeleteSendContext(t)
  <2>1. /\ UNCHANGED <<ports, at>> /\ (SessionReset(t) \/ UNCHANGED mConnected)
        /\ \E k \in Int : mRefCount'[at[t]] = mRefCount[at[t]] + k /\ Weight(t)' <= Weight(t) + k
    BY <1>4, Counted
  <2>2. UNCHANGED mConnected
    BY <1>4, <2>1 DEF SessionReset, Returns, ReadId, WriteId, RecvCompletion, EchoBack,
                      SendCompletion, FinishSend, DisconnectCompletion, OnResult, DeleteIoContext,
                      FlushStored, CountSend, DeleteSendContext, connection, Handle, Goto, Flushed
  <2> QED
    BY <2>1, <2>2, CountedKeeps
<1> QED
  BY <1>1, <1>2, <1>3, <1>4 DEF Works, Returns, Serves, Sends

-----------------------------------------------------------------------------
(***************************************************************************)
(* The return of a session, and the assertions.                            *)
(***************************************************************************)
\* Where a thread serves it holds a reference; where it releases one, too.
LEMMA HoldingSteps ==
  ASSUME NEW t \in IoThread
  PROVE  Serves(t) \/ WSASend(t) \/ DeleteSendContext(t) => pc[t] \in Holding /\ returning[t] = "no"
<1>1. CASE \/ AcceptCompletion(t) \/ RequestLoad(t) \/ ReadId(t) \/ WriteId(t) \/ PostRecv(t)
           \/ RecvCompletion(t) \/ EchoBack(t) \/ PreRecv(t)
  BY <1>1 DEF AcceptCompletion, RequestLoad, ReadId, WriteId, PostRecv, PostReceive, PreRecv,
              RecvCompletion, EchoBack, Handle, Goto, Holding, Serving
<1>2. CASE \/ SendCompletion(t) \/ DisconnectCompletion(t) \/ OnResult(t) \/ Disconnect(t)
           \/ DeleteIoContext(t) \/ WSASend(t) \/ DeleteSendContext(t)
  BY <1>2 DEF SendCompletion, FinishSend, DisconnectCompletion, OnResult, Disconnect,
              DeleteIoContext, WSASend, DeleteSendContext, Handle, Goto, Holding, Serving
<1> QED
  BY <1>1, <1>2 DEF Serves

\* A session without references gets none, until a flush strays.
LEMMA Unraised ==
  ASSUME Base, EnoughReferences, NEW t \in IoThread, Works(t), ~strayed',
         NEW r \in Session, mRefCount[r] = 0
  PROVE  mRefCount'[r] = 0
<1>1. SessionShapes /\ ThreadShapes /\ at[t] \in Session
  BY DEF Base, Shapes, ThreadShapes
<1>2. CASE r # at[t]
  BY <1>1, <1>2, ConnectionStep
<1>3. CASE r = at[t]
  <2>1. pc[t] \notin Holding /\ mConnected[r] # 1
    BY <1>1, <1>3, InUse
  <2>2. ~(Serves(t) \/ WSASend(t) \/ DeleteSendContext(t))
    BY <2>1, HoldingSteps
  <2>3. CASE Takes(t) \/ FlushSend(t) \/ CountSend(t)
    BY <2>3 DEF Takes, GetQueuedCompletionStatus, FlushSend, CountSend, connection
  <2>4. CASE Returns(t)
    BY <1>1, <1>3, <2>4 DEF Returns, ReturnClientSession, SessionReset, SendBufferReset, connection,
                            SessionShapes
  <2>5. CASE FlushStored(t)
    BY <1>3, <2>5 DEF FlushStored
  <2>6. CASE Drop(t) \/ SendFails(t)
    <3>1. DisconnectRequest(at[t])
      BY <2>6 DEF Drop, SendFails
    <3> QED
      BY <1>1, <1>3, <2>1, <3>1, Disconnecting
  <2> QED
    BY <2>2, <2>3, <2>4, <2>5, <2>6 DEF Works, Sends
<1> QED
  BY <1>2, <1>3

\* Who begins to return a session, and who puts one back.
LEMMA ReturningStep ==
  ASSUME ThreadShapes, SessionShapes, NEW t \in IoThread, Works(t)
  PROVE  /\ \A u \in IoThread \ {t} : returning'[u] = returning[u]
         /\ returning[t] # "no" => Returns(t) /\ UNCHANGED thread
         /\ returning'[t] # "no" =>
              \/ returning[t] # "no"
              \/ /\ pc[t] \in Holding /\ UNCHANGED at
                 /\ mRefCount[at[t]] = 1 /\ mRefCount'[at[t]] = 0
         /\ \/ UNCHANGED mFreeSessionList
            \/ /\ SendBufferReset(t) /\ returning[t] # "no" /\ returning'[t] = "no"
               /\ mFreeSessionList' = mFreeSessionList \cup {at[t]}
<1>1. CASE Returns(t)
  BY <1>1 DEF Returns, ReturnClientSession, SessionReset, SendBufferReset, ThreadShapes
<1>2. CASE DisconnectCompletion(t) \/ DeleteIoContext(t) \/ DeleteSendContext(t)
  <2>1. ReleaseRef(t) /\ UNCHANGED <<mFreeSessionList, at>> /\ returning[t] = "no"
    BY <1>2 DEF DisconnectCompletion, DeleteIoContext, DeleteSendContext, Handle, Goto
  <2>2. pc[t] \in Holding
    BY <1>2, HoldingSteps DEF Serves
  <2> QED
    BY <2>1, <2>2 DEF ReleaseRef, ThreadShapes, SessionShapes
<1>3. CASE ~Returns(t) /\ ~DisconnectCompletion(t) /\ ~DeleteIoContext(t) /\ ~DeleteSendContext(t)
  <2>1. CASE \/ Takes(t) \/ AcceptCompletion(t) \/ RequestLoad(t) \/ ReadId(t) \/ WriteId(t)
             \/ PostRecv(t) \/ RecvCompletion(t) \/ EchoBack(t) \/ PreRecv(t)
    BY <2>1 DEF Takes, GetQueuedCompletionStatus, AcceptCompletion, RequestLoad, ReadId, WriteId,
                PostRecv, PostReceive, RecvCompletion, EchoBack, PreRecv, Handle, Goto, pool
  <2>2. CASE \/ SendCompletion(t) \/ OnResult(t) \/ Disconnect(t)
             \/ FlushSend(t) \/ Drop(t) \/ FlushStored(t) \/ WSASend(t) \/ CountSend(t) \/ SendFails(t)
    BY <2>2 DEF SendCompletion, FinishSend, OnResult, Disconnect, FlushSend, Drop, FlushStored,
                WSASend, CountSend, SendFails, Flushed, Handle, Goto, pool
  <2> QED
    BY <1>3, <2>1, <2>2 DEF Works, Serves, Sends
<1> QED
  BY <1>1, <1>2, <1>3

LEMMA ReturnStep ==
  ASSUME Base, EnoughReferences, PoolUnreferenced, ReturnInv, NEW t \in IoThread, Works(t),
         OnlyMoves(t), ~strayed'
  PROVE  ReturnInv' /\ PoolUnreferenced'
<1>1. /\ ThreadShapes /\ SessionShapes /\ at \in [IoThread -> Session]
      /\ mFreeSessionList \subseteq Session
  BY DEF Base, Shapes, ThreadShapes, SessionShapes
<1>2. \A s \in Session : mRefCount[s] = 0 => mRefCount'[s] = 0
  BY Unraised
<1>3. /\ \A u \in IoThread \ {t} : returning'[u] = returning[u] /\ at'[u] = at[u]
      /\ returning[t] # "no" => at'[t] = at[t]
      /\ returning'[t] # "no" =>
           \/ returning[t] # "no"
           \/ /\ pc[t] \in Holding /\ at'[t] = at[t]
              /\ mRefCount[at[t]] = 1 /\ mRefCount'[at[t]] = 0
      /\ \/ UNCHANGED mFreeSessionList
         \/ /\ returning[t] # "no" /\ returning'[t] = "no"
            /\ mFreeSessionList' = mFreeSessionList \cup {at[t]}
  BY <1>1, ReturningStep DEF OnlyMoves, thread
<1>4. ASSUME NEW s \in mFreeSessionList' PROVE mRefCount'[s] = 0
  <2>1. s \in Session /\ mRefCount[s] = 0
    BY <1>1, <1>3, <1>4 DEF PoolUnreferenced, ReturnInv
  <2> QED
    BY <1>2, <2>1
<1>5. ASSUME NEW u \in IoThread, returning'[u] # "no"
      PROVE  /\ at'[u] = at[u] /\ mRefCount'[at[u]] = 0 /\ at[u] \notin mFreeSessionList'
             /\ returning[u] # "no" \/ (u = t /\ mRefCount[at[u]] = 1)
  <2>1. CASE returning[u] # "no"
    <3>1. at'[u] = at[u] /\ mRefCount[at[u]] = 0 /\ at[u] \notin mFreeSessionList
      BY <1>3, <2>1 DEF ReturnInv
    <3>2. at[u] \notin mFreeSessionList'
      BY <1>3, <1>5, <2>1, <3>1 DEF ReturnInv
    <3> QED
      BY <1>1, <1>2, <2>1, <3>1, <3>2
  <2>2. CASE returning[u] = "no"
    <3>1. u = t /\ mRefCount[at[t]] = 1 /\ mRefCount'[at[t]] = 0 /\ at'[t] = at[t]
      BY <1>3, <1>5, <2>2
    <3>2. at[t] \notin mFreeSessionList /\ UNCHANGED mFreeSessionList
      BY <1>3, <2>2, <3>1 DEF PoolUnreferenced
    <3> QED
      BY <3>1, <3>2
  <2> QED
    BY <2>1, <2>2
<1>6. ASSUME NEW u \in IoThread, NEW v \in IoThread, returning'[u] # "no", returning'[v] # "no",
             at'[u] = at'[v]
      PROVE  u = v
  <2>1. at[u] = at[v]
    BY <1>5, <1>6
  <2>2. /\ returning[u] # "no" \/ (u = t /\ mRefCount[at[u]] = 1)
        /\ returning[v] # "no" \/ (v = t /\ mRefCount[at[v]] = 1)
    BY <1>5, <1>6
  <2> QED
    BY <2>1, <2>2 DEF ReturnInv
<1>7. ReturnInv'
  BY <1>5, <1>6 DEF ReturnInv
<1> QED
  BY <1>4, <1>7 DEF PoolUnreferenced

\* No assertion of a session fails.
LEMMA NotCrashed ==
  ASSUME Base, EnoughReferences, ReturnInv, OpenIsFresh, crashed = FALSE, NEW t \in IoThread, Works(t)
  PROVE  crashed' = FALSE
<1>1. SessionShapes /\ at[t] \in Session /\ mRefCount[at[t]] \in Int /\ crashed \in BOOLEAN
  BY DEF Base, Shapes, ThreadShapes, SessionShapes, HistoryShapes
<1>2. CASE AcceptCompletion(t)
  <2>1. pc[t] = "handle" /\ context[t].io = "IO_ACCEPT"
    BY <1>2 DEF AcceptCompletion, Handle, Goto
  <2>2. ~(mConnected[at[t]] = 1)
    BY <2>1 DEF OpenIsFresh, Opens
  <2>3. crashed' = (mConnected[at[t]] = 1)
    BY <1>2 DEF AcceptCompletion
  <2> QED
    BY ONLY <2>2, <2>3, Zenon
<1>3. CASE DisconnectCompletion(t) \/ DeleteIoContext(t) \/ DeleteSendContext(t)
  <2>1. mRefCount[at[t]] >= 1
    BY <1>3, HoldingSteps, InUse DEF Serves
  <2>2. ReleaseRef(t)
    BY <1>3 DEF DisconnectCompletion, DeleteIoContext, DeleteSendContext
  <2> QED
    BY <1>1, <2>1, <2>2 DEF ReleaseRef
<1>4. CASE ReturnClientSession(t)
  <2>1. mRefCount[at[t]] = 0 /\ mConnected[at[t]] = 0
    BY <1>1, <1>4, Unreferenced DEF ReturnClientSession, ReturnInv, Base
  <2> QED
    BY <1>4, <2>1 DEF ReturnClientSession
<1>5. CASE ~(\/ AcceptCompletion(t) \/ DisconnectCompletion(t) \/ DeleteIoContext(t)
             \/ DeleteSendContext(t) \/ ReturnClientSession(t))
  <2>1. CASE \/ Takes(t) \/ SessionReset(t) \/ SendBufferReset(t)
             \/ RequestLoad(t) \/ ReadId(t) \/ WriteId(t) \/ PostRecv(t) \/ RecvCompletion(t)
             \/ EchoBack(t) \/ PreRecv(t)
    BY <2>1 DEF Takes, GetQueuedCompletionStatus, SessionReset, SendBufferReset, RequestLoad, ReadId,
                WriteId, PostRecv, PostReceive, RecvCompletion, EchoBack, PreRecv, ghost
  <2>2. CASE \/ SendCompletion(t) \/ OnResult(t) \/ Disconnect(t) \/ FlushSend(t) \/ Drop(t)
             \/ FlushStored(t) \/ WSASend(t) \/ CountSend(t) \/ SendFails(t)
    BY <2>2 DEF SendCompletion, FinishSend, OnResult, Disconnect, FlushSend, Drop, FlushStored,
                WSASend, CountSend, SendFails, ghost
  <2> QED
    BY <1>5, <2>1, <2>2 DEF Works, Returns, Serves, Sends
<1> QED
  BY <1>2, <1>3, <1>4, <1>5

-----------------------------------------------------------------------------
(***************************************************************************)
(* A connection asks for its player once, and gets that player.            *)
(***************************************************************************)
\* A request or a result was there before, or is the one that at[t] asks for now.
LEMMA RequestsStep ==
  ASSUME Base, NEW t \in IoThread, Works(t), OnlyMoves(t)
  PROVE  \A c \in Live' : c.io = "CK_DB_RESULT" =>
           \/ \E d \in Live : d.io = "CK_DB_RESULT" /\ d.session = c.session /\ d.n = c.n
           \/ RequestLoad(t) /\ c.session = at[t] /\ c.n = id
<1> SUFFICES ASSUME NEW c \in Live', c.io = "CK_DB_RESULT"
             PROVE  \/ c \in Live
                    \/ RequestLoad(t) /\ c.session = at[t] /\ c.n = id
  OBVIOUS
<1>1. /\ PortShapes /\ SessionShapes /\ ThreadShapes /\ HistoryShapes /\ at[t] \in Session
      /\ c # None
  BY DEF Base, Shapes, ThreadShapes, Live
<1>2. \/ c \in mDbCompletionPort' \/ c \in mCompletionPort' \/ \E u \in IoThread : c = context'[u]
  BY DEF Live, Contexts
<1>3. /\ \A d \in mDbCompletionPort \cup mCompletionPort : d # None => d \in Live
      /\ \A u \in IoThread : context[u] # None => context[u] \in Live
  BY DEF Live, Contexts
<1>4. CASE Takes(t)
  <2>1. PICK d \in mCompletionPort :
          /\ mCompletionPort' = mCompletionPort \ {d}
          /\ \E e \in Completed(d) : context' = [context EXCEPT ![t] = e]
    BY <1>4 DEF Takes, GetQueuedCompletionStatus
  <2>2. PICK e \in Completed(d) : context' = [context EXCEPT ![t] = e]
    BY <2>1
  <2>3. UNCHANGED mDbCompletionPort
    BY <1>4 DEF Takes, GetQueuedCompletionStatus
  <2>4. CASE \E u \in IoThread : c = context'[u]
    <3>1. PICK u \in IoThread : c = context'[u]
      BY <2>4
    <3>2. CASE u # t
      BY <1>1, <1>3, <2>2, <3>1, <3>2 DEF ThreadShapes
    <3>3. CASE u = t
      <4>1. c = e /\ d \in Context
        BY <1>1, <2>2, <3>1, <3>3 DEF ThreadShapes, PortShapes
      <4>2. d.io \in IOType /\ d # None
        BY <4>1 DEF Context, None
      <4>3. d \in Live
        BY <1>3, <4>2
      <4>4. d.io # "CK_DB_RESULT" => d.n \in 0 .. MaxEcho
        BY <4>3 DEF Base, ContextInv, Numbered
      <4>5. e.io = d.io /\ (d.io \notin {"IO_SEND", "IO_RECV"} => e = d)
        BY <4>1, <4>4, CompletedKeeps, BoundAssumption, <1>1 DEF HistoryShapes
      <4> QED
        BY <4>1, <4>3, <4>5
    <3> QED
      BY <3>2, <3>3
  <2> QED
    BY <1>1, <1>2, <1>3, <2>1, <2>3, <2>4
<1>5. CASE ~Takes(t)
  <2>1. CASE \E u \in IoThread : c = context'[u]
    BY <1>1, <1>3, <1>5, <2>1, HandStep
  <2>2. CASE c \in mCompletionPort'
    <3>1. \/ c \in mCompletionPort
          \/ \E io \in Posted \cup {"IO_SEND"} : \E n : c = NewContext(io, at[t], n)
      <4>1. CASE RequestLoad(t)
        BY <2>2, <4>1 DEF RequestLoad
      <4>2. CASE ~RequestLoad(t)
        BY <1>1, <1>5, <2>2, <4>2, PortStep DEF Brings
      <4> QED
        BY <4>1, <4>2
    <3>2. \A io \in Posted \cup {"IO_SEND"} : \A n : NewContext(io, at[t], n).io # "CK_DB_RESULT"
      BY DEF NewContext, Posted
    <3> QED
      BY <1>1, <1>3, <3>1, <3>2
  <2>3. CASE c \in mDbCompletionPort'
    <3>1. CASE c \in mDbCompletionPort
      BY <1>1, <1>3, <3>1
    <3>2. CASE c \notin mDbCompletionPort
      <4>1. RequestLoad(t)
        BY <1>1, <1>5, <2>3, <3>2, PortStep
      <4>2. c = NewContext("CK_DB_RESULT", at[t], id)
        BY <2>3, <3>2, <4>1 DEF RequestLoad
      <4> QED
        BY <4>1, <4>2 DEF NewContext
    <3> QED
      BY <3>1, <3>2
  <2> QED
    BY <1>2, <2>1, <2>2, <2>3
<1> QED
  BY <1>4, <1>5

\* No thread makes a context that accepts.
LEMMA AcceptsStep ==
  ASSUME Base, NEW t \in IoThread, Works(t)
  PROVE  \A c \in mCompletionPort' : c.io = "IO_ACCEPT" => c \in mCompletionPort
<1> SUFFICES ASSUME NEW c \in mCompletionPort', c.io = "IO_ACCEPT" PROVE c \in mCompletionPort
  OBVIOUS
<1>1. SessionShapes /\ ThreadShapes
  BY DEF Base, Shapes
<1>2. CASE Takes(t) \/ RequestLoad(t)
  BY <1>2 DEF Takes, GetQueuedCompletionStatus, RequestLoad
<1>3. CASE ~Takes(t) /\ ~RequestLoad(t)
  <2>1. \/ c \in mCompletionPort
        \/ \E io \in Posted \cup {"IO_SEND"} : \E n : c = NewContext(io, at[t], n)
    BY <1>1, <1>3, PortStep DEF Brings
  <2>2. \A io \in Posted \cup {"IO_SEND"} : \A n : NewContext(io, at[t], n).io # "IO_ACCEPT"
    BY DEF NewContext, Posted
  <2> QED
    BY <2>1, <2>2
<1> QED
  BY <1>2, <1>3

\* Only the completion of an accept leads to the request for the player.
LEMMA LoadStep ==
  ASSUME Base, NEW t \in IoThread, Works(t), pc'[t] = "load"
  PROVE  AcceptCompletion(t) \/ UNCHANGED <<pc, at, context>>
<1>1. ThreadShapes
  BY DEF Base, Shapes
<1>2. CASE \/ RequestLoad(t) \/ ReadId(t) \/ WriteId(t) \/ PostRecv(t) \/ RecvCompletion(t)
           \/ EchoBack(t) \/ PreRecv(t) \/ SendCompletion(t)
  BY <1>1, <1>2 DEF RequestLoad, ReadId, WriteId, PostRecv, PostReceive, RecvCompletion, EchoBack,
                    PreRecv, SendCompletion, FinishSend, Handle, Goto, ThreadShapes
<1>3. CASE DisconnectCompletion(t) \/ OnResult(t) \/ Disconnect(t) \/ DeleteIoContext(t) \/ Takes(t)
  BY <1>1, <1>3 DEF DisconnectCompletion, OnResult, Disconnect, DeleteIoContext, Takes,
                    GetQueuedCompletionStatus, Handle, Goto, ThreadShapes
<1>4. CASE Sends(t)
  BY <1>1, <1>4 DEF Sends, FlushSend, Drop, FlushStored, WSASend, CountSend, DeleteSendContext,
                    SendFails, Flushed, Goto, ThreadShapes
<1>5. CASE Returns(t)
  BY <1>5 DEF Returns, ReturnClientSession, SessionReset, SendBufferReset, thread
<1> QED
  BY <1>2, <1>3, <1>4, <1>5 DEF Works, Serves

\* An accept in a thread's hand came from the port or was there.
LEMMA OpensStep ==
  ASSUME Base, NEW t \in IoThread, Works(t), Opens(t)'
  PROVE  \/ \E c \in mCompletionPort :
              /\ c.io = "IO_ACCEPT" /\ at'[t] = c.session /\ mCompletionPort' = mCompletionPort \ {c}
              /\ Takes(t)
         \/ /\ Opens(t) /\ at'[t] = at[t] /\ ~RequestLoad(t) /\ ~Takes(t)
            /\ pc'[t] = "handle" => pc[t] = "handle" /\ ~AcceptCompletion(t)
<1>1. /\ PortShapes /\ ThreadShapes /\ HistoryShapes
      /\ pc'[t] \in {"handle", "load"} /\ context'[t].io = "IO_ACCEPT"
  BY DEF Base, Shapes, Opens
<1>2. CASE Takes(t)
  <2>1. PICK c \in mCompletionPort :
          /\ mCompletionPort' = mCompletionPort \ {c} /\ at' = [at EXCEPT ![t] = c.session]
          /\ \E d \in Completed(c) : context' = [context EXCEPT ![t] = d]
    BY <1>2 DEF Takes, GetQueuedCompletionStatus
  <2>2. PICK d \in Completed(c) : context' = [context EXCEPT ![t] = d]
    BY <2>1
  <2>3. c \in Context /\ d.io = "IO_ACCEPT"
    BY <1>1, <2>2 DEF PortShapes, ThreadShapes
  <2>4. c \in Live
    BY <2>3 DEF Live, Contexts, Context, None
  <2>5. c.io # "CK_DB_RESULT" => c.n \in 0 .. MaxEcho
    BY <2>4 DEF Base, ContextInv, Numbered
  <2>6. d.io = c.io
    BY <1>1, <2>3, <2>5, CompletedKeeps, BoundAssumption DEF HistoryShapes
  <2> QED
    BY <1>1, <1>2, <2>1, <2>3, <2>6 DEF ThreadShapes
<1>3. CASE ~Takes(t)
  <2>1. CASE AcceptCompletion(t)
    BY <1>1, <1>3, <2>1 DEF AcceptCompletion, Handle, Goto, Opens, RequestLoad, ThreadShapes
  <2>2. CASE ~AcceptCompletion(t)
    <3>1. UNCHANGED <<pc, at, context>>
      BY <1>1, <1>3, <2>2, HandStep, LoadStep
    <3>2. ~RequestLoad(t)
      BY <1>1, <3>1 DEF RequestLoad, Goto, ThreadShapes
    <3> QED
      BY <1>3, <2>2, <3>1, <3>2 DEF Opens
  <2> QED
    BY <2>1, <2>2
<1> QED
  BY <1>2, <1>3

\* Only the completion of an accept connects.
LEMMA ConnectsStep ==
  ASSUME Base, NEW t \in IoThread, Works(t), NEW r \in Session, mConnected'[r] = 1
  PROVE  mConnected[r] = 1 \/ (AcceptCompletion(t) /\ r = at[t])
<1>1. /\ SessionShapes /\ ThreadShapes /\ at[t] \in Session
  BY DEF Base, Shapes, ThreadShapes
<1>2. CASE r # at[t]
  BY <1>1, <1>2, ConnectionStep
<1>3. CASE r = at[t]
  <2>1. CASE SessionReset(t)
    BY <1>1, <1>3, <2>1 DEF SessionReset, SessionShapes
  <2>2. CASE Disconnect(t) \/ Drop(t) \/ SendFails(t)
    BY <1>1, <1>3, <2>2 DEF Disconnect, Drop, SendFails, DisconnectRequest, SessionShapes
  <2>3. CASE AcceptCompletion(t)
    BY <1>3, <2>3
  <2>4. CASE \/ Takes(t) \/ ReturnClientSession(t) \/ SendBufferReset(t) \/ RequestLoad(t)
             \/ ReadId(t) \/ WriteId(t) \/ PostRecv(t) \/ RecvCompletion(t) \/ EchoBack(t)
             \/ PreRecv(t)
    BY <2>4 DEF Takes, GetQueuedCompletionStatus, ReturnClientSession, SendBufferReset, RequestLoad,
                ReadId, WriteId, PostRecv, PostReceive, RecvCompletion, EchoBack, PreRecv, connection
  <2>5. CASE \/ SendCompletion(t) \/ DisconnectCompletion(t) \/ OnResult(t) \/ DeleteIoContext(t)
             \/ FlushSend(t) \/ FlushStored(t) \/ WSASend(t) \/ CountSend(t) \/ DeleteSendContext(t)
    BY <2>5 DEF SendCompletion, FinishSend, DisconnectCompletion, OnResult, DeleteIoContext,
                FlushSend, FlushStored, WSASend, CountSend, DeleteSendContext, connection
  <2> QED
    BY <2>1, <2>2, <2>3, <2>4, <2>5 DEF Works, Returns, Serves, Sends
<1> QED
  BY <1>2, <1>3

\* A thread that handles a result has it in its hand.
LEMMA ResultInHand ==
  ASSUME Base, NEW t \in IoThread, OnResult(t)
  PROVE  /\ context[t] \in Live /\ context[t].io = "CK_DB_RESULT" /\ context[t].session = at[t]
         /\ at[t] \in Session
<1>1. pc[t] = "handle" /\ context[t].io = "CK_DB_RESULT"
  BY DEF OnResult, Handle, Goto
<1>2. context[t] \in Context /\ context[t].session = at[t] /\ at[t] \in Session
  BY <1>1 DEF Base, Shapes, ThreadShapes, HandInv, Hand, Serving
<1>3. context[t] # None
  BY <1>2 DEF Context, None
<1> QED
  BY <1>1, <1>2, <1>3 DEF Live, Contexts

LEMMA FreshKept ==
  ASSUME Base, NEW t \in IoThread, Works(t), OnlyMoves(t), NEW s \in Session, Fresh(s),
         ~(RequestLoad(t) /\ at[t] = s)
  PROVE  Fresh(s)'
<1>1. /\ mPlayerId \in [Session -> {NoPlayer} \cup Ids] /\ asked \in [Session -> {NoPlayer} \cup Ids]
      /\ asked[s] = NoPlayer /\ mPlayerId[s] = NoPlayer
      /\ \A c \in Live : c.session = s => c.io # "CK_DB_RESULT"
  BY DEF Base, Shapes, SessionShapes, HistoryShapes, Fresh
<1>2. asked'[s] = NoPlayer
  BY <1>1, DataStep DEF RequestLoad
<1>3. mPlayerId'[s] = NoPlayer
  <2>1. CASE OnResult(t)
    <3>1. at[t] # s
      BY <1>1, <2>1, ResultInHand
    <3> QED
      BY <1>1, <2>1, <3>1 DEF OnResult
  <2>2. CASE SendBufferReset(t)
    BY <1>1, <2>2 DEF SendBufferReset
  <2> QED
    BY <1>1, <2>1, <2>2, DataStep
<1>4. \A c \in Live' : c.session = s => c.io # "CK_DB_RESULT"
  BY <1>1, RequestsStep
<1> QED
  BY <1>2, <1>3, <1>4 DEF Fresh

\* The accept in the hand of t is the only one of its session.
LEMMA OpenStep ==
  ASSUME Base, OpenIsFresh, OpenedOnce, NEW t \in IoThread, Works(t), OnlyMoves(t)
  PROVE  OpenIsFresh' /\ OpenedOnce'
<1>1. /\ \A c \in mCompletionPort : c.session \in Session
      /\ \A u \in IoThread : at[u] \in Session
      /\ mConnected' \in [Session -> {0, 1}]
      /\ ThreadShapes
  <2>1. SessionShapes /\ ThreadShapes /\ PortShapes
    BY DEF Base, Shapes
  <2> QED
    BY <2>1, ConnectionStep DEF PortShapes, Context, ThreadShapes
<1>2. \A u \in IoThread \ {t} : (Opens(u)' <=> Opens(u)) /\ at'[u] = at[u] /\ pc'[u] = pc[u]
  BY DEF OnlyMoves, Opens
<1>3. RequestLoad(t) \/ AcceptCompletion(t) => Opens(t)
  BY DEF RequestLoad, AcceptCompletion, Handle, Goto, Opens, Base, HandInv, Hand
<1>4. ASSUME NEW s \in Session, Fresh(s), Opens(t) => at[t] # s \/ ~RequestLoad(t) PROVE Fresh(s)'
  BY <1>3, <1>4, FreshKept
<1>5. ASSUME NEW s \in Session, mConnected[s] = 0, AcceptCompletion(t) => at[t] # s
      PROVE  mConnected'[s] = 0
  <2>1. mConnected'[s] # 1
    BY <1>5, ConnectsStep
  <2> QED
    BY <1>1, <2>1
<1>6. ASSUME NEW c \in mCompletionPort', c.io = "IO_ACCEPT"
      PROVE  /\ c \in mCompletionPort /\ Fresh(c.session)' /\ mConnected'[c.session] = 0
             /\ \A u \in IoThread : Opens(u) => c.session # at[u]
  <2>1. c \in mCompletionPort
    BY <1>6, AcceptsStep
  <2>2. /\ Fresh(c.session) /\ mConnected[c.session] = 0 /\ c.session \in Session
        /\ \A u \in IoThread : Opens(u) => c.session # at[u]
    BY <1>1, <1>6, <2>1 DEF OpenIsFresh, OpenedOnce
  <2>3. Opens(t) => c.session # at[t]
    BY <2>2
  <2> QED
    BY <1>3, <1>4, <1>5, <2>1, <2>2, <2>3
<1>7. ASSUME NEW u \in IoThread, u # t, Opens(u)
      PROVE  /\ \A s \in Session : s = at[u] => Fresh(s)'
             /\ pc[u] = "handle" => mConnected'[at[u]] = 0
             /\ Opens(t) => at[t] # at[u]
  <2>1. /\ Fresh(at[u]) /\ (pc[u] = "handle" => mConnected[at[u]] = 0) /\ at[u] \in Session
        /\ Opens(t) => at[t] # at[u]
    BY <1>1, <1>7 DEF OpenIsFresh, OpenedOnce
  <2> QED
    BY <1>3, <1>4, <1>5, <2>1
<1>8. ASSUME Opens(t)'
      PROVE  /\ \A s \in Session : s = at'[t] => Fresh(s)'
             /\ pc'[t] = "handle" => mConnected'[at'[t]] = 0
             /\ \A c \in mCompletionPort' : c.io = "IO_ACCEPT" => c.session # at'[t]
             /\ \A u \in IoThread \ {t} : Opens(u) => at[u] # at'[t]
  <2>1. CASE \E c \in mCompletionPort :
               /\ c.io = "IO_ACCEPT" /\ at'[t] = c.session /\ mCompletionPort' = mCompletionPort \ {c}
               /\ Takes(t)
    <3>1. PICK c \in mCompletionPort :
            /\ c.io = "IO_ACCEPT" /\ at'[t] = c.session /\ mCompletionPort' = mCompletionPort \ {c}
            /\ Takes(t)
      BY <2>1
    <3>2. ~Opens(t) /\ mConnected' = mConnected
      BY <3>1 DEF Takes, GetQueuedCompletionStatus, Goto, Opens, connection
    <3>3. /\ Fresh(c.session) /\ mConnected[c.session] = 0 /\ c.session \in Session
          /\ \A d \in mCompletionPort : d.io = "IO_ACCEPT" /\ d.session = c.session => d = c
          /\ \A u \in IoThread : Opens(u) => c.session # at[u]
      BY <1>1, <3>1 DEF OpenIsFresh, OpenedOnce
    <3>4. Fresh(c.session)'
      BY <1>4, <3>2, <3>3
    <3> QED
      BY <3>1, <3>2, <3>3, <3>4
  <2>2. CASE /\ Opens(t) /\ at'[t] = at[t] /\ ~RequestLoad(t) /\ ~Takes(t)
             /\ pc'[t] = "handle" => pc[t] = "handle" /\ ~AcceptCompletion(t)
    <3>1. \A s \in Session : s = at[t] => Fresh(s)'
      BY <1>1, <1>4, <2>2 DEF OpenIsFresh
    <3>2. pc'[t] = "handle" => mConnected'[at[t]] = 0
      BY <1>1, <1>5, <2>2 DEF OpenIsFresh
    <3>3. /\ \A c \in mCompletionPort' : c.io = "IO_ACCEPT" => c.session # at[t]
          /\ \A u \in IoThread \ {t} : Opens(u) => at[u] # at[t]
      BY <1>6, <2>2 DEF OpenedOnce
    <3> QED
      BY <2>2, <3>1, <3>2, <3>3
  <2> QED
    BY <1>8, <2>1, <2>2, OpensStep
<1>9. OpenIsFresh'
  <2>1. \A c \in mCompletionPort' :
          c.io = "IO_ACCEPT" => Fresh(c.session)' /\ mConnected'[c.session] = 0
    BY <1>6
  <2>2. ASSUME NEW u \in IoThread, Opens(u)'
        PROVE  /\ \A s \in Session : s = at'[u] => Fresh(s)'
               /\ pc'[u] = "handle" => mConnected'[at'[u]] = 0
    <3>1. CASE u = t
      BY <1>8, <2>2, <3>1
    <3>2. CASE u # t
      <4>1. Opens(u) /\ at'[u] = at[u] /\ pc'[u] = pc[u]
        BY <1>2, <2>2, <3>2
      <4> QED
        BY <1>7, <3>2, <4>1
    <3> QED
      BY <3>1, <3>2
  <2>3. \A u \in IoThread : at'[u] \in Session
    BY <1>1, <1>2, <2>2, ThreadStep DEF ThreadShapes
  <2> QED
    BY <2>1, <2>2, <2>3 DEF OpenIsFresh, Fresh
<1>10. OpenedOnce'
  <2>1. \A c, d \in mCompletionPort' :
          c.io = "IO_ACCEPT" /\ d.io = "IO_ACCEPT" /\ c.session = d.session => c = d
    BY <1>6 DEF OpenedOnce
  <2>2. ASSUME NEW c \in mCompletionPort', NEW u \in IoThread, c.io = "IO_ACCEPT", Opens(u)'
        PROVE  c.session # at'[u]
    BY <1>2, <1>6, <1>8, <2>2
  <2>3. ASSUME NEW u \in IoThread, NEW v \in IoThread, Opens(u)', Opens(v)', at'[u] = at'[v]
        PROVE  u = v
    <3>1. CASE u # t /\ v # t
      BY <1>2, <2>3, <3>1 DEF OpenedOnce
    <3>2. CASE u = t \/ v = t
      BY <1>2, <1>8, <2>3, <3>2
    <3> QED
      BY <3>1, <3>2
  <2> QED
    BY <2>1, <2>2, <2>3 DEF OpenedOnce
<1> QED
  BY <1>9, <1>10

\* Requests and results carry the id that their session's connection asked for.
LEMMA AnswerStep ==
  ASSUME Base, EnoughReferences, OpenIsFresh, AnswerInv, NEW t \in IoThread, Works(t), OnlyMoves(t)
  PROVE  AnswerInv'
<1> SUFFICES ASSUME NEW c \in Live', c.io = "CK_DB_RESULT" PROVE c.n = asked'[c.session]
  BY DEF AnswerInv
<1>1. asked \in [Session -> {NoPlayer} \cup Ids] /\ at[t] \in Session
  BY DEF Base, Shapes, HistoryShapes, ThreadShapes
<1>2. RequestLoad(t) => Fresh(at[t])
  BY DEF RequestLoad, Goto, Opens, OpenIsFresh, Base, HandInv, Hand
<1>3. CASE \E d \in Live : d.io = "CK_DB_RESULT" /\ d.session = c.session /\ d.n = c.n
  <2>1. PICK d \in Live : d.io = "CK_DB_RESULT" /\ d.session = c.session /\ d.n = c.n
    BY <1>3
  <2>2. c.n = asked[c.session]
    BY <2>1 DEF AnswerInv
  <2>3. RequestLoad(t) => at[t] # c.session
    BY <1>2, <2>1 DEF Fresh
  <2>4. asked'[c.session] = asked[c.session]
    <3>1. c.session \in Session
      BY <2>1, InUse
    <3>2. UNCHANGED asked \/ (RequestLoad(t) /\ asked' = [asked EXCEPT ![at[t]] = id])
      BY DataStep DEF RequestLoad
    <3> QED
      BY <1>1, <2>3, <3>1, <3>2
  <2> QED
    BY <2>2, <2>4
<1>4. CASE RequestLoad(t) /\ c.session = at[t] /\ c.n = id
  BY <1>1, <1>4 DEF RequestLoad
<1> QED
  BY <1>3, <1>4, RequestsStep

\* The player of a session is the one its connection asked for.
LEMMA PlayerStep ==
  ASSUME Base, EnoughReferences, PoolUnreferenced, OpenIsFresh, AnswerInv, PlayerInv,
         NEW t \in IoThread, Works(t)
  PROVE  PlayerInv'
<1>1. /\ asked \in [Session -> {NoPlayer} \cup Ids] /\ mPlayerId \in [Session -> {NoPlayer} \cup Ids]
      /\ at[t] \in Session /\ mFreeSessionList \subseteq Session /\ ThreadShapes /\ SessionShapes
  BY DEF Base, Shapes, HistoryShapes, ThreadShapes, SessionShapes
<1>2. /\ \A s \in Session : mPlayerId[s] \in {NoPlayer, asked[s]}
      /\ \A s \in mFreeSessionList : mPlayerId[s] = NoPlayer
  BY DEF PlayerInv
<1>3. CASE RequestLoad(t)
  <2>1. mPlayerId[at[t]] = NoPlayer
    BY <1>3 DEF RequestLoad, Goto, Opens, OpenIsFresh, Fresh, Base, HandInv, Hand
  <2>2. UNCHANGED <<mPlayerId, mFreeSessionList>> /\ asked' = [asked EXCEPT ![at[t]] = id]
    BY <1>3 DEF RequestLoad, player, pool
  <2> QED
    BY <1>1, <1>2, <2>1, <2>2 DEF PlayerInv
<1>4. CASE OnResult(t)
  <2>1. context[t].n = asked[at[t]]
    BY <1>4, ResultInHand DEF AnswerInv
  <2>2. at[t] \notin mFreeSessionList
    <3>1. mRefCount[at[t]] >= 1
      BY <1>4, HoldingSteps, InUse DEF Serves
    <3> QED
      BY <3>1 DEF PoolUnreferenced
  <2>3. /\ UNCHANGED <<asked, mFreeSessionList>>
        /\ mPlayerId' = [mPlayerId EXCEPT ![at[t]] = IF context[t].ok THEN context[t].n ELSE @]
    BY <1>4 DEF OnResult, pool
  <2>4. \A s \in Session : mPlayerId'[s] \in {mPlayerId[s], IF s = at[t] THEN asked[s] ELSE mPlayerId[s]}
    BY <1>1, <2>1, <2>3
  <2>5. \A s \in mFreeSessionList' : mPlayerId'[s] = mPlayerId[s]
    BY <1>1, <2>2, <2>3
  <2> QED
    BY <1>2, <2>3, <2>4, <2>5 DEF PlayerInv
<1>5. CASE SendBufferReset(t)
  <2>1. /\ UNCHANGED asked /\ mFreeSessionList' = mFreeSessionList \cup {at[t]}
        /\ mPlayerId' = [mPlayerId EXCEPT ![at[t]] = NoPlayer]
    BY <1>5 DEF SendBufferReset, history
  <2> QED
    BY <1>1, <1>2, <2>1 DEF PlayerInv
<1>6. CASE ~RequestLoad(t) /\ ~OnResult(t) /\ ~SendBufferReset(t)
  BY <1>1, <1>2, <1>6, DataStep, ReturningStep DEF PlayerInv
<1> QED
  BY <1>3, <1>4, <1>5, <1>6

\* A context is made for the connection its session has, which lasts as long as the context.
LEMMA OwnKept ==
  ASSUME Base, OwnInv, Next, \A d \in Live : issue'[d.session] = issue[d.session]
  PROVE  OwnInv'
<1> SUFFICES ASSUME NEW c \in Live' PROVE c.issue = issue'[c.session]
  BY DEF OwnInv
<1>1. (\E d \in Live : Follows(c, d)) \/ Made(c)
  BY ContextStep
<1> QED
  BY <1>1 DEF Follows, Made, OwnInv

LEMMA ThreadGood ==
  ASSUME Base, Good, Next, PortShapes', SessionShapes', NEW t \in IoThread, Works(t), ~strayed'
  PROVE  Good'
<1>1. OnlyMoves(t)
  BY ThreadStep
<1>2. OwnInv'
  BY OwnKept, DataStep DEF Good
<1>3. /\ EnoughReferences' /\ ReturnInv' /\ PoolUnreferenced' /\ crashed' = FALSE
      /\ OpenIsFresh' /\ OpenedOnce' /\ AnswerInv' /\ PlayerInv'
  BY <1>1, Frugal, ReturnStep, NotCrashed, OpenStep, AnswerStep, PlayerStep DEF Good
<1> QED
  BY <1>2, <1>3 DEF Good

\* A session of the pool has nothing of an earlier connection.
LEMMA AcceptGood ==
  ASSUME Base, Good, Next, NEW s \in Session, AcceptClientSessions(s)
  PROVE  Good'
<1> DEFINE c == [NewContext("IO_ACCEPT", s, 0) EXCEPT !.issue = issued + 1]
<1>1. /\ PortShapes /\ SessionShapes /\ HistoryShapes /\ ThreadShapes
      /\ UNCHANGED <<mPlayerId, mConnected, returning, mDbCompletionPort, pc, at, context, crashed>>
      /\ mFreeSessionList' = mFreeSessionList \ {s} /\ s \in mFreeSessionList
      /\ mCompletionPort' = mCompletionPort \cup {c}
      /\ asked' = [asked EXCEPT ![s] = NoPlayer]
      /\ issue' = [issue EXCEPT ![s] = issued + 1]
      /\ mRefCount' = [mRefCount EXCEPT ![s] = @ + 2]
  BY DEF Base, Shapes, AcceptClientSessions, player, thread, ghost
<1>2. c.io = "IO_ACCEPT" /\ c.session = s
  BY <1>1, AcceptContext
<1> HIDE DEF c
<1>3. /\ mRefCount[s] = 0 /\ mConnected[s] = 0 /\ mPlayerId[s] = NoPlayer
      /\ \A d \in Live : d.session # s
      /\ \A t \in IoThread : pc[t] \in Holding => at[t] # s
  <2>1. mRefCount[s] = 0 /\ mPlayerId[s] = NoPlayer
    BY <1>1 DEF Good, PoolUnreferenced, PlayerInv
  <2> QED
    BY <2>1, InUse, Unreferenced DEF Good, Base
<1>4. /\ Live' \subseteq Live \cup {c}
      /\ \A d \in mCompletionPort : d \in Live
  <2>1. \A d \in mCompletionPort : d \in Context
    BY <1>1 DEF PortShapes
  <2> QED
    BY <1>1, <2>1 DEF Live, Contexts, Context, None
<1>5. EnoughReferences'
  <2> SUFFICES ASSUME NEW r \in Session
               PROVE  Need(r)' + Cardinality(InHand(r))' + Cardinality(StageInHand(r))' <= 0
    BY DEF EnoughReferences
  <2>1. InHand(r)' = InHand(r) /\ StageInHand(r)' = StageInHand(r)
    BY <1>1 DEF InHand, StageInHand
  <2>2. mRefCount[r] \in Int /\ mRefCount'[r] = mRefCount[r] + (IF r = s THEN 2 ELSE 0)
    BY <1>1 DEF SessionShapes
  <2>3. PortNeed(r)' <= PortNeed(r) /\ PortNeed(r) \in Int /\ PortNeed(r)' \in Int
    <3>1. PortNeed(r) \in Int
      BY <1>1, NeedType DEF NeedsAreInt
    <3>2. PortNeed(r)' \in Int
      <4>1. PortShapes' /\ SessionShapes'
        BY ContextStep, SessionStep
      <4>2. NeedsAreInt'
        BY <4>1, NeedType, PTL
      <4> QED
        BY <4>2 DEF NeedsAreInt
    <3>3. CASE r = s
      <4>1. PortNeed(r)' <= PortNeed(r) - 2 + 2
        BY <1>1, <1>2, <2>2, <3>3, PortGrows DEF StageIo
      <4> QED
        BY <3>1, <3>2, <4>1
    <3>4. CASE r # s
      <4>1. PortNeed(r)' <= PortNeed(r) - 0 + 0
        BY <1>1, <1>2, <2>2, <3>4, PortGrows
      <4> QED
        BY <3>1, <3>2, <4>1
    <3> QED
      BY <3>1, <3>2, <3>3, <3>4
  <2>4. /\ Need(r)' = PortNeed(r)' + mConnected[r] /\ Need(r) = PortNeed(r) + mConnected[r]
        /\ mConnected[r] \in Int
    BY <1>1 DEF Need, SessionShapes
  <2>5. Cardinality(InHand(r)) \in Nat /\ Cardinality(StageInHand(r)) \in Nat
    BY Receivers DEF InHand, StageInHand
  <2>6. Need(r) + Cardinality(InHand(r)) + Cardinality(StageInHand(r)) <= 0
    BY DEF Good, EnoughReferences
  <2> QED
    BY <2>1, <2>3, <2>4, <2>5, <2>6
<1>6. PoolUnreferenced' /\ ReturnInv'
  <2>1. \A r \in Session \ {s} : mRefCount'[r] = mRefCount[r]
    BY <1>1
  <2>2. \A t \in IoThread : returning[t] # "no" => at[t] \in Session \ {s}
    BY <1>1 DEF Good, ReturnInv, ThreadShapes
  <2> QED
    BY <1>1, <2>1, <2>2 DEF Good, PoolUnreferenced, ReturnInv, SessionShapes
<1>7. OwnInv'
  <2>1. \A d \in Live : issue'[d.session] = issue[d.session]
    BY <1>1, <1>3, InUse DEF Good, HistoryShapes
  <2> QED
    BY <2>1, OwnKept DEF Good
<1>8. \A r \in Session : Fresh(r) \/ r = s => Fresh(r)'
  <2> SUFFICES ASSUME NEW r \in Session, Fresh(r) \/ r = s PROVE Fresh(r)'
    OBVIOUS
  <2>1. asked'[r] = NoPlayer /\ mPlayerId'[r] = NoPlayer
    BY <1>1, <1>3 DEF Fresh, HistoryShapes
  <2>2. \A d \in Live' : d.session = r => d.io # "CK_DB_RESULT"
    BY <1>2, <1>3, <1>4 DEF Fresh
  <2> QED
    BY <2>1, <2>2 DEF Fresh
<1>9. /\ \A t \in IoThread : Opens(t)' <=> Opens(t)
      /\ \A t \in IoThread : Opens(t) => at[t] # s
  BY <1>1, <1>3 DEF Opens, Holding, Serving
<1>10. OpenIsFresh'
  <2>1. ASSUME NEW d \in mCompletionPort', d.io = "IO_ACCEPT"
        PROVE  Fresh(d.session)' /\ mConnected'[d.session] = 0
    <3>1. CASE d = c
      BY <1>1, <1>2, <1>3, <1>8, <3>1
    <3>2. CASE d # c
      <4>1. d \in mCompletionPort /\ d.session \in Session
        BY <1>1, <3>2 DEF PortShapes, Context
      <4> QED
        BY <1>1, <1>8, <2>1, <4>1 DEF Good, OpenIsFresh
    <3> QED
      BY <3>1, <3>2
  <2>2. ASSUME NEW t \in IoThread, Opens(t)'
        PROVE  /\ \A r \in Session : r = at[t] => Fresh(r)'
               /\ pc'[t] = "handle" => mConnected'[at[t]] = 0
    BY <1>1, <1>8, <1>9, <2>2 DEF Good, OpenIsFresh
  <2>3. \A t \in IoThread : at[t] \in Session /\ at'[t] = at[t]
    BY <1>1 DEF ThreadShapes
  <2> QED
    BY <2>1, <2>2, <2>3 DEF OpenIsFresh, Fresh
<1>11. OpenedOnce'
  <2>1. \A d \in mCompletionPort : d.session # s
    BY <1>3, <1>4
  <2> QED
    BY <1>1, <1>2, <1>9, <2>1 DEF Good, OpenedOnce
<1>12. AnswerInv'
  <2>1. ASSUME NEW d \in Live', d.io = "CK_DB_RESULT" PROVE d.n = asked'[d.session]
    <3>1. d \in Live /\ d.session # s /\ d.session \in Session
      BY <1>2, <1>3, <1>4, <2>1, InUse DEF Good
    <3> QED
      BY <1>1, <2>1, <3>1 DEF Good, AnswerInv, HistoryShapes
  <2> QED
    BY <2>1 DEF AnswerInv
<1>13. PlayerInv' /\ crashed' = FALSE
  BY <1>1, <1>3 DEF Good, PlayerInv, HistoryShapes
<1> QED
  BY <1>5, <1>6, <1>7, <1>10, <1>11, <1>12, <1>13 DEF Good

\* A request that is executed keeps its reference, in the other port.
LEMMA DatabaseGood ==
  ASSUME Base, Good, Next, DoDatabaseJob
  PROVE  Good'
<1>1. PICK c \in mDbCompletionPort :
        /\ mDbCompletionPort' = mDbCompletionPort \ {c}
        /\ \E mSuccess \in BOOLEAN :
             mCompletionPort' = mCompletionPort \cup {[c EXCEPT !.ok = mSuccess]}
        /\ UNCHANGED <<mPlayerId, mConnected, mRefCount, mFreeSessionList, returning, pc, at, context,
                       crashed, issue, asked>>
  BY DEF DoDatabaseJob, player, connection, pool, thread, ghost, history
<1>2. PICK mSuccess \in BOOLEAN :
        mCompletionPort' = mCompletionPort \cup {[c EXCEPT !.ok = mSuccess]}
  BY <1>1
<1> DEFINE d == [c EXCEPT !.ok = mSuccess]
<1>3. /\ PortShapes /\ SessionShapes /\ HistoryShapes /\ ThreadShapes /\ c \in Live
      /\ d.io = "CK_DB_RESULT" /\ c.io = "CK_DB_RESULT" /\ c.session \in Session
      /\ d.session = c.session /\ d.n = c.n
  <2>1. PortShapes /\ SessionShapes /\ HistoryShapes /\ ThreadShapes
    BY DEF Base, Shapes
  <2>2. c \in Context /\ c.io = "CK_DB_RESULT"
    BY <2>1 DEF PortShapes
  <2> QED
    BY <2>1, <2>2 DEF Context, Live, Contexts, None
<1>4. mCompletionPort' = mCompletionPort \cup {d}
  BY <1>2
<1> HIDE DEF d
<1>5. Live' \subseteq Live \cup {d}
  BY <1>1, <1>4 DEF Live, Contexts
<1>6. EnoughReferences'
  <2> SUFFICES ASSUME NEW r \in Session
               PROVE  Need(r)' + Cardinality(InHand(r))' + Cardinality(StageInHand(r))' <= 0
    BY DEF EnoughReferences
  <2>1. /\ InHand(r)' = InHand(r) /\ StageInHand(r)' = StageInHand(r)
        /\ InDb(r)' = InDb(r) \ {c} /\ (c \in InDb(r) <=> c.session = r)
        /\ InPort(r)' = IF c.session = r THEN InPort(r) \cup {d} ELSE InPort(r)
        /\ StageInPort(r)' = StageInPort(r)
    BY <1>1, <1>3, <1>4 DEF InHand, StageInHand, InDb, InPort, StageInPort, StageIo
  <2>2. /\ IsFiniteSet(InDb(r)) /\ Cardinality(InDb(r)) \in Nat
        /\ IsFiniteSet(InPort(r)) /\ Cardinality(InPort(r)) \in Nat
        /\ Cardinality(StageInPort(r)) \in Nat
        /\ mRefCount[r] \in Int /\ mConnected[r] \in Int
    BY <1>3, PortCounts DEF SessionShapes
  <2>3. Cardinality(InDb(r)') = Cardinality(InDb(r)) - (IF c.session = r THEN 1 ELSE 0)
    BY <2>1, <2>2, RemoveOne
  <2>4. /\ Cardinality(InPort(r)') \in Nat
        /\ Cardinality(InPort(r)') <= Cardinality(InPort(r)) + (IF c.session = r THEN 1 ELSE 0)
    <3>1. CASE c.session = r
      BY <2>1, <2>2, <3>1, AddOne
    <3>2. CASE c.session # r
      BY <2>1, <2>2, <3>2
    <3> QED
      BY <3>1, <3>2
  <2>5. /\ Need(r) = Cardinality(InDb(r)) + Cardinality(InPort(r)) + Cardinality(StageInPort(r))
                       - mRefCount[r] + mConnected[r]
        /\ Need(r)' = Cardinality(InDb(r)') + Cardinality(InPort(r)') + Cardinality(StageInPort(r))
                       - mRefCount[r] + mConnected[r]
    BY <1>1, <2>1 DEF Need, PortNeed
  <2>6. Need(r)' <= Need(r) /\ Need(r) \in Int /\ Need(r)' \in Int
    BY <2>2, <2>3, <2>4, <2>5
  <2>7. Cardinality(InHand(r)) \in Nat /\ Cardinality(StageInHand(r)) \in Nat
    BY Receivers DEF InHand, StageInHand
  <2>8. Need(r) + Cardinality(InHand(r)) + Cardinality(StageInHand(r)) <= 0
    BY DEF Good, EnoughReferences
  <2> QED
    BY <2>1, <2>6, <2>7, <2>8
<1>7. PoolUnreferenced' /\ ReturnInv' /\ PlayerInv' /\ crashed' = FALSE
  BY <1>1 DEF Good, PoolUnreferenced, ReturnInv, PlayerInv
<1>8. OwnInv'
  BY <1>1, OwnKept DEF Good
<1>9. \A r \in Session : Fresh(r) => Fresh(r)'
  <2> SUFFICES ASSUME NEW r \in Session, Fresh(r) PROVE Fresh(r)'
    OBVIOUS
  <2>1. \A e \in Live' : e.session = r => e.io # "CK_DB_RESULT"
    BY <1>3, <1>5 DEF Fresh
  <2> QED
    BY <1>1, <2>1 DEF Fresh
<1>10. /\ \A t \in IoThread : Opens(t)' <=> Opens(t)
       /\ \A e \in mCompletionPort' : e.io = "IO_ACCEPT" => e \in mCompletionPort
  BY <1>1, <1>3, <1>4 DEF Opens
<1>11. OpenIsFresh'
  <2>1. ASSUME NEW e \in mCompletionPort', e.io = "IO_ACCEPT"
        PROVE  Fresh(e.session)' /\ mConnected'[e.session] = 0
    <3>1. e \in mCompletionPort /\ e.session \in Session
      BY <1>3, <1>10, <2>1 DEF PortShapes, Context
    <3> QED
      BY <1>1, <1>9, <2>1, <3>1 DEF Good, OpenIsFresh
  <2>2. ASSUME NEW t \in IoThread, Opens(t)'
        PROVE  /\ \A r \in Session : r = at[t] => Fresh(r)'
               /\ pc'[t] = "handle" => mConnected'[at[t]] = 0
    BY <1>1, <1>9, <1>10, <2>2 DEF Good, OpenIsFresh
  <2>3. \A t \in IoThread : at[t] \in Session /\ at'[t] = at[t]
    BY <1>1, <1>3 DEF ThreadShapes
  <2> QED
    BY <2>1, <2>2, <2>3 DEF OpenIsFresh, Fresh
<1>12. OpenedOnce'
  BY <1>1, <1>10 DEF Good, OpenedOnce
<1>13. AnswerInv'
  BY <1>1, <1>3, <1>5 DEF Good, AnswerInv
<1> QED
  BY <1>6, <1>7, <1>8, <1>11, <1>12, <1>13 DEF Good

-----------------------------------------------------------------------------
(***************************************************************************)
(* The invariant, and what it means.                                       *)
(***************************************************************************)
LEMMA InitGood == Init => Good
<1> SUFFICES ASSUME Init PROVE Good
  OBVIOUS
<1>1. /\ mDbCompletionPort = {} /\ mCompletionPort = {} /\ crashed = FALSE
      /\ \A t \in IoThread : pc[t] = "idle" /\ context[t] = None /\ returning[t] = "no"
      /\ \A s \in Session : mConnected[s] = 0 /\ mRefCount[s] = 0 /\ mPlayerId[s] = NoPlayer
      /\ mFreeSessionList = Session
  BY DEF Init
<1>2. Live = {}
  BY <1>1 DEF Live, Contexts
<1>3. EnoughReferences
  <2> SUFFICES ASSUME NEW s \in Session
               PROVE  Need(s) + Cardinality(InHand(s)) + Cardinality(StageInHand(s)) <= 0
    BY DEF EnoughReferences
  <2>1. /\ InDb(s) = {} /\ InPort(s) = {} /\ StageInPort(s) = {}
        /\ InHand(s) = {} /\ StageInHand(s) = {}
    BY <1>1 DEF InDb, InPort, StageInPort, InHand, StageInHand, Holding, Serving
  <2>2. Cardinality({}) = 0
    BY FS_EmptySet
  <2>3. Need(s) = 0 + 0 + 0 - 0 + 0
    BY <1>1, <2>1, <2>2 DEF Need, PortNeed
  <2> QED
    BY <2>1, <2>2, <2>3
<1>4. PoolUnreferenced /\ ReturnInv /\ PlayerInv
  BY <1>1 DEF PoolUnreferenced, ReturnInv, PlayerInv
<1>5. OwnInv /\ OpenIsFresh /\ OpenedOnce /\ AnswerInv
  BY <1>1, <1>2 DEF OwnInv, OpenIsFresh, OpenedOnce, AnswerInv, Opens
<1> QED
  BY <1>1, <1>3, <1>4, <1>5 DEF Good

\* A stray flush is remembered.
LEMMA StrayedStays ==
  ASSUME Next, strayed
  PROVE  strayed'
<1>1. ASSUME NEW t \in IoThread, Works(t) PROVE strayed'
  <2>1. CASE FlushStored(t)
    BY <2>1 DEF FlushStored
  <2>2. CASE Takes(t) \/ Returns(t)
    BY <2>2 DEF Takes, GetQueuedCompletionStatus, Returns, ReturnClientSession, SessionReset,
                SendBufferReset, ghost
  <2>3. CASE \/ AcceptCompletion(t) \/ RequestLoad(t) \/ ReadId(t) \/ WriteId(t) \/ PostRecv(t)
             \/ RecvCompletion(t) \/ EchoBack(t) \/ PreRecv(t) \/ SendCompletion(t)
    BY <2>3 DEF AcceptCompletion, RequestLoad, ReadId, WriteId, PostRecv, PostReceive,
                RecvCompletion, EchoBack, PreRecv, SendCompletion, FinishSend, ghost
  <2>4. CASE \/ DisconnectCompletion(t) \/ OnResult(t) \/ Disconnect(t) \/ DeleteIoContext(t)
             \/ FlushSend(t) \/ Drop(t) \/ WSASend(t) \/ CountSend(t) \/ DeleteSendContext(t)
             \/ SendFails(t)
    BY <2>4 DEF DisconnectCompletion, OnResult, Disconnect, DeleteIoContext, FlushSend, Drop,
                WSASend, CountSend, DeleteSendContext, SendFails, ghost
  <2> QED
    BY <1>1, <2>1, <2>2, <2>3, <2>4 DEF Works, Serves, Sends
<1>2. ASSUME NEW s \in Session, AcceptClientSessions(s) PROVE strayed'
  BY <1>2 DEF AcceptClientSessions, ghost
<1>3. CASE DoDatabaseJob
  BY <1>3 DEF DoDatabaseJob, ghost
<1> QED
  BY <1>1, <1>2, <1>3, Kinds

LEMMA NextIInv ==
  ASSUME IInv, Next
  PROVE  IInv'
<1>1. Base'
  BY NextBase DEF IInv
<1>2. ASSUME ~strayed' PROVE Good'
  <2>1. ~strayed /\ Good /\ Base /\ PortShapes' /\ SessionShapes'
    BY <1>1, <1>2, StrayedStays DEF IInv, Base, Shapes
  <2>2. ASSUME NEW t \in IoThread, Works(t) PROVE Good'
    BY <1>2, <2>1, <2>2, ThreadGood
  <2>3. ASSUME NEW s \in Session, AcceptClientSessions(s) PROVE Good'
    BY <2>1, <2>3, AcceptGood
  <2>4. CASE DoDatabaseJob
    BY <2>1, <2>4, DatabaseGood
  <2> QED
    BY <2>2, <2>3, <2>4, Kinds
<1>3. strayed' \in BOOLEAN
  BY <1>1 DEF Base, Shapes, HistoryShapes
<1> QED
  BY <1>1, <1>2, <1>3 DEF IInv

LEMMA StutterIInv ==
  ASSUME IInv, UNCHANGED vars
  PROVE  IInv'
<1>1. /\ UNCHANGED <<mFreeSessionList, mConnected, mRefCount, mPlayerId, stored, mSendPendingCount,
                     mSendBufferLock, mLock, id, mDbCompletionPort, mCompletionPort>>
      /\ UNCHANGED <<pc, at, context, old, returning, LSendRequestSessionList, crashed, strayed,
                     issued, issue, asked, answered, inherited, echoes>>
  BY DEF vars, player, connection, sending, pool, ports, thread, ghost, history
<1>2. Live' = Live
  BY <1>1 DEF Live, Contexts
<1>3. Base'
  <2>1. Shapes'
    BY <1>1 DEF IInv, Base, Shapes, PortShapes, SessionShapes, ThreadShapes, HistoryShapes
  <2>2. HandInv' /\ ContextInv'
    BY <1>1, <1>2 DEF IInv, Base, HandInv, Hand, ContextInv, Numbered
  <2>3. SendInv'
    BY <1>1 DEF IInv, Base, SendInv, LockInv, OneSend, SendsInPort, SendsInHand, Counting
  <2>4. IdInv' /\ EchoInv'
    BY <1>1 DEF IInv, Base, IdInv, IdBound, Room, ToAsk, AcceptsInPort, Asking, EchoInv, EchoOne,
                Receiving
  <2> QED
    BY <2>1, <2>2, <2>3, <2>4 DEF Base
<1>4. Good => Good'
  <2>1. EnoughReferences => EnoughReferences'
    BY <1>1 DEF EnoughReferences, Need, PortNeed, InDb, InPort, StageInPort, InHand, StageInHand
  <2>2. ReturnInv /\ PoolUnreferenced => ReturnInv' /\ PoolUnreferenced'
    BY <1>1 DEF ReturnInv, PoolUnreferenced
  <2>3. OwnInv /\ AnswerInv /\ PlayerInv => OwnInv' /\ AnswerInv' /\ PlayerInv'
    BY <1>1, <1>2 DEF OwnInv, AnswerInv, PlayerInv
  <2>4. OpenIsFresh /\ OpenedOnce => OpenIsFresh' /\ OpenedOnce'
    BY <1>1, <1>2 DEF OpenIsFresh, OpenedOnce, Opens, Fresh
  <2> QED
    BY <1>1, <2>1, <2>2, <2>3, <2>4 DEF Good
<1> QED
  BY <1>1, <1>3, <1>4 DEF IInv

LEMMA Invariance == Spec => []IInv
<1>1. Init => IInv
  BY InitBase, InitGood DEF IInv
<1>2. IInv /\ [Next]_vars => IInv'
  BY NextIInv, StutterIInv
<1> QED
  BY <1>1, <1>2, PTL DEF Spec

\* TypeOK: the types, for any number of sessions and threads.  Among them: one send of a
\* session is pending at a time, and the ids stay within those the accepts may draw; so it is
\* whether or not a flush strays (Session.cpp FlushSend and SendCompletion, ClientSession.cpp
\* AcceptCompletion).
THEOREM TypeCorrect == Spec => []TypeOK
<1>1. IInv => TypeOK
  <2> SUFFICES ASSUME IInv PROVE TypeOK
    OBVIOUS
  <2>1. PortShapes /\ SessionShapes /\ ThreadShapes /\ HistoryShapes /\ IdInv /\ EchoInv
    BY DEF IInv, Base, Shapes
  <2>2. /\ mFreeSessionList \subseteq Session
        /\ mConnected \in [Session -> {0, 1}]
        /\ mRefCount \in [Session -> Int]
        /\ mPlayerId \in [Session -> {NoPlayer} \cup FirstId .. FirstId + MaxIssue]
        /\ mSendPendingCount \in [Session -> {0, 1}]
        /\ mSendBufferLock \in [Session -> IoThread \cup {NoThread}]
        /\ mLock \in IoThread \cup {NoThread}
    BY <2>1 DEF SessionShapes, Ids
  <2>3. stored \in [Session -> 0 .. MaxEcho]
    <3>1. ASSUME NEW s \in Session PROVE stored[s] \in 0 .. MaxEcho
      <4>1. stored[s] + Cardinality(Receiving(s)) <= echoes /\ Cardinality(Receiving(s)) \in Nat
        BY <2>1, Receivers DEF EchoInv, EchoOne, Receiving
      <4>2. stored[s] \in Nat /\ echoes \in 0 .. MaxEcho /\ MaxEcho \in Nat
        BY <2>1, BoundAssumption DEF SessionShapes, HistoryShapes
      <4> QED
        BY <4>1, <4>2
    <3> QED
      BY <2>1, <3>1 DEF SessionShapes
  <2>4. id \in FirstId .. FirstId + MaxIssue
    BY <2>1, IdInRange DEF IdInv, Ids
  <2>5. Contexts \subseteq Context \cup {None}
    BY <2>1 DEF Contexts, PortShapes, ThreadShapes
  <2>6. /\ pc \in [IoThread -> Location] /\ returning \in [IoThread -> Return]
        /\ at \in [IoThread -> Session]
        /\ LSendRequestSessionList \in [IoThread -> Seq(Session)]
    BY <2>1 DEF ThreadShapes
  <2>7. old \in [IoThread -> {0} \cup FirstId .. FirstId + MaxIssue]
    <3>1. ASSUME NEW t \in IoThread PROVE old[t] \in {0} \cup FirstId .. FirstId + MaxIssue
      BY <2>1, IdInRange DEF IdInv, Ids
    <3> QED
      BY <2>1, <3>1 DEF ThreadShapes
  <2>8. /\ crashed \in BOOLEAN /\ strayed \in BOOLEAN
        /\ issued \in 0 .. MaxIssue /\ echoes \in 0 .. MaxEcho
        /\ issue \in [Session -> 0 .. MaxIssue]
        /\ asked \in [Session -> {NoPlayer} \cup FirstId .. FirstId + MaxIssue]
        /\ answered \subseteq 1 .. MaxIssue
        /\ inherited \in [Session -> {0, 1}]
    BY <2>1 DEF HistoryShapes, Ids
  <2> QED
    BY <2>2, <2>3, <2>4, <2>5, <2>6, <2>7, <2>8 DEF TypeOK
<1> QED
  BY <1>1, Invariance, PTL

\* ResultsAreOwn: until a flush strays, no result reaches a later connection of the session,
\* whatever the number of sessions, connections and threads (DatabaseThread::DoDatabaseJob,
\* IOThread::DoIocpJob, Session::ReleaseRef).
THEOREM OwnResults == Spec => []ResultsAreOwn
<1>1. IInv => ResultsAreOwn
  <2> SUFFICES ASSUME IInv, ~strayed PROVE ResultsAreOwn
    BY DEF ResultsAreOwn
  <2>1. Base /\ Good
    BY DEF IInv
  <2>2. ASSUME NEW c \in Contexts \ {None}
        PROVE  c.issue = issue[c.session] /\ c.session \notin mFreeSessionList
    <3>1. c \in Live
      BY <2>2 DEF Live
    <3>2. mRefCount[c.session] >= 1
      BY <2>1, <3>1, InUse DEF Good
    <3> QED
      BY <2>1, <3>1, <3>2 DEF Good, OwnInv, PoolUnreferenced
  <2> QED
    BY <2>1, <2>2 DEF ResultsAreOwn, Good, PlayerInv
<1> QED
  BY <1>1, Invariance, PTL

\* AssertsHold: until a flush strays, the assertions of ClientSession.cpp 88, Session.cpp 222
\* and ClientSessionManager.cpp 40 hold in every interleaving of any number of threads.
THEOREM AssertionsHold == Spec => []AssertsHold
<1>1. IInv => AssertsHold
  BY DEF IInv, Good, AssertsHold
<1> QED
  BY <1>1, Invariance, PTL
=============================================================================
