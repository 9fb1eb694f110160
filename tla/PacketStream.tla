---------------------------- MODULE PacketStream ----------------------------
(***************************************************************************)
(* The receiving side of a session of the final server (HW_08).  A         *)
(* zero-byte receive says that something arrived, PostRecv lends the free  *)
(* space of mRecvBuffer to the kernel, and RecvCompletion commits what     *)
(* came in, decrypts it and lets OnReceive cut packets out of the          *)
(* contiguous bytes.  TCP delivers the bytes in order and in pieces of any *)
(* size.                                                                   *)
(*                                                                         *)
(* A byte is a cell: which byte of which packet it is, and the sum of the  *)
(* key bytes added to it so far.  It is the byte the client's handler      *)
(* wrote if that sum is 0.  A header is a mSize and a mType; once one was  *)
(* read from other bytes than the client wrote, that header and those      *)
(* behind it may say anything, and OnReceive goes on with what they say.   *)
(* The sending side is SendPipeline; here it only moves the key position,  *)
(* which both directions share.                                            *)
(***************************************************************************)
EXTENDS Integers, Sequences, FiniteSets

CONSTANTS
  Capacity,             (* CLIENT_BUFSIZE *)
  HEADER_SIZE,
  KeySize,              (* m_KeySize, once a key was made *)
  Width,                (* the values of a byte: 256 *)
  MaxPayload,           (* bound: the longest packet body *)
  MaxPacket,            (* bound: packets sent on one connection *)
  MaxIssue              (* bound: connections in all *)

ASSUME SizeAssumption ==
  /\ Capacity \in Nat /\ HEADER_SIZE \in Nat \ {0}
  /\ KeySize \in Nat \ {0} /\ Width \in Nat /\ Width >= 2
ASSUME BoundAssumption == MaxPayload \in Nat /\ MaxPacket \in Nat /\ MaxIssue \in Nat

\* PKT_CS_CHAT does what PKT_CS_MOVE does, and a type without a handler does nothing,
\* like both of them before the key exchange.  Types outside the table are "invalid".
Type == {"PKT_CS_CRYPT", "PKT_CS_LOGIN", "PKT_CS_MOVE", "invalid"}

Header == [mSize : 0 .. MaxPayload, mType : Type]
KeyByte == 0 .. Width - 1
Key == [0 .. KeySize - 1 -> KeyByte]

VARIABLES
  mem, mARegionPointer, mARegionSize, mBRegionPointer, mBRegionSize,   (* mRecvBuffer *)
  mConnected, mIsEncrypt,
  m_EncryptCount,
  loggedIn,             (* mPlayerId # -1 *)
  replies,              (* replies are stored that FlushSend will encrypt *)
  phase,                (* where the one receive of the session is *)
  stream,               (* OnReceive's input stream: the offset of its end, and of its next byte *)
  issued,               (* connections so far *)
  crashed,              (* a CRASH_ASSERT failed *)
  sent,                 (* the headers of the packets the client sent *)
  wire,                 (* the cells that have not been received *)
  exchange,             (* the client's part of the key exchange *)
  peerKey, peerCount,   (* the client's shared key and its position *)
  handled,              (* history: the packets dispatched on this connection *)
  garbled               (* history: OnReceive read a header the client did not send *)

buffer == <<mem, mARegionPointer, mARegionSize, mBRegionPointer, mBRegionSize>>
server == <<mConnected, mIsEncrypt, m_EncryptCount, loggedIn, replies, crashed>>
client == <<sent, wire, exchange, peerKey, peerCount>>
history == <<handled, garbled>>
vars == <<buffer, server, phase, stream, issued, client, history>>

Cell == [packet : 1 .. MaxPacket, at : 1 .. HEADER_SIZE + MaxPayload, key : KeyByte]
Cleared == [packet |-> 0, at |-> 0, key |-> 0]

mRecvBuffer == INSTANCE CircularBuffer
  WITH Byte <- Cell \cup {Cleared}, Zero <- Cleared, MaxWrite <- Capacity

\* What CreateSharedKey makes of any key it receives: CrypterInit is called by nobody,
\* so m_X is 0, and a number to the power 0 is 1, low byte first.
SharedKey == [i \in 0 .. KeySize - 1 |-> IF i = 0 THEN 1 ELSE 0]

Init ==
  /\ mem = [i \in 0 .. Capacity - 1 |-> Cleared]
  /\ mARegionPointer = 0 /\ mARegionSize = 0
  /\ mBRegionPointer = mRecvBuffer!Nullptr /\ mBRegionSize = 0
  /\ mConnected = 0 /\ mIsEncrypt = FALSE /\ m_EncryptCount = 0
  /\ loggedIn = FALSE /\ replies = FALSE /\ crashed = FALSE
  /\ phase = "pooled"
  /\ stream = [end |-> 0, at |-> 0]
  /\ issued = 0
  /\ sent = << >> /\ wire = << >>
  /\ exchange = "none" /\ peerKey = SharedKey /\ peerCount = 0
  /\ handled = << >> /\ garbled = FALSE

Goto(from, to) == crashed = FALSE /\ phase = from /\ phase' = to

-----------------------------------------------------------------------------
(***************************************************************************)
(* The client: it sends packets, in the clear until the answer to its key  *)
(* exchange arrives, and waits for that answer.  Its key comes out of an   *)
(* empty vector (the server has no exchange key): it may be any key.       *)
(***************************************************************************)
ClientSend(header) ==
  LET n == Len(sent) + 1
      cell(i) == [packet |-> n, at |-> i,
                  key |-> IF exchange = "done" THEN peerKey[(peerCount + i - 1) % KeySize] ELSE 0]
  IN  /\ crashed = FALSE
      /\ phase # "pooled"
      /\ n <= MaxPacket
      /\ exchange \in (IF header.mType = "PKT_CS_CRYPT" THEN {"none"} ELSE {"none", "done"})
      /\ sent' = Append(sent, header)
      /\ wire' = wire \o [i \in 1 .. HEADER_SIZE + header.mSize |-> cell(i)]
      /\ exchange' = IF header.mType = "PKT_CS_CRYPT" THEN "asked" ELSE exchange
      /\ peerCount' = IF exchange = "done"
                      THEN (peerCount + HEADER_SIZE + header.mSize) % KeySize ELSE peerCount
      /\ UNCHANGED <<buffer, server, phase, stream, issued, peerKey, history>>

ClientKey ==
  /\ crashed = FALSE
  /\ exchange = "answered"
  /\ exchange' = "done"
  /\ peerKey' \in Key
  /\ UNCHANGED <<buffer, server, phase, stream, issued, sent, wire, peerCount, history>>

-----------------------------------------------------------------------------
(***************************************************************************)
(* The connection.                                                         *)
(***************************************************************************)
AcceptCompletion ==
  /\ Goto("pooled", "zero")
  /\ issued < MaxIssue
  /\ issued' = issued + 1
  /\ mConnected' = 1
  /\ UNCHANGED <<buffer, mIsEncrypt, m_EncryptCount, loggedIn, replies, crashed, stream,
                 client, history>>

\* DisconnectRequest by another thread: a send failed.
DisconnectRequest ==
  /\ crashed = FALSE
  /\ mConnected = 1
  /\ mConnected' = 0
  /\ UNCHANGED <<buffer, mIsEncrypt, m_EncryptCount, loggedIn, replies, crashed, phase, stream,
                 issued, client, history>>

\* Faulty: the player of the last connection stays logged in.
ResetSessionOnly ==
  /\ Goto("ended", "pooled")
  /\ mRecvBuffer!BufferReset
  /\ mIsEncrypt' = FALSE /\ replies' = FALSE
  /\ sent' = << >> /\ wire' = << >> /\ exchange' = "none" /\ peerKey' = SharedKey /\ peerCount' = 0
  /\ handled' = << >> /\ garbled' = FALSE
  /\ UNCHANGED <<mConnected, m_EncryptCount, loggedIn, crashed, stream, issued>>

\* The last reference is dropped.  The key and its position are not reset.
SessionReset ==
  /\ Goto("ended", "pooled")
  /\ mRecvBuffer!BufferReset
  /\ mIsEncrypt' = FALSE /\ loggedIn' = FALSE /\ replies' = FALSE
  /\ sent' = << >> /\ wire' = << >> /\ exchange' = "none" /\ peerKey' = SharedKey /\ peerCount' = 0
  /\ handled' = << >> /\ garbled' = FALSE
  /\ UNCHANGED <<mConnected, m_EncryptCount, crashed, stream, issued>>

-----------------------------------------------------------------------------
(***************************************************************************)
(* Receiving.                                                              *)
(***************************************************************************)
\* The zero-byte receive completes: PostRecv, which may allocate region B, or the
\* request to disconnect when there is no room.
PostRecv ==
  LET ok == mConnected = 1 /\ mRecvBuffer!GetFreeSpaceSize > 0
  IN  /\ Goto("zero", IF ok THEN "receive" ELSE "ended")
      /\ wire # << >> \/ mConnected = 0
      /\ mConnected' = IF ok THEN 1 ELSE 0
      /\ mBRegionPointer' = IF mConnected = 1 THEN mRecvBuffer!AllocateB ELSE mBRegionPointer
      /\ UNCHANGED <<mem, mARegionPointer, mARegionSize, mBRegionSize, mIsEncrypt, m_EncryptCount,
                     loggedIn, replies, crashed, stream, issued, client, history>>

\* The first line of RecvCompletion: as many bytes as the kernel had and was lent room for.
RecvCompletion ==
  /\ Goto("receive", "decrypt")
  /\ \E transferred \in 1 .. Len(wire) :
       /\ mRecvBuffer!Write(SubSeq(wire, 1, transferred))
       /\ wire' = SubSeq(wire, transferred + 1, Len(wire))
       /\ stream' = [end |-> transferred, at |-> 0]
  /\ UNCHANGED <<server, issued, sent, exchange, peerKey, peerCount, history>>

\* The receive failed, or the client closed.
ReceiveFails ==
  /\ Goto("receive", "ended")
  /\ mConnected' = 0
  /\ UNCHANGED <<buffer, mIsEncrypt, m_EncryptCount, loggedIn, replies, crashed, stream, issued,
                 client, history>>

StoredOffsets ==
  mARegionPointer .. mARegionPointer + mARegionSize - 1
    \cup mBRegionPointer .. mBRegionPointer + mBRegionSize - 1

\* What Crypter::Encrypt adds to the i-th of its bytes, one position of the key after the other.
KeyStream(i) == SharedKey[(m_EncryptCount + i) % KeySize]

\* FlushSend on another thread is about to encrypt with the same position, under a lock that
\* Decrypt does not take.
Racing == replies /\ mConnected = 1

\* Faulty: the stream goes on behind region A.
BothRegions ==
  stream' = [end |-> mRecvBuffer!GetBufferStart + mRecvBuffer!GetStoredSize,
             at |-> mRecvBuffer!GetBufferStart]

OpenStream ==
  stream' = [end |-> mRecvBuffer!GetBufferStart + mRecvBuffer!GetContiguiousBytes,
             at |-> mRecvBuffer!GetBufferStart]

\* Session::Decrypt, which encrypts as many bytes as arrived, from the front of the stored
\* ones (bytes nobody stored are not followed); and the head of OnReceive.
Decrypt ==
  LET touched == StoredOffsets \cap (mRecvBuffer!GetBufferStart .. mRecvBuffer!GetBufferStart + stream.end - 1)
  IN  /\ Goto("decrypt", "parse")
      /\ IF mIsEncrypt
         THEN \E added \in {[i \in touched |-> KeyStream(i - mRecvBuffer!GetBufferStart)]}
                            \cup (IF Racing THEN [touched -> KeyByte] ELSE {}) :
                mem' = [i \in DOMAIN mem |->
                  IF i \in touched THEN [mem[i] EXCEPT !.key = (@ + added[i]) % Width] ELSE mem[i]]
         ELSE UNCHANGED mem
      /\ IF mIsEncrypt
         THEN m_EncryptCount' \in IF Racing THEN 0 .. KeySize - 1
                                 ELSE {(m_EncryptCount + stream.end) % KeySize}
         ELSE UNCHANGED m_EncryptCount
      /\ OpenStream
      /\ UNCHANGED <<mARegionPointer, mARegionSize, mBRegionPointer, mBRegionSize, mConnected,
                     mIsEncrypt, loggedIn, replies, crashed, issued, client, history>>

\* FlushSend on another thread encrypts the stored replies with the same position.
Crypt ==
  /\ crashed = FALSE
  /\ Racing
  /\ replies' = FALSE
  /\ m_EncryptCount' \in 0 .. KeySize - 1
  /\ UNCHANGED <<buffer, mConnected, mIsEncrypt, loggedIn, crashed, phase, stream, issued,
                 client, history>>

-----------------------------------------------------------------------------
(***************************************************************************)
(* OnReceive: one turn of its loop.                                        *)
(***************************************************************************)
\* The n-th bytes from offset are those of the packet, from its byte first on, as sent.
Intact(offset, packet, first, n) ==
  \A i \in 0 .. n - 1 :
    mem[offset + i] = [packet |-> packet, at |-> first + i, key |-> 0]

HeaderComplete == stream.end - stream.at >= HEADER_SIZE
HeaderIntact == Intact(stream.at, mem[stream.at].packet, 1, HEADER_SIZE)
First == mem[stream.at].packet
HeaderReadable == HeaderComplete /\ ~garbled /\ HeaderIntact
PacketComplete == stream.end - stream.at - HEADER_SIZE >= sent[First].mSize

\* The handler of a request whose payload cannot be parsed.
Refuse == mConnected' = 0 /\ UNCHANGED <<mIsEncrypt, loggedIn, replies, crashed, exchange>>

\* The handler of a request.  A client takes one answer to its key exchange.
Request(mType) ==
  \/ /\ mType = "PKT_CS_CRYPT"
     /\ mIsEncrypt' = TRUE
     /\ exchange' = IF mConnected = 1 /\ exchange = "asked" THEN "answered" ELSE exchange
     /\ UNCHANGED <<mConnected, loggedIn, replies, crashed>>
  \/ /\ mType = "PKT_CS_LOGIN"
     /\ crashed' = (mIsEncrypt /\ loggedIn)
     /\ loggedIn' = (loggedIn \/ mIsEncrypt)
     /\ replies' = (replies \/ (mIsEncrypt /\ mConnected = 1))
     /\ UNCHANGED <<mConnected, mIsEncrypt, exchange>>
  \/ /\ mType = "PKT_CS_MOVE"
     /\ replies' = (replies \/ (mIsEncrypt /\ mConnected = 1))
     /\ UNCHANGED <<mConnected, mIsEncrypt, loggedIn, crashed, exchange>>

\* Only a payload that is not what was sent may be one that cannot be parsed.
Handle(header) ==
  \/ ~Intact(stream.at + HEADER_SIZE, First, HEADER_SIZE + 1, header.mSize) /\ Refuse
  \/ Request(header.mType)

\* A packet is dispatched, skipped in the stream and removed from the buffer.
DispatchAndRemove(length, to) ==
  /\ Goto("parse", to)
  /\ HeaderReadable /\ PacketComplete
  /\ sent[First].mType # "invalid"
  /\ Handle(sent[First])
  /\ mRecvBuffer!Remove(length)
  /\ stream' = [stream EXCEPT !.at = @ + HEADER_SIZE + sent[First].mSize]
  /\ handled' = Append(handled, First)
  /\ UNCHANGED <<m_EncryptCount, issued, sent, wire, peerKey, peerCount, garbled>>

\* Faulty: the header stays in the buffer.
BodyRemoved == DispatchAndRemove(sent[First].mSize, "parse")

\* Faulty: one packet for each receive.
OnePacketPerReceive == DispatchAndRemove(HEADER_SIZE + sent[First].mSize, "next")

Dispatch == DispatchAndRemove(HEADER_SIZE + sent[First].mSize, "parse")

\* The type of a complete packet is not in the table.
InvalidType ==
  /\ Goto("parse", "next")
  /\ HeaderReadable /\ PacketComplete
  /\ sent[First].mType = "invalid"
  /\ mConnected' = 0
  /\ UNCHANGED <<buffer, mIsEncrypt, m_EncryptCount, loggedIn, replies, crashed, stream, issued,
                 client, history>>

\* Neither ReadRaw nor the size test finds a whole packet: the loop ends.
Incomplete ==
  /\ Goto("parse", "next")
  /\ HeaderComplete => HeaderReadable /\ ~PacketComplete
  /\ UNCHANGED <<buffer, server, stream, issued, client, history>>

\* A header is read that is not what the client sent, or after one that was not.
HeaderGarbled ==
  /\ HeaderComplete /\ (garbled \/ ~HeaderIntact)
  /\ garbled' = TRUE

\* Its mSize is larger than what is there: the loop ends.
GarbledIncomplete ==
  /\ Goto("parse", "next")
  /\ HeaderGarbled
  /\ UNCHANGED <<buffer, server, stream, issued, client, handled>>

\* Its type is not in the table.
GarbledInvalidType ==
  /\ Goto("parse", "next")
  /\ HeaderGarbled
  /\ mConnected' = 0
  /\ UNCHANGED <<buffer, mIsEncrypt, m_EncryptCount, loggedIn, replies, crashed, stream, issued,
                 client, handled>>

\* It is dispatched, to the default handler or to one whose payload may be parsed.  A negative
\* mSize is not skipped in the stream, and a length below 0 is a size_t that removes everything.
GarbledDispatch ==
  /\ Goto("parse", "parse")
  /\ HeaderGarbled
  /\ \/ UNCHANGED <<mConnected, mIsEncrypt, loggedIn, replies, crashed, exchange>>
     \/ Refuse
     \/ \E mType \in Type : Request(mType)
  /\ \E mSize \in -HEADER_SIZE - 1 .. stream.end - stream.at - HEADER_SIZE :
       /\ mRecvBuffer!Remove(IF mSize < -HEADER_SIZE THEN Capacity ELSE HEADER_SIZE + mSize)
       /\ stream' = [stream EXCEPT !.at = @ + HEADER_SIZE + (IF mSize > 0 THEN mSize ELSE 0)]
  /\ UNCHANGED <<m_EncryptCount, issued, sent, wire, peerKey, peerCount, handled>>

PreRecv ==
  /\ Goto("next", IF mConnected = 1 THEN "zero" ELSE "ended")
  /\ stream' = [end |-> 0, at |-> 0]
  /\ UNCHANGED <<buffer, server, issued, client, history>>

Serve ==
  \/ RecvCompletion \/ Decrypt \/ Dispatch \/ InvalidType \/ Incomplete
  \/ GarbledDispatch \/ GarbledInvalidType \/ GarbledIncomplete \/ PreRecv

Next ==
  \/ \E header \in Header : ClientSend(header)
  \/ ClientKey \/ AcceptCompletion \/ DisconnectRequest \/ SessionReset
  \/ PostRecv \/ ReceiveFails \/ Crypt \/ Serve

Spec == Init /\ [][Next]_vars

\* TCP delivers what was sent while the connection lasts, and the I/O threads run.
FairSpec == Spec /\ WF_vars(PostRecv) /\ WF_vars(Serve)
-----------------------------------------------------------------------------
TypeOK ==
  /\ mem \in [0 .. Capacity - 1 -> Cell \cup {Cleared}]
  /\ mARegionPointer \in 0 .. Capacity /\ mARegionSize \in 0 .. Capacity
  /\ mBRegionPointer \in {mRecvBuffer!Nullptr, 0} /\ mBRegionSize \in 0 .. Capacity
  /\ mConnected \in {0, 1}
  /\ {mIsEncrypt, loggedIn, replies, crashed, garbled} \subseteq BOOLEAN
  /\ m_EncryptCount \in 0 .. KeySize - 1
  /\ phase \in {"pooled", "zero", "receive", "decrypt", "parse", "next", "ended"}
  /\ stream \in [end : 0 .. Capacity, at : 0 .. Capacity]
  /\ issued \in 0 .. MaxIssue
  /\ sent \in Seq(Header) /\ Len(sent) <= MaxPacket
  /\ wire \in Seq(Cell)
  /\ exchange \in {"none", "asked", "answered", "done"}
  /\ peerKey \in Key /\ peerCount \in 0 .. KeySize - 1
  /\ handled \in Seq(1 .. MaxPacket)

\* Until a header is garbled, however the bytes are cut into receives, wherever the buffer
\* puts them, and whatever an earlier connection of the session left in it: the packets a
\* connection's handlers get are the first ones its client sent, each once and in order
\* (OnReceive, Remove, SessionReset).
HandledInOrder == garbled \/ \A i \in DOMAIN handled : handled[i] = i

\* The packet whose first byte is the oldest one stored is stored to its end.
HeadComplete ==
  /\ mRecvBuffer!GetStoredSize >= HEADER_SIZE
  /\ LET packet == mRecvBuffer!Stored[1].packet
     IN  mRecvBuffer!GetStoredSize >= HEADER_SIZE + sent[packet].mSize

\* Until a header is garbled, when the next receive is posted OnReceive has left no packet
\* behind that it could have handled, except one that begins in region A and ends in region B.
OnlySplitPacketsWait ==
  garbled \/ (phase \in {"zero", "receive"} /\ mConnected = 1 /\ HeadComplete => mBRegionSize > 0)

\* Until a header is garbled, the CRASH_ASSERT of RequestLogin is reached only by a connection
\* that logs in twice: the player of an earlier connection of the session does not reach it.
CrashNeedsSecondLogin ==
  garbled \/ (crashed => \E i, j \in DOMAIN handled :
    i < j /\ {sent[handled[i]].mType, sent[handled[j]].mType} = {"PKT_CS_LOGIN"})

\* A packet is handled some time after it is sent, unless the connection ends, the key exchange
\* left the two sides with keys that garble a header, a login crashed the server, or a
\* packet was split between the two regions, behind which nothing is handled any more.
AllHandled ==
  \A n \in 1 .. MaxPacket :
    Len(sent) >= n ~>
      \/ \E i \in DOMAIN handled : handled[i] = n
      \/ mConnected = 0 \/ garbled \/ crashed \/ mBRegionSize > 0

\* Session.cpp:215 calls what RecvCompletion does before OnReceive the decryption: when client
\* and server share a key and a position, and all that was sent has arrived, what is stored
\* is what the client's handlers wrote.
DecryptRestores ==
  [][ /\ Decrypt
      /\ exchange = "done" /\ peerKey = SharedKey /\ ~Racing
      /\ wire = << >> /\ peerCount = (m_EncryptCount + stream.end) % KeySize
      => \A i \in StoredOffsets : mem'[i].key = 0 ]_vars
=============================================================================
