------------------------- MODULE PacketStreamProofs -------------------------
(***************************************************************************)
(* Until a header is garbled the packets of a connection reach its         *)
(* handlers each once and in order, for every size of the buffer, the      *)
(* packets and the key, and every way to cut the bytes into receives.      *)
(* Behind the packets handled so far the bytes that are stored and those   *)
(* to come are the rest of what the client sent, packet by packet; keys    *)
(* change while they lie there, and neither the regions nor the removal of *)
(* a packet disturb their order (CircularBufferProofs).  After a garbled   *)
(* header only the shapes are left, until the session is reset.            *)
(***************************************************************************)
EXTENDS PacketStream, SequenceTheorems, TLAPS

Buf == INSTANCE CircularBufferProofs
  WITH Byte <- Cell \cup {Cleared}, Zero <- Cleared, MaxWrite <- Capacity

-----------------------------------------------------------------------------
(***************************************************************************)
(* The inductive invariant.                                                *)
(***************************************************************************)
ServerShapes ==
  /\ mConnected \in {0, 1} /\ mIsEncrypt \in BOOLEAN /\ m_EncryptCount \in 0 .. KeySize - 1
  /\ loggedIn \in BOOLEAN /\ replies \in BOOLEAN /\ crashed \in BOOLEAN
  /\ phase \in {"pooled", "zero", "receive", "decrypt", "parse", "next", "ended"}
  /\ stream \in [end : 0 .. Capacity, at : 0 .. Capacity]
  /\ issued \in 0 .. MaxIssue

ClientShapes ==
  /\ sent \in Seq(Header) /\ Len(sent) <= MaxPacket
  /\ wire \in Seq(Cell)
  /\ exchange \in {"none", "asked", "answered", "done"}
  /\ peerKey \in Key /\ peerCount \in 0 .. KeySize - 1

\* What is stored was received.
CellsStored == \A i \in 1 .. Buf!GetStoredSize : Buf!Stored[i] \in Cell

\* All bytes that were sent and not removed.
Incoming == Buf!Stored \o wire

Length(packet) == HEADER_SIZE + sent[packet].mSize

\* The packets that are not handled yet lie in Incoming one behind the other, packet k
\* from place off[k] on.
Framed(off) ==
  LET rest == Len(handled) + 1 .. Len(sent)
      ends == Len(handled) + 1 .. Len(sent) + 1
  IN  /\ off \in [ends -> Nat]
      /\ off[Len(handled) + 1] = 1
      /\ off[Len(sent) + 1] = Len(Incoming) + 1
      /\ \A k \in rest : off[k + 1] = off[k] + Length(k)
      /\ \A k, m \in ends : k < m => off[k] + Length(k) <= off[m]
      /\ \A k \in rest : \A j \in 1 .. Length(k) :
           Incoming[off[k] + j - 1].packet = k /\ Incoming[off[k] + j - 1].at = j

InOrder == \A i \in DOMAIN handled : handled[i] = i

Framing ==
  /\ handled \in Seq(Nat) /\ Len(handled) <= Len(sent)
  /\ InOrder
  /\ \E off : Framed(off)

\* OnReceive could do nothing with what is in region A.
HeadWaits ==
  \/ mARegionSize < HEADER_SIZE
  \/ mARegionSize < Length(mem[mARegionPointer].packet)

\* OnReceive's stream is what is left of region A; and once region B is used, or the next
\* receive is posted, region A holds a part of one packet.
Reading ==
  /\ phase = "pooled" => mARegionSize = 0
  /\ phase = "parse" => /\ stream.end - stream.at = mARegionSize
                        /\ mARegionSize > 0 => stream.at = mARegionPointer
  /\ phase \in {"zero", "receive"} \/ (phase = "next" /\ mConnected = 1) => HeadWaits
  /\ mBRegionSize > 0 => mARegionSize > 0 /\ HeadWaits

LoginHandled ==
  loggedIn => \E i \in DOMAIN handled : sent[handled[i]].mType = "PKT_CS_LOGIN"

SecondLogin ==
  crashed => \E i, j \in DOMAIN handled :
               i < j /\ {sent[handled[i]].mType, sent[handled[j]].mType} = {"PKT_CS_LOGIN"}

\* What holds whatever the headers say; the stream of OnReceive is opened on something.
Shapes ==
  /\ ServerShapes /\ ClientShapes /\ Buf!BufferInv /\ CellsStored
  /\ handled \in Seq(1 .. MaxPacket)
  /\ phase = "decrypt" => mARegionSize > 0

Ordered == Framing /\ Reading /\ LoginHandled /\ SecondLogin

Clean == Shapes /\ Ordered

IInv == Shapes /\ garbled \in BOOLEAN /\ (garbled \/ Ordered)

-----------------------------------------------------------------------------
(***************************************************************************)
(* The receive buffer.                                                     *)
(***************************************************************************)
\* What is assumed of the buffer holds for this one.
LEMMA BufferAssumptions == Buf!CapacityAssumption /\ Buf!ZeroAssumption
BY SizeAssumption DEF Buf!CapacityAssumption, Buf!ZeroAssumption

\* mRecvBuffer is the buffer of CircularBufferProofs.
LEMMA SameBuffer ==
  /\ mRecvBuffer!GetStoredSize = Buf!GetStoredSize
  /\ mRecvBuffer!GetBufferStart = Buf!GetBufferStart
  /\ mRecvBuffer!GetContiguiousBytes = Buf!GetContiguiousBytes
  /\ mRecvBuffer!AllocateB = Buf!AllocateB
  /\ mRecvBuffer!GetFreeSpaceSize = Buf!GetFreeSpaceSize
  /\ mRecvBuffer!Nullptr = Buf!Nullptr
BY DEF mRecvBuffer!GetStoredSize, Buf!GetStoredSize, mRecvBuffer!GetBufferStart,
       Buf!GetBufferStart, mRecvBuffer!GetContiguiousBytes, Buf!GetContiguiousBytes,
       mRecvBuffer!AllocateB, Buf!AllocateB, mRecvBuffer!GetFreeSpaceSize, Buf!GetFreeSpaceSize,
       mRecvBuffer!Nullptr, Buf!Nullptr, mRecvBuffer!GetAFreeSpace, Buf!GetAFreeSpace,
       mRecvBuffer!GetSpaceBeforeA, Buf!GetSpaceBeforeA

LEMMA SameStored == mRecvBuffer!Stored = Buf!Stored
BY DEF mRecvBuffer!Stored, Buf!Stored, mRecvBuffer!GetStoredSize, Buf!GetStoredSize

LEMMA SameReset == mRecvBuffer!BufferReset => Buf!BufferReset
BY DEF mRecvBuffer!BufferReset, Buf!BufferReset, mRecvBuffer!Offset, Buf!Offset,
       mRecvBuffer!Nullptr, Buf!Nullptr

LEMMA SameWrite == ASSUME NEW bytes, mRecvBuffer!Write(bytes) PROVE Buf!Write(bytes)
BY DEF mRecvBuffer!Write, Buf!Write, mRecvBuffer!GetFreeSpaceSize, Buf!GetFreeSpaceSize,
       mRecvBuffer!AllocateB, Buf!AllocateB, mRecvBuffer!GetBuffer, Buf!GetBuffer,
       mRecvBuffer!GetAFreeSpace, Buf!GetAFreeSpace, mRecvBuffer!GetSpaceBeforeA,
       Buf!GetSpaceBeforeA, mRecvBuffer!Offset, Buf!Offset, mRecvBuffer!Nullptr, Buf!Nullptr

LEMMA SameRemove == ASSUME NEW len, mRecvBuffer!Remove(len) PROVE Buf!Remove(len)
<1>1. mRecvBuffer!RemoveFromA(len) => Buf!RemoveFromA(len)
  BY DEF mRecvBuffer!RemoveFromA, Buf!RemoveFromA
<1>2. mRecvBuffer!RemoveAndSwitch(len) => Buf!RemoveAndSwitch(len)
  BY DEF mRecvBuffer!RemoveAndSwitch, Buf!RemoveAndSwitch, mRecvBuffer!Lesser, Buf!Lesser,
         mRecvBuffer!Offset, Buf!Offset, mRecvBuffer!Nullptr, Buf!Nullptr
<1>3. mRecvBuffer!RemoveAll(len) => Buf!RemoveAll(len)
  BY DEF mRecvBuffer!RemoveAll, Buf!RemoveAll, mRecvBuffer!Nullptr, Buf!Nullptr
<1> QED
  BY <1>1, <1>2, <1>3 DEF mRecvBuffer!Remove, Buf!Remove

\* What the invariant of the buffer says.
BufferFacts ==
  /\ mem \in [0 .. Capacity - 1 -> Cell \cup {Cleared}]
  /\ mARegionPointer \in 0 .. Capacity /\ mARegionSize \in 0 .. Capacity
  /\ mBRegionPointer \in {-1, 0} /\ mBRegionSize \in 0 .. Capacity
  /\ mARegionPointer + mARegionSize <= Capacity /\ mBRegionSize <= mARegionPointer
  /\ mBRegionPointer = -1 => mBRegionSize = 0
  /\ mARegionSize = 0 => mARegionPointer = 0 /\ mBRegionPointer = -1 /\ mBRegionSize = 0

LEMMA BufferFollows == Buf!BufferInv => BufferFacts
<1> SUFFICES ASSUME Buf!BufferInv PROVE BufferFacts
  OBVIOUS
<1>1. Buf!TypeOK /\ Buf!RegionsApart /\ Buf!EmptyIsWhole
  BY DEF Buf!BufferInv
<1> QED
  BY <1>1, SizeAssumption DEF Buf!TypeOK, Buf!RegionsApart, Buf!EmptyIsWhole, Buf!Nullptr,
                              Buf!Offset, BufferFacts

LEMMA BufferFollowsAfter == Buf!BufferInv' => BufferFacts'
BY BufferFollows, PTL

\* What is stored, place by place.
StoredShape ==
  /\ Buf!GetStoredSize = mARegionSize + mBRegionSize /\ Buf!GetStoredSize \in Nat
  /\ Buf!Stored \in Seq(Cell \cup {Cleared}) /\ Len(Buf!Stored) = Buf!GetStoredSize
  /\ \A i \in 1 .. mARegionSize : Buf!Stored[i] = mem[mARegionPointer + i - 1]
  /\ \A i \in 1 .. mBRegionSize : Buf!Stored[mARegionSize + i] = mem[i - 1]

LEMMA StoredFollows == Buf!BufferInv => StoredShape
<1> SUFFICES ASSUME Buf!BufferInv PROVE StoredShape
  OBVIOUS
<1>1. Buf!StoredFacts
  BY BufferAssumptions, Buf!StoredIsSequence
<1>2. BufferFacts
  BY BufferFollows
<1>3. Buf!GetStoredSize = mARegionSize + mBRegionSize
  BY DEF Buf!GetStoredSize
<1>4. /\ Buf!GetStoredSize \in Nat
      /\ Buf!Stored \in Seq(Cell \cup {Cleared}) /\ Len(Buf!Stored) = Buf!GetStoredSize
      /\ \A i \in 1 .. Buf!GetStoredSize : Buf!Stored[i] = Buf!StoredAt(i)
  BY <1>1, SizeAssumption DEF Buf!StoredFacts
<1>5. ASSUME NEW i \in 1 .. mARegionSize PROVE Buf!Stored[i] = mem[mARegionPointer + i - 1]
  <2>1. i \in 1 .. Buf!GetStoredSize /\ i <= mARegionSize
    BY <1>2, <1>3, SizeAssumption DEF BufferFacts
  <2> QED
    BY <1>4, <2>1 DEF Buf!StoredAt
<1>6. ASSUME NEW i \in 1 .. mBRegionSize PROVE Buf!Stored[mARegionSize + i] = mem[i - 1]
  <2>1. mARegionSize + i \in 1 .. Buf!GetStoredSize /\ ~(mARegionSize + i <= mARegionSize)
    BY <1>2, <1>3, SizeAssumption DEF BufferFacts
  <2>2. mBRegionPointer = 0 /\ mBRegionPointer + (mARegionSize + i) - mARegionSize - 1 = i - 1
    BY <1>2, SizeAssumption DEF BufferFacts
  <2>3. Buf!Stored[mARegionSize + i] = Buf!StoredAt(mARegionSize + i)
    BY <1>4, <2>1
  <2> QED
    BY <2>1, <2>2, <2>3 DEF Buf!StoredAt
<1> QED
  BY <1>3, <1>4, <1>5, <1>6 DEF StoredShape

LEMMA StoredFollowsAfter == Buf!BufferInv' => StoredShape'
BY StoredFollows, PTL

\* A step that leaves the buffer alone.
LEMMA BufferKept ==
  ASSUME UNCHANGED buffer
  PROVE  /\ Buf!BufferInv => Buf!BufferInv'
         /\ Buf!Stored' = Buf!Stored /\ Buf!GetStoredSize' = Buf!GetStoredSize
BY DEF buffer, Buf!BufferInv, Buf!TypeOK, Buf!RegionsApart, Buf!EmptyIsWhole, Buf!GetStoredSize,
       Buf!GetFreeSpaceSize, Buf!AllocateB, Buf!GetAFreeSpace, Buf!GetSpaceBeforeA, Buf!Stored

\* The bytes of a connection.
LEMMA IncomingFollows ==
  ASSUME Buf!BufferInv, CellsStored, ClientShapes
  PROVE  /\ Incoming \in Seq(Cell) /\ Len(Incoming) \in Nat
         /\ Len(Incoming) = Buf!GetStoredSize + Len(wire)
         /\ \A i \in 1 .. Buf!GetStoredSize : Incoming[i] = Buf!Stored[i]
<1>1. StoredShape
  BY StoredFollows
<1>2. Buf!Stored \in Seq(Cell) /\ Len(Buf!Stored) = Buf!GetStoredSize
  BY <1>1 DEF StoredShape, CellsStored
<1>3. wire \in Seq(Cell)
  BY DEF ClientShapes
<1> QED
  BY <1>2, <1>3 DEF Incoming

\* How long a packet is.
LEMMA LengthType ==
  ASSUME ClientShapes, NEW k \in DOMAIN sent
  PROVE  /\ sent[k] \in Header /\ sent[k].mSize \in 0 .. MaxPayload /\ sent[k].mSize \in Nat
         /\ Length(k) = HEADER_SIZE + sent[k].mSize /\ Length(k) \in Nat
         /\ Length(k) > 0 /\ Length(k) >= HEADER_SIZE
<1>1. sent \in Seq(Header)
  BY DEF ClientShapes
<1>2. sent[k] \in Header
  BY <1>1
<1>3. sent[k].mSize \in 0 .. MaxPayload
  BY <1>2 DEF Header
<1> QED
  BY <1>2, <1>3, SizeAssumption, BoundAssumption DEF Length

\* Where the packets lie there are bytes.
LEMMA PlacesFollow ==
  ASSUME ClientShapes, handled \in Seq(Nat), Len(handled) <= Len(sent), Incoming \in Seq(Cell),
         NEW off, Framed(off),
         NEW k \in Len(handled) + 1 .. Len(sent), NEW j \in 1 .. Length(k)
  PROVE  off[k] + j - 1 \in 1 .. Len(Incoming)
<1>1. PICK h \in Nat, n \in Nat, total \in Nat :
        h = Len(handled) + 1 /\ n = Len(sent) + 1 /\ total = Len(Incoming)
  BY DEF ClientShapes
<1>2. /\ off \in [h .. n -> Nat] /\ off[h] = 1 /\ off[n] = total + 1
      /\ \A i, m \in h .. n : i < m => off[i] + Length(i) <= off[m]
  BY <1>1 DEF Framed
<1>3. /\ k \in h .. n /\ n \in h .. n /\ h \in h .. n /\ k < n /\ k \in Nat /\ h >= 1
      /\ \A i \in h .. n : i < n => i \in DOMAIN sent
  BY <1>1 DEF ClientShapes
<1>4. off[k] + Length(k) <= off[n] /\ Length(k) \in Nat /\ off[k] \in Nat
  BY <1>2, <1>3, LengthType
<1>5. off[k] >= 1
  <2>1. CASE k = h
    BY <1>2, <2>1
  <2>2. CASE k # h
    <3>1. h < k /\ h < n
      BY <1>1, <1>3, <2>2
    <3>2. off[h] + Length(h) <= off[k] /\ Length(h) \in Nat
      BY <1>2, <1>3, <3>1, LengthType
    <3> QED
      BY <1>2, <1>4, <3>2
  <2> QED
    BY <2>1, <2>2
<1> QED
  BY <1>1, <1>2, <1>4, <1>5

\* The oldest byte stored is the first one of the next packet to be handled.
LEMMA HeadIsNext ==
  ASSUME Buf!BufferInv, CellsStored, ClientShapes, Framing, mARegionSize > 0
  PROVE  /\ mem[mARegionPointer].packet = Len(handled) + 1
         /\ Len(handled) \in Nat /\ Len(handled) + 1 \in DOMAIN sent
         /\ Buf!Stored[1] = mem[mARegionPointer]
<1>1. BufferFacts /\ StoredShape
  BY BufferFollows, StoredFollows
<1>2. Buf!GetStoredSize > 0 /\ 1 \in 1 .. mARegionSize /\ 1 \in 1 .. Buf!GetStoredSize
  BY <1>1, SizeAssumption DEF BufferFacts, StoredShape
<1>3. Buf!Stored[1] = mem[mARegionPointer]
  <2>1. Buf!Stored[1] = mem[mARegionPointer + 1 - 1] /\ mARegionPointer + 1 - 1 = mARegionPointer
    BY <1>1, <1>2 DEF StoredShape, BufferFacts
  <2> QED
    BY <2>1
<1>4. Len(Incoming) > 0 /\ Incoming[1] = Buf!Stored[1]
  <2>1. Len(wire) \in Nat
    BY DEF ClientShapes
  <2> QED
    BY <1>1, <1>2, <2>1, IncomingFollows DEF StoredShape
<1>5. PICK off : Framed(off)
  BY DEF Framing
<1>6. Len(handled) \in Nat /\ Len(sent) \in Nat /\ Len(handled) <= Len(sent)
  BY DEF Framing, ClientShapes
<1>7. Len(handled) # Len(sent)
  <2> SUFFICES ASSUME Len(handled) = Len(sent) PROVE FALSE
    OBVIOUS
  <2>1. Len(Incoming) + 1 = 1 /\ Len(Incoming) \in Nat
    BY <1>5, IncomingFollows DEF Framed
  <2> QED
    BY <1>4, <2>1
<1>8. Len(handled) + 1 \in Len(handled) + 1 .. Len(sent) /\ Len(handled) + 1 \in DOMAIN sent
  BY <1>6, <1>7 DEF ClientShapes
<1>9. 1 \in 1 .. Length(Len(handled) + 1)
  BY <1>8, LengthType
<1>10. Incoming[1].packet = Len(handled) + 1
  <2>1. Incoming[off[Len(handled) + 1] + 1 - 1].packet = Len(handled) + 1
        /\ off[Len(handled) + 1] = 1
    BY <1>5, <1>8, <1>9 DEF Framed
  <2>2. 1 + 1 - 1 = 1
    OBVIOUS
  <2> QED
    BY <2>1, <2>2
<1> QED
  BY <1>3, <1>4, <1>6, <1>8, <1>10

-----------------------------------------------------------------------------
(***************************************************************************)
(* The steps that leave the bytes alone.                                   *)
(***************************************************************************)
LEMMA BytesKept ==
  ASSUME Clean, UNCHANGED <<buffer, sent, wire, handled>>
  PROVE  Framing' /\ (HeadWaits => HeadWaits')
<1>1. Buf!Stored' = Buf!Stored
  BY BufferKept
<1>3. Incoming' = Incoming
  BY <1>1 DEF Incoming
<1>4. \A off : Framed(off) => Framed(off)'
  BY <1>3 DEF Framed, Length
<1>5. Framing'
  BY <1>4 DEF Clean, Ordered, Framing, InOrder
<1>6. HeadWaits => HeadWaits'
  BY DEF HeadWaits, Length, buffer
<1> QED
  BY <1>5, <1>6

\* No login and no crash.
LEMMA LoginKept ==
  ASSUME Clean, UNCHANGED <<sent, handled, loggedIn, crashed>>
  PROVE  LoginHandled' /\ SecondLogin'
BY DEF Clean, Shapes, Ordered, LoginHandled, SecondLogin

\* The steps of the client, of other threads and of the loop's ends that leave the bytes alone.
Quiet ==
  \/ ClientKey \/ AcceptCompletion \/ DisconnectRequest \/ ReceiveFails \/ Crypt
  \/ InvalidType \/ PreRecv \/ UNCHANGED vars

LEMMA QuietShapes ==
  ASSUME Shapes, Quiet \/ Incomplete \/ GarbledIncomplete \/ GarbledInvalidType PROVE Shapes'
<1>1. /\ UNCHANGED <<buffer, handled>>
      /\ phase' = "decrypt" => phase = "decrypt"
  <2>1. CASE Quiet
    BY <2>1 DEF Quiet, ClientKey, AcceptCompletion, DisconnectRequest, ReceiveFails, Crypt,
                InvalidType, PreRecv, Goto, vars, history
  <2>2. CASE Incomplete \/ GarbledIncomplete \/ GarbledInvalidType
    BY <2>2 DEF Incomplete, GarbledIncomplete, GarbledInvalidType, Goto, history
  <2> QED
    BY <2>1, <2>2
<1>2. Buf!BufferInv' /\ CellsStored'
  BY <1>1, BufferKept DEF Shapes, CellsStored
<1>3. ServerShapes' /\ ClientShapes'
  <2>1. ServerShapes /\ ClientShapes
    BY DEF Shapes
  <2>2. CASE ClientKey
    BY <2>1, <2>2 DEF ServerShapes, ClientShapes, ClientKey, server
  <2>3. CASE AcceptCompletion
    BY <2>1, <2>3, BoundAssumption DEF ServerShapes, ClientShapes, AcceptCompletion, Goto, client
  <2>4. CASE DisconnectRequest \/ ReceiveFails
    BY <2>1, <2>4 DEF ServerShapes, ClientShapes, DisconnectRequest, ReceiveFails, Goto, client
  <2>5. CASE Crypt
    BY <2>1, <2>5 DEF ServerShapes, ClientShapes, Crypt, Goto, client
  <2>6. CASE InvalidType \/ GarbledInvalidType
    BY <2>1, <2>6 DEF ServerShapes, ClientShapes, InvalidType, GarbledInvalidType, Goto, client
  <2>7. CASE Incomplete \/ GarbledIncomplete
    BY <2>1, <2>7 DEF ServerShapes, ClientShapes, Incomplete, GarbledIncomplete, Goto, client, server
  <2>8. CASE PreRecv
    BY <2>1, <2>8, SizeAssumption DEF ServerShapes, ClientShapes, PreRecv, Goto, client, server
  <2>9. CASE UNCHANGED vars
    BY <2>1, <2>9 DEF ServerShapes, ClientShapes, vars, client, server
  <2> QED
    BY <2>2, <2>3, <2>4, <2>5, <2>6, <2>7, <2>8, <2>9 DEF Quiet
<1> QED
  BY <1>1, <1>2, <1>3 DEF Shapes, buffer

LEMMA QuietClean == Clean /\ Quiet => Clean'
<1> SUFFICES ASSUME Clean, Quiet PROVE Clean'
  OBVIOUS
<1>1. UNCHANGED <<buffer, sent, wire, handled, loggedIn, crashed>>
  BY DEF Quiet, ClientKey, AcceptCompletion, DisconnectRequest, ReceiveFails, Crypt, InvalidType,
         PreRecv, client, server, vars, history
<1>2. Framing' /\ (HeadWaits => HeadWaits')
  BY <1>1, BytesKept
<1>3. LoginHandled' /\ SecondLogin'
  BY <1>1, LoginKept
<1>4. Shapes'
  BY QuietShapes DEF Clean
<1>5. Reading'
  <2>1. Reading
    BY DEF Clean, Ordered
  <2>2. CASE ClientKey \/ Crypt \/ UNCHANGED vars
    BY <1>1, <1>2, <2>1, <2>2 DEF Reading, buffer, ClientKey, Crypt, vars, server
  <2>3. CASE AcceptCompletion
    BY <1>1, <1>2, <2>1, <2>3, SizeAssumption DEF Reading, HeadWaits, buffer, AcceptCompletion, Goto
  <2>4. CASE DisconnectRequest \/ ReceiveFails
    BY <1>1, <1>2, <2>1, <2>4 DEF Reading, buffer, DisconnectRequest, ReceiveFails, Goto
  <2>5. CASE InvalidType \/ PreRecv
    BY <1>1, <1>2, <2>1, <2>5 DEF Reading, buffer, InvalidType, PreRecv, Goto, server
  <2> QED
    BY <2>2, <2>3, <2>4, <2>5 DEF Quiet
<1> QED
  BY <1>2, <1>3, <1>4, <1>5 DEF Clean, Ordered

\* When no packet is found, region A is empty or holds a part of one.
LEMMA IncompleteClean == Clean /\ Incomplete => Clean'
<1> SUFFICES ASSUME Clean, Incomplete PROVE Clean'
  OBVIOUS
<1>1. UNCHANGED <<buffer, server, sent, wire, handled, loggedIn, crashed, stream, issued, client>>
      /\ phase = "parse" /\ phase' = "next"
  BY DEF Incomplete, Goto, client, server, history
<1>2. Framing' /\ (HeadWaits => HeadWaits')
  BY <1>1, BytesKept
<1>3. LoginHandled' /\ SecondLogin'
  BY <1>1, LoginKept
<1>4. Shapes'
  BY QuietShapes DEF Clean
<1>5. HeadWaits
  <2>1. stream.end - stream.at = mARegionSize /\ (mARegionSize > 0 => stream.at = mARegionPointer)
    BY <1>1 DEF Clean, Ordered, Reading
  <2>2. HeaderComplete => ~PacketComplete
    BY DEF Incomplete
  <2> SUFFICES ASSUME ~(mARegionSize < HEADER_SIZE)
               PROVE  mARegionSize < Length(mem[mARegionPointer].packet)
    BY DEF HeadWaits
  <2>3. mARegionSize \in Nat /\ mARegionSize > 0
    BY SizeAssumption, BufferFollows DEF Clean, Shapes, Ordered, BufferFacts
  <2>4. HeaderComplete
    BY <2>1, <2>3, SizeAssumption DEF HeaderComplete
  <2>5. ~(mARegionSize - HEADER_SIZE >= sent[mem[mARegionPointer].packet].mSize)
    BY <2>1, <2>2, <2>3, <2>4 DEF PacketComplete, First
  <2>6. mem[mARegionPointer].packet \in DOMAIN sent
    BY <2>3, HeadIsNext DEF Clean, Shapes, Ordered
  <2>7. sent[mem[mARegionPointer].packet].mSize \in Nat
    BY <2>6, LengthType DEF Clean, Shapes, Ordered
  <2> QED
    BY <2>3, <2>5, <2>7, SizeAssumption DEF Length
<1>6. Reading'
  BY <1>1, <1>2, <1>5 DEF Clean, Ordered, Reading, buffer
<1> QED
  BY <1>2, <1>3, <1>4, <1>6 DEF Clean, Shapes, Ordered

-----------------------------------------------------------------------------
(***************************************************************************)
(* The client sends, and a session is reset.                               *)
(***************************************************************************)
\* Behind what was there before come the cells of the packet.
LEMMA Appended ==
  ASSUME NEW S, NEW q \in Seq(S), NEW w \in Seq(S)
  PROVE  /\ q \o w \in Seq(S) /\ Len(q \o w) = Len(q) + Len(w) /\ Len(q) \in Nat /\ Len(w) \in Nat
         /\ \A i \in 1 .. Len(q) : (q \o w)[i] = q[i]
         /\ \A i \in 1 .. Len(w) : (q \o w)[Len(q) + i] = w[i]
<1>1. /\ q \o w \in Seq(S) /\ Len(q \o w) = Len(q) + Len(w) /\ Len(q) \in Nat /\ Len(w) \in Nat
      /\ \A i \in 1 .. Len(q) + Len(w) : (q \o w)[i] = IF i <= Len(q) THEN q[i] ELSE w[i - Len(q)]
  OBVIOUS
<1>2. ASSUME NEW i \in 1 .. Len(q) PROVE (q \o w)[i] = q[i]
  BY <1>1
<1>3. ASSUME NEW i \in 1 .. Len(w) PROVE (q \o w)[Len(q) + i] = w[i]
  <2>1. /\ Len(q) + i \in 1 .. Len(q) + Len(w) /\ ~(Len(q) + i <= Len(q)) /\ Len(q) + i - Len(q) = i
    BY <1>1
  <2> QED
    BY <1>1, <2>1
<1> QED
  BY <1>1, <1>2, <1>3

\* The packets of before stay framed, and the new one is the last.
LEMMA SendFrames ==
  ASSUME ClientShapes, handled \in Seq(Nat), Len(handled) <= Len(sent), Incoming \in Seq(Cell),
         NEW off, Framed(off), NEW header \in Header, NEW new \in Seq(Cell),
         sent' = Append(sent, header), handled' = handled, Incoming' = Incoming \o new,
         Len(new) = HEADER_SIZE + header.mSize,
         \A i \in 1 .. Len(new) : new[i].packet = Len(sent) + 1 /\ new[i].at = i
  PROVE  \E f : Framed(f)'
<1>a. PICK h \in Nat : h = Len(handled)
  OBVIOUS
<1>b. PICK n \in Nat : n = Len(sent) + 1
  BY DEF ClientShapes
<1>c. PICK total \in Nat : total = Len(Incoming)
  OBVIOUS
<1>d. PICK len \in Nat : len = Len(new)
  OBVIOUS
<1>1. h \in Nat /\ n \in Nat /\ h < n /\ n - 1 \in Nat /\ n - 1 = Len(sent)
      /\ total \in Nat /\ len \in Nat
  BY <1>a, <1>b DEF ClientShapes
<1>2. /\ off \in [h + 1 .. n -> Nat] /\ off[h + 1] = 1 /\ off[n] = total + 1
      /\ \A k, m \in h + 1 .. n : k < m => off[k] + Length(k) <= off[m]
      /\ \A k \in h + 1 .. n - 1 : \A j \in 1 .. Length(k) :
           Incoming[off[k] + j - 1].packet = k /\ Incoming[off[k] + j - 1].at = j
  BY <1>1, <1>a, <1>b, <1>c DEF Framed
<1>s. \A k \in h + 1 .. n - 1 : off[k + 1] = off[k] + Length(k)
  BY <1>1, <1>a DEF Framed
<1>e. off \in [h + 1 .. n -> Nat] /\ off[h + 1] = 1 /\ off[n] = total + 1
  BY <1>2
<1>3. PICK f : f = [k \in h + 1 .. n + 1 |-> IF k = n + 1 THEN off[n] + len ELSE off[k]]
  OBVIOUS
<1>4. /\ Len(sent') = n /\ sent'[n] = header /\ \A k \in 1 .. n - 1 : sent'[k] = sent[k]
      /\ Len(handled') = h
  BY <1>a, <1>b DEF ClientShapes
<1>5. /\ Incoming' \in Seq(Cell) /\ Len(Incoming') = total + len
      /\ \A i \in 1 .. total : Incoming'[i] = Incoming[i]
      /\ \A i \in 1 .. len : Incoming'[total + i] = new[i]
  <2>1. /\ Incoming \o new \in Seq(Cell) /\ Len(Incoming \o new) = Len(Incoming) + Len(new)
        /\ \A i \in 1 .. Len(Incoming) : (Incoming \o new)[i] = Incoming[i]
        /\ \A i \in 1 .. Len(new) : (Incoming \o new)[Len(Incoming) + i] = new[i]
    BY Appended
  <2> QED
    BY <1>c, <1>d, <2>1
<1>6. Length(n)' = len /\ \A k \in 1 .. n - 1 : Length(k)' = Length(k) /\ Length(k) \in Nat
  <2>1. \A k \in 1 .. n - 1 : k \in DOMAIN sent
    BY <1>1 DEF ClientShapes
  <2>2. Length(n)' = HEADER_SIZE + header.mSize
    BY <1>4 DEF Length
  <2>3. \A k \in 1 .. n - 1 : Length(k)' = Length(k)
    BY <1>4 DEF Length
  <2> QED
    BY <1>d, <2>1, <2>2, <2>3, LengthType
<1>7. \A k \in h + 1 .. n - 1 : \A j \in 1 .. Length(k) : off[k] + j - 1 \in 1 .. total
  BY <1>a, <1>1, <1>c, PlacesFollow
<1>8. /\ f \in [h + 1 .. n + 1 -> Nat] /\ f[n + 1] = off[n] + len
      /\ \A k \in h + 1 .. n : f[k] = off[k]
  <2>1. n \in h + 1 .. n /\ n + 1 \in h + 1 .. n + 1
    BY <1>1
  <2>2. off[n] + len \in Nat
    BY <1>1, <1>e, <2>1
  <2>3. \A k \in h + 1 .. n + 1 : k # n + 1 => k \in h + 1 .. n
    BY <1>1
  <2>4. \A k \in h + 1 .. n : k \in h + 1 .. n + 1 /\ k # n + 1
    BY <1>1
  <2> QED
    BY <1>2, <1>3, <2>1, <2>2, <2>3, <2>4
<1>9. f[h + 1] = 1 /\ f[n + 1] = total + len + 1
  <2>1. h + 1 \in h + 1 .. n
    BY <1>1
  <2>2. f[h + 1] = off[h + 1] /\ f[n + 1] = off[n] + len
    BY <1>8, <2>1
  <2> QED
    BY <1>1, <1>e, <2>2
<1>t. ASSUME NEW k \in h + 1 .. n PROVE f[k + 1] = f[k] + Length(k)'
  <2>1. CASE k = n
    <3>1. n \in h + 1 .. n
      BY <1>1
    <3> QED
      BY <1>6, <1>8, <2>1, <3>1
  <2>2. CASE k # n
    <3>1. k \in h + 1 .. n - 1 /\ k + 1 \in h + 1 .. n /\ k \in 1 .. n - 1
      BY <1>1, <2>2
    <3> QED
      BY <1>s, <1>6, <1>8, <3>1
  <2> QED
    BY <2>1, <2>2
<1>10. ASSUME NEW k \in h + 1 .. n + 1, NEW m \in h + 1 .. n + 1, k < m
       PROVE  f[k] + Length(k)' <= f[m]
  <2>1. CASE m # n + 1
    <3>0. k \in Int /\ m \in Int /\ h + 1 <= k /\ m <= n + 1 /\ k < m
      BY <1>1, <1>10
    <3>0a. m <= n
      BY <1>1, <2>1, <3>0
    <3>1. k \in h + 1 .. n /\ m \in h + 1 .. n /\ k \in 1 .. n - 1
      BY <1>1, <3>0, <3>0a
    <3>2. f[k] = off[k] /\ f[m] = off[m] /\ Length(k)' = Length(k)
      BY <1>6, <1>8, <3>1
    <3>3. off[k] + Length(k) <= off[m]
      BY <1>2, <1>10, <3>1
    <3> QED
      BY <3>2, <3>3
  <2>2. CASE m = n + 1 /\ k = n
    <3>1. n \in h + 1 .. n
      BY <1>1
    <3>2. f[k] = off[n] /\ f[m] = off[n] + len
      BY <1>8, <2>2, <3>1
    <3>3. Length(k)' = len /\ off[n] \in Nat
      BY <1>e, <1>6, <2>2, <3>1
    <3> QED
      BY <1>1, <3>2, <3>3
  <2>3. CASE m = n + 1 /\ k # n
    <3>1. k \in h + 1 .. n /\ n \in h + 1 .. n /\ k < n /\ k \in 1 .. n - 1
      BY <1>1, <1>10, <2>3
    <3>2. f[k] = off[k] /\ f[m] = off[n] + len /\ Length(k)' = Length(k)
      BY <1>6, <1>8, <2>3, <3>1
    <3>3. off[k] + Length(k) <= off[n]
      BY <1>2, <3>1
    <3>3a. off[n] \in Nat
      BY <1>e, <3>1
    <3>4. off[k] \in Nat
      BY <1>e, <3>1
    <3>5. Length(k) \in Nat
      BY <1>6, <3>1
    <3>6. off[n] <= off[n] + len /\ off[n] + len \in Nat
      BY ONLY <3>3a, len \in Nat
    <3>7. off[k] + Length(k) <= off[n] + len
      BY ONLY <3>3, <3>3a, <3>4, <3>5, <3>6
    <3> QED
      BY <3>2, <3>7
  <2> QED
    BY <2>1, <2>2, <2>3
<1>11. ASSUME NEW k \in h + 1 .. n, NEW j \in 1 .. Length(k)'
       PROVE  Incoming'[f[k] + j - 1].packet = k /\ Incoming'[f[k] + j - 1].at = j
  <2>1. CASE k = n
    <3>0. n \in h + 1 .. n
      BY <1>1
    <3>0a. f[k] = total + 1
      BY <1>e, <1>8, <2>1, <3>0
    <3>0b. Length(k)' = len
      BY <1>6, <2>1
    <3>1. j \in 1 .. len
      BY <3>0b
    <3>2. f[k] + j - 1 = total + j
      BY <1>1, <3>0a, <3>1
    <3>3. Incoming'[total + j] = new[j]
      BY ONLY <1>5, <3>1
    <3> QED
      BY <1>b, <1>d, <2>1, <3>1, <3>2, <3>3
  <2>2. CASE k # n
    <3>1. k \in h + 1 .. n - 1 /\ k \in 1 .. n - 1
      BY <1>1, <2>2
    <3>2. f[k] = off[k] /\ j \in 1 .. Length(k)
      BY <1>6, <1>8, <3>1
    <3>3. off[k] + j - 1 \in 1 .. total
      BY <1>7, <3>1, <3>2
    <3>4. Incoming'[off[k] + j - 1] = Incoming[off[k] + j - 1]
      BY <1>5, <3>3
    <3>5. Incoming[off[k] + j - 1].packet = k /\ Incoming[off[k] + j - 1].at = j
      BY <1>2, <3>1, <3>2
    <3> QED
      BY <3>2, <3>4, <3>5
  <2> QED
    BY <2>1, <2>2
<1>12. Framed(f)'
  BY <1>4, <1>5, <1>8, <1>9, <1>t, <1>10, <1>11 DEF Framed
<1> QED
  BY <1>12

\* A step of the client or of the kernel that leaves the stored bytes: region A still
\* begins with the packet it began with.
LEMMA HeadWaitsKept ==
  ASSUME Clean, ServerShapes', UNCHANGED <<mem, mARegionPointer, mARegionSize>>,
         \A k \in DOMAIN sent : Length(k)' = Length(k), HeadWaits
  PROVE  HeadWaits'
<1>1. CASE mARegionSize < HEADER_SIZE
  BY <1>1 DEF HeadWaits
<1>2. CASE ~(mARegionSize < HEADER_SIZE)
  <2>1. mARegionSize \in Nat /\ mARegionSize > 0
    BY <1>2, SizeAssumption, BufferFollows DEF Clean, Shapes, Ordered, BufferFacts
  <2>2. PICK k : k = mem[mARegionPointer].packet
    OBVIOUS
  <2>3. k \in DOMAIN sent
    BY <2>1, <2>2, HeadIsNext DEF Clean, Shapes, Ordered
  <2>4. mARegionSize < Length(k)
    BY <1>2, <2>2 DEF HeadWaits
  <2>5. mARegionSize' < Length(k)' /\ k = mem'[mARegionPointer'].packet
    BY <2>2, <2>3, <2>4
  <2> QED
    BY <2>5 DEF HeadWaits
<1> QED
  BY <1>1, <1>2

\* What the client sends are cells.
LEMMA ClientSends ==
  ASSUME Shapes, NEW header \in Header, ClientSend(header)
  PROVE  /\ Shapes' /\ Buf!Stored' = Buf!Stored
         /\ sent' \in Seq(Header) /\ Len(sent') = Len(sent) + 1
         /\ \A k \in DOMAIN sent : sent'[k] = sent[k]
         /\ \E new \in Seq(Cell) :
              /\ Len(new) = HEADER_SIZE + header.mSize /\ wire' = wire \o new
              /\ \A i \in 1 .. Len(new) : new[i].packet = Len(sent) + 1 /\ new[i].at = i
<1>1. PICK n \in Nat : n = Len(sent) + 1
  BY DEF Shapes, ClientShapes
<1>2. PICK len \in Nat : len = HEADER_SIZE + header.mSize
  BY SizeAssumption, BoundAssumption DEF Header
<1>3. PICK key \in [1 .. len -> KeyByte] :
        \A i \in 1 .. len :
          key[i] = IF exchange = "done" THEN peerKey[(peerCount + i - 1) % KeySize] ELSE 0
  <2> DEFINE key == [i \in 1 .. len |->
                       IF exchange = "done" THEN peerKey[(peerCount + i - 1) % KeySize] ELSE 0]
  <2>1. ASSUME NEW i \in 1 .. len PROVE key[i] \in KeyByte
    <3>1. 0 \in KeyByte
      BY SizeAssumption DEF KeyByte
    <3>2. peerCount + i - 1 \in Int /\ KeySize \in Nat \ {0}
      BY SizeAssumption DEF Shapes, ClientShapes
    <3>3. (peerCount + i - 1) % KeySize \in 0 .. KeySize - 1
      BY <3>2
    <3>4. peerKey[(peerCount + i - 1) % KeySize] \in KeyByte
      BY <3>3 DEF Shapes, ClientShapes, Key
    <3> QED
      BY <3>1, <3>4
  <2>2. key \in [1 .. len -> KeyByte]
    BY <2>1
  <2> QED
    BY <2>2
<1>4. PICK new : new = [i \in 1 .. len |-> [packet |-> n, at |-> i, key |-> key[i]]]
  OBVIOUS
<1>5. n \in 1 .. MaxPacket /\ exchange \in {"none", "asked", "answered", "done"} /\ phase # "pooled"
  BY <1>1 DEF ClientSend, Shapes, ClientShapes
<1>6. new \in Seq(Cell) /\ Len(new) = len /\ \A i \in 1 .. len : new[i].packet = n /\ new[i].at = i
  <2>1. ASSUME NEW i \in 1 .. len PROVE [packet |-> n, at |-> i, key |-> key[i]] \in Cell
    <3>1. i \in 1 .. HEADER_SIZE + MaxPayload
      BY <1>2, SizeAssumption, BoundAssumption DEF Header
    <3> QED
      BY <1>3, <1>5, <3>1 DEF Cell
  <2>2. new \in [1 .. len -> Cell]
    BY <1>4, <2>1
  <2> QED
    BY <1>4, <2>2
<1>7. /\ sent' = Append(sent, header) /\ wire' = wire \o new
      /\ UNCHANGED <<buffer, server, phase, stream, issued, peerKey, handled>>
  <2>1. new = [i \in 1 .. HEADER_SIZE + header.mSize |->
                 [packet |-> Len(sent) + 1, at |-> i,
                  key |-> IF exchange = "done" THEN peerKey[(peerCount + i - 1) % KeySize] ELSE 0]]
    BY <1>1, <1>2, <1>3, <1>4
  <2> QED
    BY <2>1 DEF ClientSend, history
<1>8. Buf!BufferInv' /\ Buf!Stored' = Buf!Stored /\ Buf!GetStoredSize' = Buf!GetStoredSize
  BY <1>7, BufferKept DEF Shapes
<1>9. CellsStored'
  BY <1>8 DEF Shapes, CellsStored
<1>13. /\ sent' \in Seq(Header) /\ Len(sent') = n /\ Len(sent) = n - 1
       /\ \A k \in DOMAIN sent : sent'[k] = sent[k]
  BY <1>1, <1>7 DEF Shapes, ClientShapes
<1>15. ServerShapes'
  BY <1>7 DEF Shapes, ServerShapes, server
<1>16. ClientShapes'
  <2>1. wire' \in Seq(Cell)
    BY <1>6, <1>7 DEF Shapes, ClientShapes
  <2>2. peerCount' \in 0 .. KeySize - 1
    <3>1. (peerCount + HEADER_SIZE + header.mSize) % KeySize \in 0 .. KeySize - 1
      <4>1. peerCount + HEADER_SIZE + header.mSize \in Int /\ KeySize \in Nat \ {0}
        BY SizeAssumption, BoundAssumption DEF Shapes, ClientShapes, Header
      <4> QED
        BY <4>1
    <3> QED
      BY <3>1 DEF Shapes, ClientShapes, ClientSend
  <2>3. exchange' \in {"none", "asked", "answered", "done"}
    BY <1>5 DEF ClientSend
  <2> QED
    BY <1>5, <1>7, <1>13, <2>1, <2>2, <2>3 DEF Shapes, ClientShapes
<1>17. Shapes'
  BY <1>7, <1>8, <1>9, <1>15, <1>16 DEF Shapes, buffer
<1> QED
  BY <1>1, <1>2, <1>6, <1>7, <1>8, <1>13, <1>17

LEMMA ClientSendClean == ASSUME Clean, NEW header \in Header, ClientSend(header) PROVE Clean'
<1>1. /\ sent' = Append(sent, header)
      /\ UNCHANGED <<buffer, server, phase, stream, issued, peerKey, handled>>
  BY DEF ClientSend, history
<1>2. PICK new \in Seq(Cell) :
        /\ Len(new) = HEADER_SIZE + header.mSize /\ wire' = wire \o new
        /\ \A i \in 1 .. Len(new) : new[i].packet = Len(sent) + 1 /\ new[i].at = i
  BY ClientSends DEF Clean
<1>8. Shapes' /\ Buf!Stored' = Buf!Stored
  BY ClientSends DEF Clean
<1>10. Incoming \in Seq(Cell) /\ Incoming' = Incoming \o new
  <2>1. Buf!Stored \in Seq(Cell)
    BY StoredFollows DEF Clean, Shapes, Ordered, StoredShape, CellsStored
  <2>2. wire \in Seq(Cell)
    BY DEF Clean, Shapes, Ordered, ClientShapes
  <2>3. (Buf!Stored \o wire) \o new = Buf!Stored \o (wire \o new)
    BY <1>2, <2>1, <2>2, ConcatAssociative
  <2> QED
    BY <1>2, <1>8, <2>1, <2>2, <2>3 DEF Incoming
<1>11. /\ handled \in Seq(Nat) /\ Len(handled) <= Len(sent) /\ InOrder
       /\ ClientShapes /\ handled' = handled
  BY <1>1 DEF Clean, Shapes, Ordered, Framing
<1>12. \E f : Framed(f)'
  <2>1. PICK off : Framed(off)
    BY DEF Clean, Ordered, Framing
  <2> QED
    BY <1>1, <1>2, <1>10, <1>11, <2>1, SendFrames
<1>13. /\ sent' \in Seq(Header) /\ Len(sent') = Len(sent) + 1
       /\ \A k \in DOMAIN sent : sent'[k] = sent[k]
  BY ClientSends DEF Clean
<1>14. Framing'
  BY <1>11, <1>12, <1>13 DEF Framing, InOrder, ClientShapes
<1>17. HeadWaits => HeadWaits'
  <2>1. \A k \in DOMAIN sent : Length(k)' = Length(k)
    BY <1>13 DEF Length
  <2> QED
    BY <1>1, <1>8, <2>1, HeadWaitsKept DEF buffer, Shapes
<1>18. Reading'
  BY <1>1, <1>17 DEF Clean, Ordered, Reading, server, buffer
<1>19. LoginHandled'
  <2> SUFFICES ASSUME loggedIn'
               PROVE  \E i \in DOMAIN handled' : sent'[handled'[i]].mType = "PKT_CS_LOGIN"
    BY DEF LoginHandled
  <2>1. PICK i \in DOMAIN handled : sent[handled[i]].mType = "PKT_CS_LOGIN"
    BY <1>1 DEF Clean, Shapes, Ordered, LoginHandled, server
  <2>2. handled[i] \in DOMAIN sent
    <3>1. handled[i] = i /\ i \in 1 .. Len(sent)
      BY <1>11 DEF InOrder, ClientShapes
    <3> QED
      BY <1>11, <3>1 DEF ClientShapes
  <2> QED
    BY <1>1, <1>13, <2>1, <2>2
<1>20. SecondLogin'
  BY <1>1 DEF SecondLogin, ClientSend, server
<1> QED
  BY <1>8, <1>14, <1>18, <1>19, <1>20 DEF Clean, Ordered

\* A pooled session is one that never had a connection.
LEMMA SessionResetClean == Shapes /\ SessionReset => Clean'
<1> SUFFICES ASSUME Shapes, SessionReset PROVE Clean'
  OBVIOUS
<1>1. Buf!BufferReset
  BY SameReset DEF SessionReset
<1>2. Buf!BufferInv'
  BY <1>1, BufferAssumptions, Buf!ResetKeepsInv DEF Shapes
<1>3. mARegionSize' = 0 /\ mBRegionSize' = 0 /\ Buf!GetStoredSize' = 0
  BY <1>1 DEF Buf!BufferReset, Buf!GetStoredSize
<1>4. /\ sent' = << >> /\ wire' = << >> /\ handled' = << >> /\ crashed' = FALSE
      /\ loggedIn' = FALSE /\ phase' = "pooled"
  BY DEF SessionReset, Goto
<1>5. Buf!Stored' = << >>
  <2>1. StoredShape'
    BY <1>2, StoredFollowsAfter
  <2> QED
    BY <1>3, <2>1 DEF StoredShape
<1>6. Incoming' = << >>
  BY <1>4, <1>5 DEF Incoming
<1>7. CellsStored'
  BY <1>3 DEF CellsStored
<1>8. Framing'
  <2>1. PICK off : off = [k \in 1 .. 1 |-> 1]
    OBVIOUS
  <2>2. Len(handled') = 0 /\ Len(sent') = 0 /\ Len(Incoming') = 0 /\ handled' \in Seq(Nat)
    BY <1>4, <1>6
  <2>3. Framed(off)'
    BY <2>1, <2>2 DEF Framed
  <2> QED
    BY <1>4, <2>2, <2>3 DEF Framing, InOrder
<1>9. ServerShapes'
  BY DEF Shapes, ServerShapes, SessionReset, Goto
<1>10. ClientShapes'
  <2>1. SharedKey \in Key
    BY SizeAssumption DEF SharedKey, Key, KeyByte
  <2> QED
    BY <2>1, SizeAssumption, BoundAssumption DEF ClientShapes, SessionReset
<1>11. Reading'
  BY <1>3, <1>4 DEF Reading
<1>12. LoginHandled' /\ SecondLogin'
  BY <1>4 DEF LoginHandled, SecondLogin
<1> QED
  BY <1>2, <1>4, <1>7, <1>8, <1>9, <1>10, <1>11, <1>12 DEF Clean, Shapes, Ordered

-----------------------------------------------------------------------------
(***************************************************************************)
(* Receiving.                                                              *)
(***************************************************************************)
\* Lending the free space may allocate region B, which holds nothing yet.
LEMMA PostRecvShapes ==
  ASSUME Shapes, PostRecv
  PROVE  /\ Shapes' /\ Incoming' = Incoming
         /\ UNCHANGED <<mem, mARegionPointer, mARegionSize, mBRegionSize, sent, wire, handled>>
         /\ UNCHANGED <<mIsEncrypt, m_EncryptCount, loggedIn, replies, crashed, stream, issued>>
         /\ phase = "zero" /\ phase' \in {"receive", "ended"}
<1>1. /\ UNCHANGED <<mem, mARegionPointer, mARegionSize, mBRegionSize, sent, wire, handled>>
      /\ UNCHANGED <<mIsEncrypt, m_EncryptCount, loggedIn, replies, crashed, stream, issued>>
      /\ UNCHANGED client
      /\ phase = "zero" /\ phase' \in {"receive", "ended"} /\ mConnected' \in {0, 1}
  BY DEF PostRecv, Goto, client, history
<1>2. BufferFacts
  BY BufferFollows DEF Shapes
<1>3. mBRegionPointer' = mBRegionPointer \/ Buf!WriteRefused(Capacity + 1)
  <2>1. mBRegionPointer' = mBRegionPointer \/ mBRegionPointer' = Buf!AllocateB
    BY SameBuffer DEF PostRecv
  <2>2. Buf!GetFreeSpaceSize < Capacity + 1
    BY <1>2, SizeAssumption
       DEF BufferFacts, Buf!GetFreeSpaceSize, Buf!AllocateB, Buf!GetAFreeSpace,
           Buf!GetSpaceBeforeA, Buf!Nullptr
  <2> QED
    BY <1>1, <2>1, <2>2 DEF Buf!WriteRefused
<1>4. Buf!BufferInv'
  <2>1. CASE mBRegionPointer' = mBRegionPointer
    BY <1>1, <2>1, BufferKept DEF Shapes, buffer
  <2>2. CASE Buf!WriteRefused(Capacity + 1)
    <3>1. Capacity + 1 \in Nat
      BY SizeAssumption
    <3> QED
      BY <2>2, <3>1, BufferAssumptions, Buf!WriteRefusedKeepsInv DEF Shapes
  <2> QED
    BY <1>3, <2>1, <2>2
<1>5. Buf!Stored' = Buf!Stored /\ Buf!GetStoredSize' = Buf!GetStoredSize
  <2>1. StoredShape /\ StoredShape'
    BY <1>4, StoredFollows, StoredFollowsAfter DEF Shapes
  <2>2. Buf!GetStoredSize' = Buf!GetStoredSize
    BY <1>1 DEF Buf!GetStoredSize
  <2>3. ASSUME NEW i \in 1 .. Len(Buf!Stored) PROVE Buf!Stored[i] = Buf!Stored'[i]
    <3>1. CASE i <= mARegionSize
      <4>1. i \in 1 .. mARegionSize /\ i \in 1 .. mARegionSize'
        BY <1>1, <1>2, <2>1, <3>1 DEF StoredShape, BufferFacts
      <4> QED
        BY <1>1, <2>1, <4>1 DEF StoredShape
    <3>2. CASE ~(i <= mARegionSize)
      <4>1. PICK j : j = i - mARegionSize
        OBVIOUS
      <4>2. j \in 1 .. mBRegionSize /\ j \in 1 .. mBRegionSize' /\ i = mARegionSize + j
        BY <1>1, <1>2, <2>1, <3>2, <4>1 DEF StoredShape, BufferFacts
      <4> QED
        BY <1>1, <2>1, <4>2 DEF StoredShape
    <3> QED
      BY <3>1, <3>2
  <2>4. Buf!Stored = Buf!Stored'
    BY <2>1, <2>2, <2>3, SeqEqual DEF StoredShape
  <2> QED
    BY <2>2, <2>4
<1>6. CellsStored'
  BY <1>5 DEF Shapes, CellsStored
<1>7. Incoming' = Incoming
  BY <1>1, <1>5 DEF Incoming
<1>8. ServerShapes' /\ ClientShapes'
  BY <1>1 DEF Shapes, ServerShapes, ClientShapes, client
<1> QED
  BY <1>1, <1>4, <1>6, <1>7, <1>8 DEF Shapes

LEMMA PostRecvClean == Clean /\ PostRecv => Clean'
<1> SUFFICES ASSUME Clean, PostRecv PROVE Clean'
  OBVIOUS
<1>1. /\ Shapes' /\ Incoming' = Incoming
      /\ UNCHANGED <<mem, mARegionPointer, mARegionSize, mBRegionSize, sent, wire, handled>>
      /\ UNCHANGED <<mIsEncrypt, m_EncryptCount, loggedIn, replies, crashed, stream, issued>>
      /\ phase = "zero" /\ phase' \in {"receive", "ended"}
  BY PostRecvShapes DEF Clean
<1>7. Framing'
  <2>2. \A off : Framed(off) => Framed(off)'
    BY <1>1 DEF Framed, Length
  <2> QED
    BY <1>1, <2>2 DEF Clean, Ordered, Framing, InOrder
<1>9. HeadWaits'
  <2>1. HeadWaits
    BY <1>1 DEF Clean, Ordered, Reading
  <2> QED
    BY <1>1, <2>1 DEF HeadWaits, Length
<1>10. Reading'
  BY <1>1, <1>9 DEF Clean, Ordered, Reading
<1>11. LoginHandled' /\ SecondLogin'
  BY <1>1, LoginKept
<1> QED
  BY <1>1, <1>7, <1>10, <1>11 DEF Clean, Ordered

\* What the kernel received goes from the wire behind the stored bytes.
LEMMA RecvCompletionShapes ==
  ASSUME Shapes, RecvCompletion
  PROVE  /\ Shapes' /\ Incoming' = Incoming
         /\ HeadWaits => (mBRegionSize' > 0 => HeadWaits')
<1>1. PICK t \in 1 .. Len(wire) :
        /\ mRecvBuffer!Write(SubSeq(wire, 1, t))
        /\ wire' = SubSeq(wire, t + 1, Len(wire))
        /\ stream' = [end |-> t, at |-> 0]
  BY DEF RecvCompletion
<1>2. /\ UNCHANGED <<server, issued, sent, exchange, peerKey, peerCount, handled>>
      /\ phase = "receive" /\ phase' = "decrypt"
  BY DEF RecvCompletion, Goto, history
<1>3. wire \in Seq(Cell) /\ Len(wire) \in Nat /\ t \in Nat /\ t > 0
  BY DEF Shapes, ClientShapes
<1>4. PICK bytes : bytes = SubSeq(wire, 1, t)
  OBVIOUS
<1>5. bytes \in Seq(Cell) /\ Len(bytes) = t /\ wire' \in Seq(Cell) /\ bytes \o wire' = wire
  <2>1. SubSeq(wire, 1, t) \o SubSeq(wire, t + 1, Len(wire)) = SubSeq(wire, 1, Len(wire))
    <3>1. 1 \in 1 .. Len(wire) + 1 /\ t \in 1 - 1 .. Len(wire) /\ Len(wire) \in t .. Len(wire)
      BY <1>1, <1>3
    <3> QED
      BY <1>3, <3>1, ConcatAdjacentSubSeq
  <2>2. SubSeq(wire, 1, Len(wire)) = wire
    BY <1>3, SubSeqFull
  <2>3. bytes \in Seq(Cell) /\ Len(bytes) = t
    <3>1. \A i \in 1 .. t : wire[i] \in Cell
      BY <1>1, <1>3
    <3> QED
      BY <1>3, <1>4, <3>1, SubSeqProperties
  <2>4. wire' \in Seq(Cell)
    <3>1. \A i \in t + 1 .. Len(wire) : wire[i] \in Cell
      BY <1>3
    <3>2. t + 1 \in Int /\ Len(wire) \in Int
      BY <1>3
    <3> QED
      BY <1>1, <3>1, <3>2, SubSeqProperties
  <2> QED
    BY <1>1, <1>4, <2>1, <2>2, <2>3, <2>4
<1>6. Buf!Write(bytes) /\ BufferFacts
  BY <1>1, <1>4, SameWrite, BufferFollows DEF Shapes
<1>7. t <= Capacity
  <2>1. Buf!GetFreeSpaceSize >= Len(bytes)
    BY <1>6 DEF Buf!Write
  <2> QED
    BY <1>3, <1>5, <1>6, <2>1, SizeAssumption
       DEF BufferFacts, Buf!GetFreeSpaceSize, Buf!AllocateB, Buf!GetAFreeSpace,
           Buf!GetSpaceBeforeA, Buf!Nullptr
<1>8. bytes \in Buf!Chunk
  <2>1. bytes \in [1 .. t -> Cell \cup {Cleared}] /\ t \in 1 .. Capacity
    BY <1>3, <1>5, <1>7, SizeAssumption
  <2> QED
    BY <2>1 DEF Buf!Chunk
<1>9. Buf!BufferInv' /\ Buf!Stored' = Buf!Stored \o bytes
  BY <1>6, <1>8, BufferAssumptions, Buf!WriteKeepsInv, Buf!WriteStores DEF Shapes
<1>10. BufferFacts' /\ StoredShape' /\ StoredShape
  BY <1>9, BufferFollowsAfter, StoredFollowsAfter, StoredFollows DEF Shapes
<1>11. Buf!Stored \in Seq(Cell)
  BY <1>10 DEF Shapes, CellsStored, StoredShape
<1>12. CellsStored'
  <2>1. Buf!Stored' \in Seq(Cell) /\ Len(Buf!Stored') = Buf!GetStoredSize'
    BY <1>5, <1>9, <1>10, <1>11 DEF StoredShape
  <2>2. \A i \in 1 .. Buf!GetStoredSize' : Buf!Stored'[i] \in Cell
    BY <2>1
  <2> QED
    BY <2>2 DEF CellsStored
<1>13. Incoming' = Incoming
  <2>1. PICK rest \in Seq(Cell) : rest = wire'
    BY <1>5
  <2>2. bytes \in Seq(Cell)
    BY <1>5
  <2>3. (Buf!Stored \o bytes) \o rest = Buf!Stored \o (bytes \o rest)
    BY <1>11, <2>2, ConcatAssociative
  <2>4. bytes \o rest = wire
    BY <1>5, <2>1
  <2> QED
    BY <1>9, <2>1, <2>3, <2>4 DEF Incoming
<1>15. ServerShapes'
  <2>1. stream' \in [end : 0 .. Capacity, at : 0 .. Capacity]
    BY <1>1, <1>3, <1>7, SizeAssumption
  <2> QED
    BY <1>2, <2>1 DEF Shapes, ServerShapes, server
<1>16. ClientShapes'
  BY <1>2, <1>5 DEF Shapes, ClientShapes
<1>17. mARegionSize' > 0
  <2>1. Len(Buf!Stored') > 0
    <3>1. Len(Buf!Stored \o bytes) = Len(Buf!Stored) + t /\ Len(Buf!Stored) \in Nat
      BY <1>5, <1>11, Appended
    <3> QED
      BY <1>3, <1>9, <3>1
  <2>2. Len(Buf!Stored') = mARegionSize' + mBRegionSize'
    BY <1>10 DEF StoredShape
  <2>3. mARegionSize' = 0 => mBRegionSize' = 0
    BY <1>10 DEF BufferFacts
  <2>4. mARegionSize' # 0
    BY <2>1, <2>2, <2>3
  <2> QED
    BY <1>10, <2>4, SizeAssumption DEF BufferFacts
<1>18. HeadWaits => (mBRegionSize' > 0 => HeadWaits')
  <2>1. CASE Buf!AllocateB = Buf!Nullptr
    BY <1>6, <1>8, <2>1, BufferAssumptions, Buf!WriteBehindA DEF Shapes
  <2>2. CASE Buf!AllocateB # Buf!Nullptr
    <3>1. /\ mARegionPointer' = mARegionPointer /\ mARegionSize' = mARegionSize
          /\ \A i \in mARegionPointer .. mARegionPointer + mARegionSize - 1 : mem'[i] = mem[i]
      BY <1>6, <1>8, <2>2, BufferAssumptions, Buf!WriteBehindB DEF Shapes
    <3>2. mem'[mARegionPointer] = mem[mARegionPointer]
      <4>1. mARegionPointer \in mARegionPointer .. mARegionPointer + mARegionSize - 1
        BY <1>6, <1>17, <3>1, SizeAssumption DEF BufferFacts
      <4> QED
        BY <3>1, <4>1
    <3> QED
      BY <1>2, <3>1, <3>2 DEF HeadWaits, Length
  <2> QED
    BY <2>1, <2>2
<1> QED
  BY <1>2, <1>9, <1>12, <1>13, <1>15, <1>16, <1>17, <1>18 DEF Shapes

LEMMA RecvCompletionClean == Clean /\ RecvCompletion => Clean'
<1> SUFFICES ASSUME Clean, RecvCompletion PROVE Clean'
  OBVIOUS
<1>1. Shapes' /\ Incoming' = Incoming /\ (HeadWaits => (mBRegionSize' > 0 => HeadWaits'))
  BY RecvCompletionShapes DEF Clean
<1>2. /\ UNCHANGED <<server, sent, handled>>
      /\ phase = "receive" /\ phase' = "decrypt"
  BY DEF RecvCompletion, Goto, history
<1>3. Framing'
  <2>1. \A off : Framed(off) => Framed(off)'
    BY <1>1, <1>2 DEF Framed, Length
  <2> QED
    BY <1>2, <2>1 DEF Clean, Ordered, Framing, InOrder
<1>4. mBRegionSize' > 0 => mARegionSize' > 0
  BY <1>1, <1>2 DEF Shapes
<1>5. Reading'
  BY <1>1, <1>2, <1>4 DEF Clean, Ordered, Reading
<1>6. LoginHandled' /\ SecondLogin'
  BY <1>2, LoginKept DEF server
<1> QED
  BY <1>1, <1>3, <1>5, <1>6 DEF Clean, Ordered

\* A cell stays a cell.
LEMMA CellRekeyed ==
  ASSUME NEW c \in Cell, NEW x \in Int
  PROVE  LET d == [c EXCEPT !.key = (@ + x) % Width]
         IN  d \in Cell /\ d.packet = c.packet /\ d.at = c.at
<1>1. c.key + x \in Int /\ Width \in Nat \ {0}
  BY SizeAssumption DEF Cell, KeyByte
<1>2. (c.key + x) % Width \in 0 .. Width - 1
  BY <1>1
<1> QED
  BY <1>2 DEF Cell, KeyByte

\* Decryption changes no more of a stored cell than its key.
LEMMA DecryptMemory ==
  ASSUME Shapes, Decrypt
  PROVE  /\ mem' \in [0 .. Capacity - 1 -> Cell \cup {Cleared}]
         /\ \A i \in 0 .. Capacity - 1 : mem'[i].packet = mem[i].packet /\ mem'[i].at = mem[i].at
         /\ \A i \in 0 .. Capacity - 1 : mem[i] \in Cell => mem'[i] \in Cell
<1>1. BufferFacts /\ StoredShape
  BY BufferFollows, StoredFollows DEF Shapes
<1>2. mem \in [0 .. Capacity - 1 -> Cell \cup {Cleared}]
  BY <1>1 DEF BufferFacts
<1>3. CASE mem' = mem
  BY <1>2, <1>3
<1>4. CASE mem' # mem
  <2>1. PICK touched, added :
          /\ touched \in SUBSET StoredOffsets
          /\ mem' = [i \in DOMAIN mem |->
               IF i \in touched THEN [mem[i] EXCEPT !.key = (@ + added[i]) % Width] ELSE mem[i]]
          /\ \A i \in touched : added[i] \in KeyByte
    <3> DEFINE start == mRecvBuffer!GetBufferStart
               touched == StoredOffsets \cap (start .. start + stream.end - 1)
               stretch == [i \in touched |-> KeyStream(i - start)]
    <3>1. PICK added \in {stretch} \cup (IF Racing THEN [touched -> KeyByte] ELSE {}) :
            mem' = [i \in DOMAIN mem |->
               IF i \in touched THEN [mem[i] EXCEPT !.key = (@ + added[i]) % Width] ELSE mem[i]]
      BY <1>4 DEF Decrypt
    <3>2. ASSUME NEW i \in touched PROVE stretch[i] \in KeyByte
      <4>1. start \in Int
        BY <1>1, SameBuffer, SizeAssumption DEF BufferFacts, Buf!GetBufferStart
      <4>2. m_EncryptCount + (i - start) \in Int /\ KeySize \in Nat \ {0}
        <5>1. i \in Int
          BY <4>1
        <5> QED
          BY <4>1, <5>1, SizeAssumption DEF Shapes, ServerShapes
      <4>3. (m_EncryptCount + (i - start)) % KeySize \in 0 .. KeySize - 1
        BY <4>2
      <4>4. SharedKey \in Key
        BY SizeAssumption DEF SharedKey, Key, KeyByte
      <4>5. SharedKey[(m_EncryptCount + (i - start)) % KeySize] \in KeyByte
        BY <4>3, <4>4 DEF Key
      <4> QED
        BY <4>5 DEF KeyStream
    <3>3. \A i \in touched : added[i] \in KeyByte
      BY <3>1, <3>2
    <3>4. touched \in SUBSET StoredOffsets
      OBVIOUS
    <3> QED
      BY <3>1, <3>3, <3>4
  <2>2. ASSUME NEW i \in 0 .. Capacity - 1, i \in StoredOffsets PROVE mem[i] \in Cell
    <3>1. CASE i \in mARegionPointer .. mARegionPointer + mARegionSize - 1
      <4>1. PICK j : j = i - mARegionPointer + 1
        OBVIOUS
      <4>2. j \in 1 .. mARegionSize /\ mARegionPointer + j - 1 = i /\ j \in 1 .. Buf!GetStoredSize
        BY <1>1, <3>1, <4>1, SizeAssumption DEF BufferFacts, StoredShape
      <4>3. Buf!Stored[j] = mem[i]
        BY <1>1, <4>2 DEF StoredShape
      <4> QED
        BY <4>2, <4>3 DEF Shapes, CellsStored
    <3>2. CASE i \in mBRegionPointer .. mBRegionPointer + mBRegionSize - 1
      <4>1. mBRegionPointer = 0
        BY <1>1, <3>2, SizeAssumption DEF BufferFacts
      <4>2. PICK j : j = i + 1
        OBVIOUS
      <4>3. j \in 1 .. mBRegionSize /\ j - 1 = i /\ mARegionSize + j \in 1 .. Buf!GetStoredSize
        BY <1>1, <3>2, <4>1, <4>2, SizeAssumption DEF BufferFacts, StoredShape
      <4>4. Buf!Stored[mARegionSize + j] = mem[i]
        BY <1>1, <4>3 DEF StoredShape
      <4> QED
        BY <4>3, <4>4 DEF Shapes, CellsStored
    <3> QED
      BY <2>2, <3>1, <3>2 DEF StoredOffsets
  <2>3. ASSUME NEW i \in 0 .. Capacity - 1
        PROVE  /\ mem'[i] \in Cell \cup {Cleared} /\ (mem[i] \in Cell => mem'[i] \in Cell)
               /\ mem'[i].packet = mem[i].packet /\ mem'[i].at = mem[i].at
    <3>1. CASE i \notin touched
      BY <1>2, <2>1, <3>1
    <3>2. CASE i \in touched
      <4>1. mem[i] \in Cell
        BY <2>1, <2>2, <3>2
      <4>2. PICK c \in Cell, x \in Int : c = mem[i] /\ x = added[i]
        BY <2>1, <3>2, <4>1, SizeAssumption DEF KeyByte
      <4>3. PICK d : d = [c EXCEPT !.key = (@ + x) % Width]
        OBVIOUS
      <4>4. mem'[i] = d
        BY <1>2, <2>1, <3>2, <4>2, <4>3
      <4>5. d \in Cell /\ d.packet = c.packet /\ d.at = c.at
        BY <4>3, CellRekeyed
      <4> QED
        BY <4>2, <4>4, <4>5
    <3> QED
      BY <3>1, <3>2
  <2>4. mem' \in [0 .. Capacity - 1 -> Cell \cup {Cleared}]
    <3>1. PICK after : after = mem'
      OBVIOUS
    <3>2. after = [i \in 0 .. Capacity - 1 |-> after[i]]
      BY <1>2, <2>1, <3>1
    <3>3. \A i \in 0 .. Capacity - 1 : after[i] \in Cell \cup {Cleared}
      BY <2>3, <3>1
    <3>4. after \in [0 .. Capacity - 1 -> Cell \cup {Cleared}]
      BY <3>2, <3>3
    <3> QED
      BY <3>1, <3>4
  <2> QED
    BY <2>3, <2>4
<1> QED
  BY <1>3, <1>4

\* The stream opened for OnReceive is region A, and the bytes lie where they lay.
LEMMA DecryptMoves ==
  ASSUME Shapes, Decrypt
  PROVE  /\ Shapes'
         /\ Len(Incoming) \in Nat /\ Len(Incoming') = Len(Incoming) /\ Incoming \in Seq(Cell)
         /\ \A i \in 1 .. Len(Incoming) :
              Incoming'[i].packet = Incoming[i].packet /\ Incoming'[i].at = Incoming[i].at
         /\ stream' = [end |-> mARegionPointer + mARegionSize, at |-> mARegionPointer]
         /\ HeadWaits => HeadWaits'
<1>1. /\ UNCHANGED <<mARegionPointer, mARegionSize, mBRegionPointer, mBRegionSize, mConnected>>
      /\ UNCHANGED <<mIsEncrypt, loggedIn, replies, crashed, issued, sent, wire, exchange>>
      /\ UNCHANGED <<peerKey, peerCount, handled>>
      /\ phase = "decrypt" /\ phase' = "parse" /\ OpenStream
  BY DEF Decrypt, Goto, client, history
<1>2. /\ mem' \in [0 .. Capacity - 1 -> Cell \cup {Cleared}]
      /\ \A i \in 0 .. Capacity - 1 : mem'[i].packet = mem[i].packet /\ mem'[i].at = mem[i].at
      /\ \A i \in 0 .. Capacity - 1 : mem[i] \in Cell => mem'[i] \in Cell
  BY DecryptMemory
<1>3. BufferFacts /\ StoredShape
  BY BufferFollows, StoredFollows DEF Shapes
<1>4. Buf!BufferInv'
  <2>1. Buf!TypeOK /\ Buf!RegionsApart /\ Buf!EmptyIsWhole
    BY DEF Shapes, Buf!BufferInv
  <2>2. Buf!TypeOK'
    BY <1>1, <1>2, <2>1 DEF Buf!TypeOK, Buf!Offset
  <2>3. Buf!RegionsApart' /\ Buf!EmptyIsWhole'
    BY <1>1, <2>1 DEF Buf!RegionsApart, Buf!EmptyIsWhole, Buf!GetStoredSize,
                      Buf!GetFreeSpaceSize, Buf!AllocateB, Buf!GetAFreeSpace, Buf!GetSpaceBeforeA
  <2> QED
    BY <2>2, <2>3 DEF Buf!BufferInv
<1>5. StoredShape' /\ Buf!GetStoredSize' = Buf!GetStoredSize
  BY <1>1, <1>4, StoredFollowsAfter DEF Buf!GetStoredSize
<1>6. PICK q, r, n : q = Buf!Stored /\ r = Buf!Stored' /\ n = Buf!GetStoredSize /\ n \in Nat
  BY <1>3 DEF StoredShape
<1>7. ASSUME NEW i \in 1 .. n
      PROVE  r[i] \in Cell /\ r[i].packet = q[i].packet /\ r[i].at = q[i].at
  <2>1. \E p \in 0 .. Capacity - 1 : q[i] = mem[p] /\ r[i] = mem'[p]
    <3>1. CASE i <= mARegionSize
      <4>1. /\ i \in 1 .. mARegionSize /\ i \in 1 .. mARegionSize'
            /\ mARegionPointer + i - 1 \in 0 .. Capacity - 1
        BY <1>1, <1>3, <3>1, SizeAssumption DEF BufferFacts
      <4>2. q[i] = mem[mARegionPointer + i - 1]
        BY <1>3, <1>6, <4>1 DEF StoredShape
      <4>3. r[i] = mem'[mARegionPointer + i - 1]
        BY <1>1, <1>5, <1>6, <4>1 DEF StoredShape
      <4> QED
        BY <4>1, <4>2, <4>3
    <3>2. CASE ~(i <= mARegionSize)
      <4>1. PICK j : j = i - mARegionSize
        OBVIOUS
      <4>2. /\ j \in 1 .. mBRegionSize /\ j \in 1 .. mBRegionSize' /\ i = mARegionSize + j
            /\ j - 1 \in 0 .. Capacity - 1
        BY <1>1, <1>3, <1>6, <3>2, <4>1, SizeAssumption DEF BufferFacts, StoredShape
      <4>3. q[i] = mem[j - 1]
        BY <1>3, <1>6, <4>2 DEF StoredShape
      <4>4. r[i] = mem'[j - 1]
        BY <1>1, <1>5, <1>6, <4>2 DEF StoredShape
      <4> QED
        BY <4>2, <4>3, <4>4
    <3> QED
      BY <3>1, <3>2
  <2>2. q[i] \in Cell
    BY <1>6 DEF Shapes, CellsStored
  <2> QED
    BY <1>2, <2>1, <2>2
<1>8. CellsStored'
  <2>1. \A i \in 1 .. Buf!GetStoredSize' : Buf!Stored'[i] \in Cell
    BY <1>5, <1>6, <1>7
  <2> QED
    BY <2>1 DEF CellsStored
<1>9. /\ q \in Seq(Cell) /\ Len(q) = n /\ r \in Seq(Cell) /\ Len(r) = n
      /\ wire \in Seq(Cell)
  <2>1. q \in Seq(Cell) /\ Len(q) = n /\ wire \in Seq(Cell)
    BY <1>3, <1>6 DEF Shapes, StoredShape, CellsStored, ClientShapes
  <2>2. r \in Seq(Cell \cup {Cleared}) /\ Len(r) = n
    BY <1>5, <1>6 DEF StoredShape
  <2>3. r \in Seq(Cell)
    BY <1>7, <2>2
  <2> QED
    BY <2>1, <2>2, <2>3
<1>10. PICK before, after, total :
         /\ total \in Nat /\ before = Incoming /\ after = Incoming' /\ total = Len(before)
         /\ Len(after) = total /\ before \in Seq(Cell)
         /\ \A i \in 1 .. total : after[i].packet = before[i].packet /\ after[i].at = before[i].at
  <2>1. PICK w \in Seq(Cell) : w = wire
    BY <1>9
  <2>2. PICK m \in Nat : m = Len(w)
    BY <2>1
  <2>3. PICK before, after : before = q \o w /\ after = r \o w
    OBVIOUS
  <2>4. /\ Len(before) = n + m /\ before \in Seq(Cell)
        /\ \A i \in 1 .. n + m : before[i] = IF i <= n THEN q[i] ELSE w[i - n]
    BY <1>9, <2>2, <2>3, ConcatProperties
  <2>5. /\ Len(after) = n + m
        /\ \A i \in 1 .. n + m : after[i] = IF i <= n THEN r[i] ELSE w[i - n]
    <3>1. /\ Len(r \o w) = Len(r) + Len(w)
          /\ \A i \in 1 .. Len(r) + Len(w) :
               (r \o w)[i] = IF i <= Len(r) THEN r[i] ELSE w[i - Len(r)]
      BY <1>9, ConcatProperties
    <3>2. after = r \o w /\ Len(r) = n /\ Len(w) = m
      BY <1>9, <2>2, <2>3
    <3> QED
      BY <3>1, <3>2
  <2>6. before = Incoming /\ after = Incoming'
    BY <1>1, <1>6, <2>1, <2>3 DEF Incoming
  <2>7. ASSUME NEW i \in 1 .. n + m
        PROVE  after[i].packet = before[i].packet /\ after[i].at = before[i].at
    <3>1. CASE i <= n
      <4>1. i \in 1 .. n
        BY <3>1
      <4> QED
        BY <1>7, <2>4, <2>5, <3>1, <4>1
    <3>2. CASE ~(i <= n)
      BY <2>4, <2>5, <3>2
    <3> QED
      BY <3>1, <3>2
  <2> QED
    BY <2>4, <2>5, <2>6, <2>7
<1>12. mARegionSize > 0 /\ mARegionPointer \in 0 .. Capacity - 1
  <2>1. mARegionSize > 0
    BY <1>1 DEF Shapes
  <2> QED
    BY <1>3, <2>1, SizeAssumption DEF BufferFacts
<1>13. stream' = [end |-> mARegionPointer + mARegionSize, at |-> mARegionPointer]
  BY <1>1, <1>12, SameBuffer DEF OpenStream, Buf!GetBufferStart, Buf!GetContiguiousBytes
<1>14. ServerShapes'
  <2>1. stream' \in [end : 0 .. Capacity, at : 0 .. Capacity]
    BY <1>3, <1>13, SizeAssumption DEF BufferFacts
  <2>2. m_EncryptCount' \in 0 .. KeySize - 1
    <3>1. m_EncryptCount \in 0 .. KeySize - 1 /\ stream.end \in 0 .. Capacity
      BY DEF Shapes, ServerShapes
    <3>2. (m_EncryptCount + stream.end) % KeySize \in 0 .. KeySize - 1
      BY <3>1, SizeAssumption
    <3>3. \/ m_EncryptCount' = m_EncryptCount
          \/ m_EncryptCount' \in IF Racing THEN 0 .. KeySize - 1
                                 ELSE {(m_EncryptCount + stream.end) % KeySize}
      BY DEF Decrypt
    <3> QED
      BY <3>1, <3>2, <3>3
  <2> QED
    BY <1>1, <2>1, <2>2 DEF Shapes, ServerShapes
<1>15. ClientShapes'
  BY <1>1 DEF Shapes, ClientShapes
<1>16. HeadWaits => HeadWaits'
  BY <1>1, <1>2, <1>12 DEF HeadWaits, Length
<1> QED
  BY <1>1, <1>4, <1>8, <1>10, <1>13, <1>14, <1>15, <1>16 DEF Shapes

LEMMA DecryptClean == Clean /\ Decrypt => Clean'
<1> SUFFICES ASSUME Clean, Decrypt PROVE Clean'
  OBVIOUS
<1>1. /\ UNCHANGED <<mARegionPointer, mARegionSize, mBRegionSize, mConnected, sent, handled>>
      /\ UNCHANGED <<loggedIn, crashed>>
      /\ phase = "decrypt" /\ phase' = "parse"
  BY DEF Decrypt, Goto, client, history
<1>2. BufferFacts
  BY BufferFollows DEF Clean, Shapes
<1>10. /\ Shapes'
       /\ Len(Incoming) \in Nat /\ Len(Incoming') = Len(Incoming) /\ Incoming \in Seq(Cell)
       /\ \A i \in 1 .. Len(Incoming) :
            Incoming'[i].packet = Incoming[i].packet /\ Incoming'[i].at = Incoming[i].at
       /\ stream' = [end |-> mARegionPointer + mARegionSize, at |-> mARegionPointer]
       /\ HeadWaits => HeadWaits'
  BY DecryptMoves DEF Clean
<1>11. Framing'
  <2>1. PICK off : Framed(off)
    BY DEF Clean, Ordered, Framing
  <2>2. ASSUME NEW k \in Len(handled) + 1 .. Len(sent), NEW j \in 1 .. Length(k)
        PROVE  Incoming'[off[k] + j - 1].packet = k /\ Incoming'[off[k] + j - 1].at = j
    <3>1. off[k] + j - 1 \in 1 .. Len(Incoming)
      BY <1>10, <2>1, PlacesFollow DEF Clean, Shapes, Ordered, Framing
    <3>2. Incoming[off[k] + j - 1].packet = k /\ Incoming[off[k] + j - 1].at = j
      BY <2>1 DEF Framed
    <3> QED
      BY <1>10, <3>1, <3>2
  <2>3. \A k : Length(k)' = Length(k)
    BY <1>1 DEF Length
  <2>4. /\ off \in [Len(handled) + 1 .. Len(sent) + 1 -> Nat]
        /\ off[Len(handled) + 1] = 1
        /\ off[Len(sent) + 1] = Len(Incoming') + 1
        /\ \A k \in Len(handled) + 1 .. Len(sent) : off[k + 1] = off[k] + Length(k)
        /\ \A k, m \in Len(handled) + 1 .. Len(sent) + 1 : k < m => off[k] + Length(k) <= off[m]
    BY <1>10, <2>1 DEF Framed
  <2>5. Framed(off)'
    BY <1>1, <1>10, <2>2, <2>3, <2>4 DEF Framed
  <2> QED
    BY <1>1, <2>5 DEF Clean, Ordered, Framing, InOrder
<1>17. Reading'
  <2>1. stream'.end - stream'.at = mARegionSize /\ stream'.at = mARegionPointer
    BY <1>2, <1>10, SizeAssumption DEF BufferFacts
  <2> QED
    BY <1>1, <1>10, <2>1 DEF Clean, Ordered, Reading
<1>18. LoginHandled' /\ SecondLogin'
  BY <1>1, LoginKept
<1> QED
  BY <1>10, <1>11, <1>17, <1>18 DEF Clean, Ordered

-----------------------------------------------------------------------------
(***************************************************************************)
(* A packet is handled and removed.                                        *)
(***************************************************************************)
\* The packet at the front of region A is the next one, and region B is unused.
LEMMA DispatchReads ==
  ASSUME Clean, Dispatch
  PROVE  /\ First = Len(handled) + 1 /\ First \in DOMAIN sent /\ Length(First) \in Nat
         /\ Length(First) > 0 /\ Length(First) = HEADER_SIZE + sent[First].mSize
         /\ mARegionSize >= Length(First) /\ mBRegionSize = 0
         /\ stream.at = mARegionPointer /\ stream.end - stream.at = mARegionSize
<1>1. HeaderComplete /\ PacketComplete /\ phase = "parse"
  BY DEF Dispatch, DispatchAndRemove, HeaderReadable, Goto
<1>2. BufferFacts
  BY BufferFollows DEF Clean, Shapes, Ordered
<1>3. /\ stream.end - stream.at = mARegionSize
      /\ mARegionSize > 0 => stream.at = mARegionPointer
  BY <1>1 DEF Clean, Ordered, Reading
<1>4. mARegionSize >= HEADER_SIZE /\ mARegionSize > 0
  BY <1>1, <1>2, <1>3, SizeAssumption DEF HeaderComplete, BufferFacts
<1>5. First = mem[mARegionPointer].packet
  BY <1>3, <1>4 DEF First
<1>6. First = Len(handled) + 1 /\ First \in DOMAIN sent
  BY <1>4, <1>5, HeadIsNext DEF Clean, Shapes, Ordered
<1>7. PICK k : k = First
  OBVIOUS
<1>8. /\ Length(k) = HEADER_SIZE + sent[k].mSize /\ Length(k) \in Nat /\ Length(k) > 0
      /\ sent[k].mSize \in Nat
  BY <1>6, <1>7, LengthType DEF Clean, Shapes, Ordered
<1>9. mARegionSize >= Length(k)
  BY <1>1, <1>2, <1>3, <1>7, <1>8, SizeAssumption DEF PacketComplete, BufferFacts
<1>10. ~HeadWaits
  BY <1>2, <1>4, <1>5, <1>7, <1>8, <1>9, SizeAssumption DEF HeadWaits, BufferFacts
<1>11. mBRegionSize = 0
  BY <1>2, <1>10, SizeAssumption DEF Clean, Ordered, Reading, BufferFacts
<1> QED
  BY <1>3, <1>4, <1>6, <1>7, <1>8, <1>9, <1>11

\* Removing no more than region A holds, B being unused.
LEMMA RemovedFront ==
  ASSUME Buf!BufferInv, NEW len \in Nat, len > 0, len <= mARegionSize, mBRegionSize = 0,
         mRecvBuffer!Remove(len)
  PROVE  /\ Buf!BufferInv' /\ mARegionSize' = mARegionSize - len /\ mBRegionSize' = 0
         /\ mARegionSize' > 0 => mARegionPointer' = mARegionPointer + len
         /\ Buf!GetStoredSize = mARegionSize /\ Buf!GetStoredSize' = mARegionSize - len
         /\ \A i \in 1 .. mARegionSize - len : Buf!Stored'[i] = Buf!Stored[len + i]
<1>1. Buf!Remove(len) /\ BufferFacts /\ StoredShape
  BY SameRemove, BufferFollows, StoredFollows
<1>2. Buf!BufferInv'
  BY <1>1, BufferAssumptions, Buf!RemoveKeepsInv
<1>3. StoredShape'
  BY <1>2, StoredFollowsAfter
<1>4. /\ mem' = mem /\ mARegionSize' = mARegionSize - len /\ mBRegionSize' = 0
      /\ mARegionSize' > 0 => mARegionPointer' = mARegionPointer + len
  <2>1. CASE Buf!RemoveFromA(len)
    BY <2>1 DEF Buf!RemoveFromA
  <2>2. CASE Buf!RemoveAndSwitch(len)
    BY <1>1, <2>2, SizeAssumption DEF Buf!RemoveAndSwitch, Buf!Lesser, BufferFacts
  <2>3. CASE Buf!RemoveAll(len)
    <3>1. len = mARegionSize
      BY <1>1, <2>3, SizeAssumption DEF Buf!RemoveAll, BufferFacts
    <3> QED
      BY <1>1, <2>3, <3>1, SizeAssumption DEF Buf!RemoveAll, BufferFacts
  <2> QED
    BY <1>1, <2>1, <2>2, <2>3 DEF Buf!Remove
<1>5. Buf!GetStoredSize = mARegionSize /\ Buf!GetStoredSize' = mARegionSize - len
  BY <1>1, <1>4, SizeAssumption DEF Buf!GetStoredSize, BufferFacts
<1>6. ASSUME NEW i \in 1 .. mARegionSize - len PROVE Buf!Stored'[i] = Buf!Stored[len + i]
  <2>1. /\ len + i \in 1 .. mARegionSize /\ i \in 1 .. mARegionSize' /\ mARegionSize' > 0
        /\ mARegionPointer + len + i - 1 = mARegionPointer + (len + i) - 1
    BY <1>1, <1>4, SizeAssumption DEF BufferFacts
  <2>2. Buf!Stored[len + i] = mem[mARegionPointer + (len + i) - 1]
    BY <1>1, <2>1 DEF StoredShape
  <2>3. Buf!Stored'[i] = mem'[mARegionPointer' + i - 1]
    BY <1>3, <2>1 DEF StoredShape
  <2> QED
    BY <1>4, <2>1, <2>2, <2>3
<1> QED
  BY <1>2, <1>4, <1>5, <1>6

\* Behind a packet that is handled and removed the others lie as they lay.
LEMMA HandledFrames ==
  ASSUME ClientShapes, handled \in Seq(Nat), Incoming \in Seq(Cell),
         NEW off, Framed(off), NEW h \in DOMAIN sent, h = Len(handled) + 1,
         sent' = sent, handled' = Append(handled, h), Len(Incoming') \in Nat,
         Len(Incoming') = Len(Incoming) - Length(h),
         \A i \in 1 .. Len(Incoming') : Incoming'[i] = Incoming[Length(h) + i]
  PROVE  \E f : Framed(f)'
<1>1. PICK n \in Nat, total \in Nat, len \in Nat :
        n = Len(sent) + 1 /\ total = Len(Incoming) /\ len = Length(h)
  BY LengthType DEF ClientShapes
<1>2. /\ h \in Nat /\ h >= 1 /\ h < n /\ len > 0
      /\ h \in h .. n /\ n \in h .. n /\ h + 1 \in h .. n
  BY <1>1, LengthType DEF ClientShapes
<1>d. DOMAIN sent = 1 .. n - 1
  BY <1>1 DEF ClientShapes
<1>3. /\ off \in [h .. n -> Nat] /\ off[h] = 1 /\ off[n] = total + 1
  BY <1>1 DEF Framed
<1>4. /\ \A k \in h .. n - 1 : off[k + 1] = off[k] + Length(k)
      /\ \A k, m \in h .. n : k < m => off[k] + Length(k) <= off[m]
  BY <1>1 DEF Framed
<1>5. \A k \in h .. n - 1 : \A j \in 1 .. Length(k) :
        /\ Incoming[off[k] + j - 1].packet = k /\ Incoming[off[k] + j - 1].at = j
        /\ off[k] + j - 1 \in 1 .. total
  <2>1. Len(handled) <= Len(sent) /\ n - 1 = Len(sent)
    BY <1>1, <1>2 DEF ClientShapes
  <2>2. \A k \in h .. n - 1 : \A j \in 1 .. Length(k) : off[k] + j - 1 \in 1 .. total
    BY <1>1, <2>1, PlacesFollow
  <2>3. \A k \in h .. n - 1 : \A j \in 1 .. Length(k) :
          Incoming[off[k] + j - 1].packet = k /\ Incoming[off[k] + j - 1].at = j
    BY <1>1, <2>1 DEF Framed
  <2> QED
    BY <2>2, <2>3
<1>6. Len(sent') = n - 1 /\ Len(handled') = h /\ \A k : Length(k)' = Length(k)
  BY <1>1 DEF ClientShapes, Length
<1>7. Len(Incoming') = total - len /\ \A i \in 1 .. total - len : Incoming'[i] = Incoming[len + i]
  BY <1>1
<1>8. \A k \in h + 1 .. n : k \in h .. n /\ off[k] \in Nat /\ off[k] >= len + 1
  <2> SUFFICES ASSUME NEW k \in h + 1 .. n PROVE k \in h .. n /\ off[k] \in Nat /\ off[k] >= len + 1
    OBVIOUS
  <2>1. k \in h .. n /\ h < k
    BY <1>2
  <2>2. off[h] + Length(h) <= off[k]
    BY <1>2, <1>4, <2>1
  <2> QED
    <3>1. off[k] \in Nat
      BY <1>3, <2>1
    <3>2. 1 + len <= off[k]
      BY <1>1, <1>3, <2>2
    <3> QED
      BY <1>1, <2>1, <3>1, <3>2
<1>9. PICK f : f = [k \in h + 1 .. n |-> off[k] - len]
  OBVIOUS
<1>10. f \in [h + 1 .. n -> Nat] /\ \A k \in h + 1 .. n : f[k] = off[k] - len
  BY <1>8, <1>9
<1>11. f[h + 1] = 1 /\ f[n] = total - len + 1
  <2>1. h + 1 \in h + 1 .. n /\ n \in h + 1 .. n /\ h \in h .. n - 1
    BY <1>2
  <2>2. off[h + 1] = off[h] + len
    BY <1>1, <1>4, <2>1
  <2>3. f[h + 1] = off[h + 1] - len /\ f[n] = off[n] - len
    BY <1>10, <2>1
  <2>4. off[h + 1] = 1 + len /\ off[n] = total + 1
    BY <1>3, <2>2
  <2> QED
    BY <2>3, <2>4
<1>12. ASSUME NEW k \in h + 1 .. n - 1 PROVE f[k + 1] = f[k] + Length(k)
  <2>1. k \in h + 1 .. n /\ k + 1 \in h + 1 .. n /\ k \in h .. n - 1 /\ k \in DOMAIN sent
    BY <1>1, <1>2, <1>d
  <2>2. off[k + 1] = off[k] + Length(k)
    BY <1>4, <2>1
  <2>3. f[k + 1] = off[k + 1] - len /\ f[k] = off[k] - len /\ off[k] \in Nat
    BY <1>8, <1>10, <2>1
  <2>4. Length(k) \in Nat
    BY <2>1, LengthType
  <2> QED
    BY <2>2, <2>3, <2>4
<1>13. ASSUME NEW k \in h + 1 .. n, NEW m \in h + 1 .. n, k < m PROVE f[k] + Length(k) <= f[m]
  <2>1. k \in h .. n /\ m \in h .. n
    BY <1>8
  <2>2. off[k] + Length(k) <= off[m]
    BY <1>4, <1>13, <2>1
  <2>3. k \in DOMAIN sent
    BY <1>1, <1>2, <1>13, <1>d
  <2>4. Length(k) \in Nat /\ off[k] \in Nat /\ off[m] \in Nat
    BY <1>8, <2>3, LengthType
  <2>5. f[k] = off[k] - len /\ f[m] = off[m] - len
    BY <1>10
  <2>6. PICK a \in Nat, b \in Nat, c \in Nat : a = off[k] /\ b = off[m] /\ c = Length(k)
    BY <2>4
  <2>7. a - len + c <= b - len
    <3>1. a + c <= b /\ len \in Nat
      BY <2>2, <2>6
    <3> QED
      BY ONLY <2>6, <3>1
  <2> QED
    BY <2>5, <2>6, <2>7
<1>14. ASSUME NEW k \in h + 1 .. n - 1, NEW j \in 1 .. Length(k)
       PROVE  Incoming'[f[k] + j - 1].packet = k /\ Incoming'[f[k] + j - 1].at = j
  <2>1. k \in h + 1 .. n /\ k \in h .. n - 1 /\ k \in DOMAIN sent
    BY <1>1, <1>2, <1>d
  <2>2. /\ Incoming[off[k] + j - 1].packet = k /\ Incoming[off[k] + j - 1].at = j
        /\ off[k] + j - 1 \in 1 .. total
    BY <1>5, <2>1
  <2>3. f[k] = off[k] - len /\ off[k] \in Nat /\ off[k] >= len + 1 /\ j \in Nat /\ j >= 1
    BY <1>8, <1>10, <2>1, LengthType
  <2>4. PICK a \in Nat : a = off[k]
    BY <2>3
  <2>5. a + j - 1 \in 1 .. total /\ a >= len + 1 /\ f[k] = a - len
    BY <2>2, <2>3, <2>4
  <2>6. a - len + j - 1 \in 1 .. total - len /\ len + (a - len + j - 1) = a + j - 1
    BY <2>3, <2>5
  <2>7. f[k] + j - 1 \in 1 .. total - len /\ len + (f[k] + j - 1) = off[k] + j - 1
    BY <2>4, <2>5, <2>6
  <2>8. Incoming'[f[k] + j - 1] = Incoming[off[k] + j - 1]
    BY <1>7, <2>7
  <2> QED
    BY <2>2, <2>8
<1>15. Framed(f)'
  <2>1. /\ f \in [Len(handled') + 1 .. Len(sent') + 1 -> Nat]
        /\ f[Len(handled') + 1] = 1 /\ f[Len(sent') + 1] = Len(Incoming') + 1
    BY <1>1, <1>2, <1>6, <1>7, <1>10, <1>11
  <2>2. \A k \in Len(handled') + 1 .. Len(sent') : f[k + 1] = f[k] + Length(k)'
    BY <1>6, <1>12
  <2>3. Len(sent') + 1 = n
    BY <1>1, <1>6
  <2>4. \A k, m \in Len(handled') + 1 .. Len(sent') + 1 : k < m => f[k] + Length(k)' <= f[m]
    BY <1>6, <1>13, <2>3
  <2>5. \A k \in Len(handled') + 1 .. Len(sent') : \A j \in 1 .. Length(k)' :
          Incoming'[f[k] + j - 1].packet = k /\ Incoming'[f[k] + j - 1].at = j
    BY <1>6, <1>14
  <2> QED
    BY <2>1, <2>2, <2>4, <2>5 DEF Framed
<1> QED
  BY <1>15

LEMMA DispatchClean == Clean /\ Dispatch => Clean'
<1> SUFFICES ASSUME Clean, Dispatch PROVE Clean'
  OBVIOUS
<1>1. /\ Goto("parse", "parse") /\ Handle(sent[First])
      /\ mRecvBuffer!Remove(HEADER_SIZE + sent[First].mSize)
      /\ stream' = [stream EXCEPT !.at = @ + HEADER_SIZE + sent[First].mSize]
      /\ handled' = Append(handled, First)
      /\ UNCHANGED <<m_EncryptCount, issued, sent, wire, peerKey, peerCount>>
  BY DEF Dispatch, DispatchAndRemove
<1>2. PICK h, len \in Nat : h = First /\ len = Length(h)
  BY DispatchReads
<1>3. /\ h = Len(handled) + 1 /\ h \in DOMAIN sent /\ len > 0 /\ len = HEADER_SIZE + sent[h].mSize
      /\ mARegionSize >= len /\ mBRegionSize = 0
      /\ stream.at = mARegionPointer /\ stream.end - stream.at = mARegionSize
  BY <1>2, DispatchReads
<1>4. BufferFacts /\ StoredShape
  BY BufferFollows, StoredFollows DEF Clean, Shapes, Ordered
<1>5. PICK a \in Nat : a = mARegionSize
  BY <1>4, SizeAssumption DEF BufferFacts
<1>6. /\ Buf!BufferInv' /\ mARegionSize' = a - len /\ mBRegionSize' = 0
      /\ mARegionSize' > 0 => mARegionPointer' = mARegionPointer + len
      /\ Buf!GetStoredSize = a /\ Buf!GetStoredSize' = a - len
      /\ \A i \in 1 .. a - len : Buf!Stored'[i] = Buf!Stored[len + i]
  BY <1>1, <1>2, <1>3, <1>5, RemovedFront DEF Clean, Shapes, Ordered
<1>7. PICK q, r, w : q = Buf!Stored /\ r = Buf!Stored' /\ w = wire
  OBVIOUS
<1>8. q \in Seq(Cell) /\ Len(q) = a /\ w \in Seq(Cell)
  BY <1>4, <1>6, <1>7 DEF Clean, Shapes, Ordered, StoredShape, CellsStored, ClientShapes
<1>9. /\ r \in Seq(Cell) /\ Len(r) = a - len
      /\ \A i \in 1 .. a - len : r[i] \in Cell /\ r[i] = q[len + i]
  <2>1. \A i \in 1 .. a - len : len + i \in 1 .. a
    OBVIOUS
  <2>2. \A i \in 1 .. a - len : r[i] \in Cell /\ r[i] = q[len + i]
    BY <1>6, <1>7, <1>8, <2>1
  <2>3. StoredShape'
    BY <1>6, StoredFollowsAfter
  <2>4. r \in Seq(Cell \cup {Cleared}) /\ Len(r) = a - len
    BY <1>6, <1>7, <2>3 DEF StoredShape
  <2> QED
    BY <2>2, <2>4
<1>10. CellsStored'
  <2>1. \A i \in 1 .. Buf!GetStoredSize' : Buf!Stored'[i] \in Cell
    BY <1>6, <1>7, <1>9
  <2> QED
    BY <2>1 DEF CellsStored
<1>11. /\ Incoming \in Seq(Cell) /\ Len(Incoming') \in Nat
       /\ Len(Incoming') = Len(Incoming) - len
       /\ \A i \in 1 .. Len(Incoming') : Incoming'[i] = Incoming[len + i]
  <2>1. PICK m \in Nat : m = Len(w)
    BY <1>8
  <2>2. Incoming = q \o w /\ Incoming' = r \o w
    BY <1>1, <1>7 DEF Incoming
  <2>3. /\ q \o w \in Seq(Cell) /\ Len(q \o w) = a + m
        /\ \A i \in 1 .. a + m : (q \o w)[i] = IF i <= a THEN q[i] ELSE w[i - a]
    BY <1>8, <2>1, ConcatProperties
  <2>4. PICK b \in Nat : b = a - len
    BY <1>3, <1>5
  <2>5. Len(r) = b
    BY <1>9, <2>4
  <2>6. /\ Len(r \o w) = b + m
        /\ \A i \in 1 .. b + m : (r \o w)[i] = IF i <= b THEN r[i] ELSE w[i - b]
    BY <1>8, <1>9, <2>1, <2>5, ConcatProperties
  <2>7. ASSUME NEW i \in 1 .. b + m PROVE (r \o w)[i] = (q \o w)[len + i]
    <3>1. len + i \in 1 .. a + m
      BY <2>4
    <3>2. CASE i <= b
      <4>1. len + i <= a /\ i \in 1 .. a - len
        BY <2>4, <3>2
      <4> QED
        BY <1>9, <2>3, <2>6, <3>1, <3>2, <4>1
    <3>3. CASE ~(i <= b)
      <4>1. ~(len + i <= a) /\ len + i - a = i - b
        BY <2>4, <3>3
      <4>2. (r \o w)[i] = w[i - b]
        BY <2>6, <3>3
      <4>3. (q \o w)[len + i] = w[len + i - a]
        BY <2>3, <3>1, <4>1
      <4> QED
        BY <4>1, <4>2, <4>3
    <3> QED
      BY <3>2, <3>3
  <2>8. b + m = a + m - len /\ b + m \in Nat
    BY <2>4
  <2> QED
    BY <2>2, <2>3, <2>6, <2>7, <2>8
<1>12. handled \in Seq(Nat) /\ InOrder /\ Len(handled) \in Nat
  BY DEF Clean, Ordered, Framing
<1>13. /\ handled' \in Seq(Nat) /\ Len(handled') = h /\ DOMAIN handled' = 1 .. h
       /\ handled'[h] = h /\ \A i \in 1 .. h - 1 : handled'[i] = handled[i]
       /\ DOMAIN handled = 1 .. h - 1 /\ h <= Len(sent)
  BY <1>1, <1>2, <1>3, <1>12 DEF Clean, Shapes, Ordered, ClientShapes
<1>t. handled' \in Seq(1 .. MaxPacket)
  <2>1. h \in 1 .. MaxPacket /\ handled \in Seq(1 .. MaxPacket)
    BY <1>3, <1>12, <1>13, BoundAssumption DEF Clean, Shapes, ClientShapes
  <2> QED
    BY <1>1, <1>2, <2>1
<1>14. Framing'
  <2>1. PICK off : Framed(off)
    BY DEF Clean, Ordered, Framing
  <2>2. \E f : Framed(f)'
    BY <1>1, <1>2, <1>3, <1>11, <1>12, <2>1, HandledFrames DEF Clean, Shapes, Ordered
  <2>3. InOrder'
    <3>1. \A i \in 1 .. h : handled'[i] = i
      BY <1>12, <1>13 DEF InOrder
    <3> QED
      BY <1>13, <3>1 DEF InOrder
  <2> QED
    BY <1>1, <1>13, <2>2, <2>3 DEF Framing
<1>15. /\ mConnected' \in {0, 1} /\ mIsEncrypt' \in BOOLEAN /\ loggedIn' \in BOOLEAN
       /\ replies' \in BOOLEAN /\ crashed' \in BOOLEAN
       /\ exchange' \in {"none", "asked", "answered", "done"}
       /\ loggedIn' => loggedIn \/ sent[h].mType = "PKT_CS_LOGIN"
       /\ crashed' => loggedIn /\ sent[h].mType = "PKT_CS_LOGIN"
  <2>1. Handle(sent[h]) /\ crashed = FALSE
    BY <1>1, <1>2 DEF Goto
  <2>2. /\ mConnected \in {0, 1} /\ mIsEncrypt \in BOOLEAN /\ loggedIn \in BOOLEAN
        /\ replies \in BOOLEAN /\ exchange \in {"none", "asked", "answered", "done"}
    BY DEF Clean, Shapes, Ordered, ServerShapes, ClientShapes
  <2>3. mConnected' \in {0, 1} /\ exchange' \in {"none", "asked", "answered", "done"}
    BY <2>1, <2>2 DEF Handle, Refuse, Request
  <2>4. mIsEncrypt' \in BOOLEAN /\ loggedIn' \in BOOLEAN
    BY <2>1, <2>2 DEF Handle, Refuse, Request
  <2>5. replies' \in BOOLEAN /\ crashed' \in BOOLEAN
    BY <2>1, <2>2 DEF Handle, Refuse, Request
  <2>6. loggedIn' => loggedIn \/ sent[h].mType = "PKT_CS_LOGIN"
    BY <2>1, <2>2 DEF Handle, Refuse, Request
  <2>7. crashed' => loggedIn /\ sent[h].mType = "PKT_CS_LOGIN"
    BY <2>1, <2>2 DEF Handle, Refuse, Request
  <2> QED
    BY <2>3, <2>4, <2>5, <2>6, <2>7
<1>16. stream' = [end |-> stream.end, at |-> stream.at + len]
  <2>1. stream \in [end : 0 .. Capacity, at : 0 .. Capacity]
    BY DEF Clean, Shapes, Ordered, ServerShapes
  <2>2. stream.at + HEADER_SIZE + sent[h].mSize = stream.at + len
    <3>1. sent[h].mSize \in Nat
      BY <1>3, LengthType DEF Clean, Shapes, Ordered
    <3> QED
      BY <1>3, <2>1, <3>1, SizeAssumption
  <2> QED
    BY <1>1, <1>2, <2>1, <2>2
<1>17. ServerShapes'
  <2>1. stream' \in [end : 0 .. Capacity, at : 0 .. Capacity]
    <3>1. stream \in [end : 0 .. Capacity, at : 0 .. Capacity]
      BY DEF Clean, Shapes, Ordered, ServerShapes
    <3>2. stream.at + len \in 0 .. Capacity
      BY <1>3, <1>5, <3>1, SizeAssumption
    <3> QED
      BY <1>16, <3>1, <3>2
  <2> QED
    BY <1>1, <1>15, <2>1 DEF Clean, Shapes, Ordered, ServerShapes, Goto
<1>18. ClientShapes'
  BY <1>1, <1>15 DEF Clean, Shapes, Ordered, ClientShapes
<1>19. Reading'
  <2>1. stream'.end - stream'.at = mARegionSize'
    <3>1. stream \in [end : 0 .. Capacity, at : 0 .. Capacity]
      BY DEF Clean, Shapes, Ordered, ServerShapes
    <3> QED
      BY <1>3, <1>5, <1>6, <1>16, <3>1, SizeAssumption
  <2>2. mARegionSize' > 0 => stream'.at = mARegionPointer'
    BY <1>3, <1>6, <1>16
  <2> QED
    BY <1>1, <1>6, <2>1, <2>2 DEF Reading, Goto
<1>20. loggedIn => \E i \in 1 .. h - 1 : sent[handled[i]].mType = "PKT_CS_LOGIN"
  BY <1>13 DEF Clean, Shapes, Ordered, LoginHandled
<1>21. LoginHandled'
  <2> SUFFICES ASSUME loggedIn'
               PROVE  \E i \in 1 .. h : sent[handled'[i]].mType = "PKT_CS_LOGIN"
    BY <1>1, <1>13 DEF LoginHandled
  <2>1. CASE loggedIn
    <3>1. PICK i \in 1 .. h - 1 : sent[handled[i]].mType = "PKT_CS_LOGIN"
      BY <1>20, <2>1
    <3>2. i \in 1 .. h /\ handled'[i] = handled[i]
      BY <1>13
    <3> QED
      BY <3>1, <3>2
  <2>2. CASE sent[h].mType = "PKT_CS_LOGIN"
    <3>1. h \in 1 .. h
      BY <1>3, <1>12
    <3> QED
      BY <1>13, <2>2, <3>1
  <2> QED
    BY <1>15, <2>1, <2>2
<1>22. SecondLogin'
  <2> SUFFICES ASSUME crashed'
               PROVE  \E i, j \in DOMAIN handled' :
                        i < j /\ {sent'[handled'[i]].mType, sent'[handled'[j]].mType}
                                   = {"PKT_CS_LOGIN"}
    BY DEF SecondLogin
  <2>1. loggedIn /\ sent[h].mType = "PKT_CS_LOGIN"
    BY <1>15
  <2>2. PICK i \in 1 .. h - 1 : sent[handled[i]].mType = "PKT_CS_LOGIN"
    BY <1>20, <2>1
  <2>3. i \in 1 .. h /\ h \in 1 .. h /\ i < h
    BY <1>3, <1>12
  <2>4. sent'[handled'[i]].mType = "PKT_CS_LOGIN" /\ sent'[handled'[h]].mType = "PKT_CS_LOGIN"
    BY <1>1, <1>13, <2>1, <2>2
  <2> QED
    BY <1>13, <2>3, <2>4
<1> QED
  BY <1>1, <1>6, <1>10, <1>t, <1>14, <1>17, <1>18, <1>19, <1>21, <1>22
     DEF Clean, Shapes, Ordered, Goto

-----------------------------------------------------------------------------
(***************************************************************************)
(* Garbled headers.                                                        *)
(***************************************************************************)
\* Whatever length is removed: what is left in the buffer was there before.
LEMMA RemovedStored ==
  ASSUME Buf!BufferInv, CellsStored, NEW len \in 0 .. Capacity, mRecvBuffer!Remove(len)
  PROVE  Buf!BufferInv' /\ CellsStored'
<1>1. Buf!Remove(len) /\ StoredShape /\ len \in Nat
  BY SameRemove, StoredFollows, SizeAssumption
<1>2. Buf!BufferInv'
  BY <1>1, BufferAssumptions, Buf!RemoveKeepsInv
<1>3. StoredShape'
  BY <1>2, StoredFollowsAfter
<1>4. PICK q : q = Buf!Stored
  OBVIOUS
<1>5. q \in Seq(Cell) /\ Len(q) \in Nat
  BY <1>1, <1>4 DEF StoredShape, CellsStored
<1>6. PICK n \in 0 .. Len(q) : Buf!Stored' = SubSeq(q, n + 1, Len(q))
  BY <1>1, <1>4, BufferAssumptions, Buf!RemoveRefines
<1>7. SubSeq(q, n + 1, Len(q)) \in Seq(Cell)
  <2>1. \A i \in n + 1 .. Len(q) : q[i] \in Cell
    BY <1>5, <1>6
  <2>2. n + 1 \in Int /\ Len(q) \in Int
    BY <1>5, <1>6
  <2> QED
    BY <1>5, <2>1, <2>2, SubSeqProperties
<1>8. \A i \in 1 .. Buf!GetStoredSize' : Buf!Stored'[i] \in Cell
  BY <1>3, <1>6, <1>7 DEF StoredShape
<1> QED
  BY <1>2, <1>8 DEF CellsStored

\* A header that says anything: the stream stays in the buffer, and so do the regions.
LEMMA GarbledDispatchShapes == Shapes /\ GarbledDispatch => Shapes'
<1> SUFFICES ASSUME Shapes, GarbledDispatch PROVE Shapes'
  OBVIOUS
<1>1. PICK mSize \in -HEADER_SIZE - 1 .. stream.end - stream.at - HEADER_SIZE :
        /\ mRecvBuffer!Remove(IF mSize < -HEADER_SIZE THEN Capacity ELSE HEADER_SIZE + mSize)
        /\ stream' = [stream EXCEPT !.at = @ + HEADER_SIZE + (IF mSize > 0 THEN mSize ELSE 0)]
  BY DEF GarbledDispatch
<1>2. /\ HeaderComplete /\ phase' = "parse" /\ crashed = FALSE
      /\ UNCHANGED <<m_EncryptCount, issued, sent, wire, peerKey, peerCount, handled>>
      /\ \/ UNCHANGED <<mConnected, mIsEncrypt, loggedIn, replies, crashed, exchange>>
         \/ Refuse
         \/ \E mType \in Type : Request(mType)
  BY DEF GarbledDispatch, HeaderGarbled, Goto
<1>3. PICK at, end \in 0 .. Capacity : stream = [end |-> end, at |-> at]
  BY DEF Shapes, ServerShapes
<1>4. /\ at \in Nat /\ end \in Nat /\ Capacity \in Nat /\ HEADER_SIZE \in Nat /\ mSize \in Int
      /\ mSize <= end - at - HEADER_SIZE /\ end - at >= HEADER_SIZE /\ end <= Capacity
  BY <1>1, <1>2, <1>3, SizeAssumption DEF HeaderComplete
<1>5. Buf!BufferInv' /\ CellsStored'
  <2>1. PICK len \in 0 .. Capacity :
          len = IF mSize < -HEADER_SIZE THEN Capacity ELSE HEADER_SIZE + mSize
    BY <1>4
  <2> QED
    BY <1>1, <2>1, RemovedStored DEF Shapes
<1>6. stream' \in [end : 0 .. Capacity, at : 0 .. Capacity]
  <2>1. PICK skipped \in Nat : skipped = IF mSize > 0 THEN mSize ELSE 0
    BY <1>4
  <2>2. at + HEADER_SIZE + skipped \in 0 .. Capacity
    BY <1>4, <2>1
  <2>3. stream' = [end |-> end, at |-> at + HEADER_SIZE + skipped]
    BY <1>1, <1>3, <2>1
  <2> QED
    BY <2>2, <2>3
<1>7. /\ mConnected' \in {0, 1} /\ mIsEncrypt' \in BOOLEAN /\ loggedIn' \in BOOLEAN
      /\ replies' \in BOOLEAN /\ crashed' \in BOOLEAN
      /\ exchange' \in {"none", "asked", "answered", "done"}
  <2>1. /\ mConnected \in {0, 1} /\ mIsEncrypt \in BOOLEAN /\ loggedIn \in BOOLEAN
        /\ replies \in BOOLEAN /\ crashed \in BOOLEAN
        /\ exchange \in {"none", "asked", "answered", "done"}
    BY DEF Shapes, ServerShapes, ClientShapes
  <2>2. CASE UNCHANGED <<mConnected, mIsEncrypt, loggedIn, replies, crashed, exchange>>
    BY <2>1, <2>2
  <2>3. CASE Refuse
    BY <2>1, <2>3 DEF Refuse
  <2>4. ASSUME NEW mType \in Type, Request(mType)
        PROVE  /\ mConnected' \in {0, 1} /\ mIsEncrypt' \in BOOLEAN /\ loggedIn' \in BOOLEAN
               /\ replies' \in BOOLEAN /\ crashed' \in BOOLEAN
               /\ exchange' \in {"none", "asked", "answered", "done"}
    <3>1. mConnected' \in {0, 1} /\ exchange' \in {"none", "asked", "answered", "done"}
      BY <2>1, <2>4 DEF Request
    <3>2. mIsEncrypt' \in BOOLEAN /\ loggedIn' \in BOOLEAN
      BY <2>1, <2>4 DEF Request
    <3>3. replies' \in BOOLEAN /\ crashed' \in BOOLEAN
      BY <2>1, <2>4 DEF Request
    <3> QED
      BY <3>1, <3>2, <3>3
  <2> QED
    BY <1>2, <2>2, <2>3, <2>4
<1>8. ServerShapes'
  BY <1>2, <1>6, <1>7 DEF Shapes, ServerShapes
<1>9. ClientShapes'
  BY <1>2, <1>7 DEF Shapes, ClientShapes
<1> QED
  BY <1>2, <1>5, <1>8, <1>9 DEF Shapes

-----------------------------------------------------------------------------
(***************************************************************************)
(* The theorems.                                                           *)
(***************************************************************************)
LEMMA InitIInv == Init => IInv
<1> SUFFICES ASSUME Init PROVE IInv
  OBVIOUS
<1>1. Buf!Init
  <2>1. Cleared \in Cell \cup {Cleared}
    OBVIOUS
  <2> QED
    BY <2>1 DEF Init, Buf!Init, Buf!Offset, Buf!Nullptr, mRecvBuffer!Nullptr
<1>2. Buf!BufferInv
  BY <1>1, BufferAssumptions, Buf!InvInit
<1>3. mARegionSize = 0 /\ mBRegionSize = 0 /\ Buf!GetStoredSize = 0
  BY DEF Init, Buf!GetStoredSize
<1>4. Buf!Stored = << >>
  <2>1. StoredShape
    BY <1>2, StoredFollows
  <2> QED
    BY <1>3, <2>1 DEF StoredShape
<1>5. sent = << >> /\ wire = << >> /\ handled = << >> /\ Incoming = << >>
  BY <1>4 DEF Init, Incoming
<1>6. Framing
  <2>1. PICK off : off = [k \in 1 .. 1 |-> 1]
    OBVIOUS
  <2>2. Len(handled) = 0 /\ Len(sent) = 0 /\ Len(Incoming) = 0 /\ handled \in Seq(Nat)
    BY <1>5
  <2>3. Framed(off)
    BY <2>1, <2>2 DEF Framed
  <2> QED
    BY <1>5, <2>2, <2>3 DEF Framing, InOrder
<1>7. ServerShapes
  <2>1. 0 \in 0 .. Capacity /\ 0 \in 0 .. KeySize - 1 /\ 0 \in 0 .. MaxIssue
    BY SizeAssumption, BoundAssumption
  <2>2. stream \in [end : 0 .. Capacity, at : 0 .. Capacity]
    BY <2>1 DEF Init
  <2> QED
    BY <2>1, <2>2 DEF Init, ServerShapes
<1>8. ClientShapes
  <2>1. SharedKey \in Key
    BY SizeAssumption DEF SharedKey, Key, KeyByte
  <2> QED
    BY <2>1, SizeAssumption, BoundAssumption DEF Init, ClientShapes
<1>9. CellsStored /\ handled \in Seq(1 .. MaxPacket) /\ phase # "decrypt" /\ garbled = FALSE
  BY <1>3 DEF Init, CellsStored
<1>10. Reading /\ LoginHandled /\ SecondLogin
  BY <1>3 DEF Init, Reading, LoginHandled, SecondLogin
<1> QED
  BY <1>2, <1>6, <1>7, <1>8, <1>9, <1>10 DEF IInv, Shapes, Ordered

\* The steps that read headers as they were sent, or none.
LEMMA CleanSteps ==
  ASSUME Clean, Quiet \/ (\E header \in Header : ClientSend(header)) \/ PostRecv \/ RecvCompletion
                \/ Decrypt \/ Dispatch \/ Incomplete
  PROVE  Clean' /\ garbled' = garbled
<1>1. CASE Quiet
  BY <1>1, QuietClean DEF Quiet, ClientKey, AcceptCompletion, DisconnectRequest, ReceiveFails,
                          Crypt, InvalidType, PreRecv, vars, history
<1>2. ASSUME NEW header \in Header, ClientSend(header) PROVE Clean' /\ garbled' = garbled
  BY <1>2, ClientSendClean DEF ClientSend, history
<1>3. CASE PostRecv
  BY <1>3, PostRecvClean DEF PostRecv, history
<1>4. CASE RecvCompletion
  BY <1>4, RecvCompletionClean DEF RecvCompletion, history
<1>5. CASE Decrypt
  BY <1>5, DecryptClean DEF Decrypt, history
<1>6. CASE Dispatch
  BY <1>6, DispatchClean DEF Dispatch, DispatchAndRemove
<1>7. CASE Incomplete
  BY <1>7, IncompleteClean DEF Incomplete, history
<1> QED
  BY <1>1, <1>2, <1>3, <1>4, <1>5, <1>6, <1>7

\* The steps of a connection with a garbled header, and the one that garbles.
LEMMA GarbledSteps ==
  ASSUME Shapes, garbled \in BOOLEAN,
         \/ GarbledIncomplete \/ GarbledInvalidType \/ GarbledDispatch
         \/ /\ garbled
            /\ \/ Quiet \/ (\E header \in Header : ClientSend(header)) \/ PostRecv \/ RecvCompletion
               \/ Decrypt \/ Dispatch \/ Incomplete
  PROVE  Shapes' /\ garbled' = TRUE
<1>1. CASE GarbledIncomplete \/ GarbledInvalidType
  BY <1>1, QuietShapes DEF GarbledIncomplete, GarbledInvalidType, HeaderGarbled
<1>2. CASE GarbledDispatch
  BY <1>2, GarbledDispatchShapes DEF GarbledDispatch, HeaderGarbled
<1>3. CASE garbled /\ Quiet
  BY <1>3, QuietShapes DEF Quiet, ClientKey, AcceptCompletion, DisconnectRequest, ReceiveFails,
                           Crypt, InvalidType, PreRecv, vars, history
<1>4. ASSUME garbled, NEW header \in Header, ClientSend(header) PROVE Shapes' /\ garbled' = TRUE
  BY <1>4, ClientSends DEF ClientSend, history
<1>5. CASE garbled /\ PostRecv
  BY <1>5, PostRecvShapes DEF PostRecv, history
<1>6. CASE garbled /\ RecvCompletion
  BY <1>6, RecvCompletionShapes DEF RecvCompletion, history
<1>7. CASE garbled /\ Decrypt
  BY <1>7, DecryptMoves DEF Decrypt, history
<1>8. CASE garbled /\ Dispatch
  BY <1>8 DEF Dispatch, DispatchAndRemove, HeaderReadable
<1>9. CASE garbled /\ Incomplete
  BY <1>9, QuietShapes DEF Incomplete, history
<1> QED
  BY <1>1, <1>2, <1>3, <1>4, <1>5, <1>6, <1>7, <1>8, <1>9

LEMMA NextIInv == IInv /\ [Next]_vars => IInv'
<1> SUFFICES ASSUME IInv, [Next]_vars PROVE IInv'
  OBVIOUS
<1>1. CASE SessionReset
  <2>1. Clean' /\ garbled' = FALSE
    BY <1>1, SessionResetClean DEF IInv, SessionReset
  <2> QED
    BY <2>1 DEF IInv, Clean
<1>2. CASE GarbledIncomplete \/ GarbledInvalidType \/ GarbledDispatch
  <2>1. Shapes' /\ garbled' = TRUE
    BY <1>2, GarbledSteps DEF IInv
  <2> QED
    BY <2>1 DEF IInv
<1>3. CASE \/ Quiet \/ (\E header \in Header : ClientSend(header)) \/ PostRecv \/ RecvCompletion
           \/ Decrypt \/ Dispatch \/ Incomplete
  <2>1. CASE garbled = TRUE
    <3>1. Shapes' /\ garbled' = TRUE
      BY <1>3, <2>1, GarbledSteps DEF IInv
    <3> QED
      BY <3>1 DEF IInv
  <2>2. CASE garbled = FALSE
    <3>1. Clean
      BY <2>2 DEF IInv, Clean
    <3>2. Clean' /\ garbled' = garbled
      BY <1>3, <3>1, CleanSteps
    <3> QED
      BY <2>2, <3>2 DEF IInv, Clean
  <2> QED
    BY <2>1, <2>2 DEF IInv
<1> QED
  BY <1>1, <1>2, <1>3 DEF Next, Serve, Quiet

\* The invariant holds in every reachable state.
THEOREM Invariant == Spec => []IInv
BY InitIInv, NextIInv, PTL DEF Spec

\* Every variable is what the server and the client declare, and only packets that were
\* sent are handled.
THEOREM TypeCorrect == Spec => []TypeOK
<1>1. IInv => TypeOK
  BY BufferFollows DEF IInv, TypeOK, Shapes, ServerShapes, ClientShapes, BufferFacts, mRecvBuffer!Nullptr
<1> QED
  BY <1>1, Invariant, PTL

\* Until a header is garbled, however the bytes of a connection are cut into receives, wherever
\* the buffer puts them and whatever an earlier connection left: OnReceive hands the handlers
\* the packets that were sent, each once and in order, whether or not their payload can be
\* parsed.
THEOREM PacketsInOrder == Spec => []HandledInOrder
<1>1. IInv => HandledInOrder
  BY DEF IInv, Ordered, Framing, InOrder, HandledInOrder
<1> QED
  BY <1>1, Invariant, PTL

\* Until a header is garbled, no whole packet lies in the contiguous bytes when the next receive
\* is posted: what OnReceive left behind is complete only if it is split between the regions.
THEOREM NoWholePacketWaits == Spec => []OnlySplitPacketsWait
<1>1. IInv => OnlySplitPacketsWait
  <2> SUFFICES ASSUME Clean, phase \in {"zero", "receive"}, HeadComplete PROVE mBRegionSize > 0
    BY DEF IInv, Clean, OnlySplitPacketsWait
  <2>1. BufferFacts /\ StoredShape /\ HeadWaits
    BY BufferFollows, StoredFollows DEF Clean, Shapes, Ordered, Reading
  <2> SUFFICES ASSUME mBRegionSize = 0 PROVE FALSE
    BY <2>1, SizeAssumption DEF BufferFacts
  <2>2. Buf!GetStoredSize = mARegionSize /\ mARegionSize \in Nat
    BY <2>1, SizeAssumption DEF BufferFacts, StoredShape
  <2>3. /\ mARegionSize >= HEADER_SIZE
        /\ mARegionSize >= HEADER_SIZE + sent[Buf!Stored[1].packet].mSize
    BY <2>2, SameBuffer, SameStored DEF HeadComplete
  <2>4. mARegionSize > 0
    BY <2>2, <2>3, SizeAssumption
  <2>5. Buf!Stored[1] = mem[mARegionPointer] /\ mem[mARegionPointer].packet \in DOMAIN sent
    BY <2>4, HeadIsNext DEF Clean, Shapes, Ordered
  <2>6. sent[mem[mARegionPointer].packet].mSize \in Nat
    BY <2>5, LengthType DEF Clean, Shapes, Ordered
  <2> QED
    BY <2>1, <2>2, <2>3, <2>5, <2>6, SizeAssumption DEF HeadWaits, Length
<1> QED
  BY <1>1, Invariant, PTL

\* Until a header is garbled, the CRASH_ASSERT of RequestLogin fails for a second login on the
\* same connection only: SessionReset keeps the player of an earlier connection from a later
\* one.
THEOREM OnlySecondLoginsCrash == Spec => []CrashNeedsSecondLogin
<1>1. IInv => CrashNeedsSecondLogin
  BY DEF IInv, Ordered, SecondLogin, CrashNeedsSecondLogin
<1> QED
  BY <1>1, Invariant, PTL
=============================================================================
