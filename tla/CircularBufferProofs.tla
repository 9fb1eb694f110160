------------------------ MODULE CircularBufferProofs ------------------------
(***************************************************************************)
(* Theorems about CircularBuffer, for every capacity, every set of bytes   *)
(* and every bound on the bytes written at once.  The inductive invariant  *)
(* is the conjunction of TypeOK, RegionsApart and EmptyIsWhole: a write    *)
(* stays clear of the stored bytes because the regions are apart, and they *)
(* stay apart because B is allocated only behind a non-empty A.            *)
(***************************************************************************)
EXTENDS CircularBuffer, SequenceTheorems, TLAPS

BufferInv == TypeOK /\ RegionsApart /\ EmptyIsWhole

\* A chunk is a non-empty sequence of bytes no longer than MaxWrite.
LEMMA ChunkIsSequence ==
  ASSUME NEW bytes \in Chunk
  PROVE  bytes \in Seq(Byte) /\ Len(bytes) \in 1 .. MaxWrite
<1>1. PICK n \in 1 .. MaxWrite : bytes \in [1 .. n -> Byte]
  BY DEF Chunk
<1>2. n \in Nat
  BY <1>1, CapacityAssumption
<1>3. bytes \in Seq(Byte) /\ Len(bytes) = n
  BY <1>1, <1>2
<1> QED
  BY <1>1, <1>3

LEMMA InvInit == Init => BufferInv
BY CapacityAssumption
   DEF Init, BufferInv, TypeOK, RegionsApart, EmptyIsWhole, GetStoredSize, GetFreeSpaceSize,
       AllocateB, GetAFreeSpace, GetSpaceBeforeA, Nullptr, Offset

LEMMA WriteKeepsInv ==
  ASSUME BufferInv, NEW bytes \in Chunk, Write(bytes)
  PROVE  BufferInv'
<1> USE CapacityAssumption
<1>1. bytes \in Seq(Byte) /\ Len(bytes) \in Nat \ {0}
  BY ChunkIsSequence
<1>2. mem' \in [Offset -> Byte]
  <2>1. ASSUME NEW i \in Offset, i - GetBuffer \in 0 .. Len(bytes) - 1
        PROVE  bytes[i - GetBuffer + 1] \in Byte
    <3>1. i - GetBuffer + 1 \in 1 .. Len(bytes)
      BY <2>1, <1>1
    <3> QED
      BY <3>1, <1>1
  <2> QED
    BY <2>1 DEF Write, BufferInv, TypeOK
<1>3. TypeOK' /\ RegionsApart' /\ EmptyIsWhole'
  BY <1>1, <1>2
     DEF BufferInv, TypeOK, RegionsApart, EmptyIsWhole, Write, GetStoredSize, GetFreeSpaceSize,
         AllocateB, GetAFreeSpace, GetSpaceBeforeA, Nullptr
<1> QED
  BY <1>3 DEF BufferInv

LEMMA WriteRefusedKeepsInv ==
  ASSUME BufferInv, NEW len \in Nat, WriteRefused(len)
  PROVE  BufferInv'
BY CapacityAssumption
   DEF BufferInv, TypeOK, RegionsApart, EmptyIsWhole, WriteRefused, GetStoredSize,
       GetFreeSpaceSize, AllocateB, GetAFreeSpace, GetSpaceBeforeA, Nullptr

LEMMA RemoveKeepsInv ==
  ASSUME BufferInv, NEW len \in Nat, Remove(len)
  PROVE  BufferInv'
<1> USE CapacityAssumption
<1>1. CASE RemoveFromA(len)
  BY <1>1
     DEF BufferInv, TypeOK, RegionsApart, EmptyIsWhole, RemoveFromA, GetStoredSize,
         GetFreeSpaceSize, AllocateB, GetAFreeSpace, GetSpaceBeforeA, Nullptr
<1>2. CASE RemoveAndSwitch(len)
  <2> DEFINE removed == Lesser(len - mARegionSize, mBRegionSize)
  <2>1. removed \in Nat /\ removed < mBRegionSize /\ mBRegionPointer = 0
    BY <1>2 DEF BufferInv, TypeOK, RegionsApart, RemoveAndSwitch, Lesser, Nullptr
  <2>2. mem' \in [Offset -> Byte]
    <3>1. ASSUME NEW i \in Offset, i < mBRegionSize - removed
          PROVE  mBRegionPointer + removed + i \in Offset
      BY <2>1, <3>1 DEF BufferInv, TypeOK, RegionsApart, Offset
    <3> QED
      BY <1>2, <3>1 DEF BufferInv, TypeOK, RemoveAndSwitch
  <2> HIDE DEF removed
  <2>3. mARegionPointer' = 0 /\ mARegionSize' = mBRegionSize - removed
        /\ mBRegionPointer' = Nullptr /\ mBRegionSize' = 0
    BY <1>2 DEF RemoveAndSwitch, removed
  <2> QED
    BY <2>1, <2>2, <2>3
       DEF BufferInv, TypeOK, RegionsApart, EmptyIsWhole, GetStoredSize,
           GetFreeSpaceSize, AllocateB, GetAFreeSpace, GetSpaceBeforeA, Nullptr
<1>3. CASE RemoveAll(len)
  BY <1>3
     DEF BufferInv, TypeOK, RegionsApart, EmptyIsWhole, RemoveAll, GetStoredSize,
         GetFreeSpaceSize, AllocateB, GetAFreeSpace, GetSpaceBeforeA, Nullptr
<1> QED
  BY <1>1, <1>2, <1>3 DEF Remove

LEMMA ResetKeepsInv ==
  ASSUME BufferInv, BufferReset
  PROVE  BufferInv'
BY CapacityAssumption, ZeroAssumption
   DEF BufferInv, TypeOK, RegionsApart, EmptyIsWhole, BufferReset, GetStoredSize,
       GetFreeSpaceSize, AllocateB, GetAFreeSpace, GetSpaceBeforeA, Nullptr

LEMMA InvNext == BufferInv /\ [Next]_vars => BufferInv'
<1> SUFFICES ASSUME BufferInv, [Next]_vars
             PROVE  BufferInv'
  OBVIOUS
<1>1. ASSUME NEW bytes \in Chunk, Write(bytes)
      PROVE  BufferInv'
  BY <1>1, WriteKeepsInv
<1>2. ASSUME NEW len \in 1 .. MaxWrite, WriteRefused(len)
      PROVE  BufferInv'
  BY <1>2, WriteRefusedKeepsInv
<1>3. ASSUME NEW len \in 0 .. Capacity, Remove(len)
      PROVE  BufferInv'
  BY <1>3, RemoveKeepsInv
<1>4. CASE BufferReset
  BY <1>4, ResetKeepsInv
<1>5. CASE UNCHANGED vars
  BY <1>5
     DEF vars, BufferInv, TypeOK, RegionsApart, EmptyIsWhole, GetStoredSize,
         GetFreeSpaceSize, AllocateB, GetAFreeSpace, GetSpaceBeforeA
<1> QED
  BY <1>1, <1>2, <1>3, <1>4, <1>5 DEF Next

LEMMA Invariance == Spec => []BufferInv
BY InvInit, InvNext, PTL DEF Spec

\* The variables keep their types: B, when it is used, starts at the front of the memory.
THEOREM TypeCorrect == Spec => []TypeOK
<1>1. BufferInv => TypeOK
  BY DEF BufferInv
<1> QED
  BY <1>1, Invariance, PTL

\* No write ever reaches bytes that are stored: GetBuffer and GetFreeSpaceSize name
\* memory outside both regions, in every capacity.
THEOREM RegionsStayApart == Spec => []RegionsApart
<1>1. BufferInv => RegionsApart
  BY DEF BufferInv
<1> QED
  BY <1>1, Invariance, PTL

\* An empty buffer offers its whole capacity to the next writer.
THEOREM EmptyOffersAll == Spec => []EmptyIsWhole
<1>1. BufferInv => EmptyIsWhole
  BY DEF BufferInv
<1> QED
  BY <1>1, Invariance, PTL

-----------------------------------------------------------------------------
(***************************************************************************)
(* The buffer as a queue: what each call does to the sequence Stored.      *)
(***************************************************************************)
\* The byte that is stored i-th.
StoredAt(i) ==
  IF i <= mARegionSize
  THEN mem[mARegionPointer + i - 1]
  ELSE mem[mBRegionPointer + i - mARegionSize - 1]

\* Stored is a sequence of the GetStoredSize bytes.
StoredFacts ==
  /\ GetStoredSize \in 0 .. Capacity
  /\ Stored \in Seq(Byte)
  /\ Len(Stored) = GetStoredSize
  /\ \A i \in 1 .. GetStoredSize : Stored[i] = StoredAt(i)

LEMMA StoredIsSequence == BufferInv => StoredFacts
<1> SUFFICES ASSUME BufferInv
             PROVE  StoredFacts
  OBVIOUS
<1> USE CapacityAssumption
<1>1. GetStoredSize \in 0 .. Capacity
  BY DEF BufferInv, TypeOK, RegionsApart, GetStoredSize
<1>2. ASSUME NEW i \in 1 .. GetStoredSize
      PROVE  StoredAt(i) \in Byte
  BY <1>1, <1>2
     DEF BufferInv, TypeOK, RegionsApart, GetStoredSize, StoredAt, Offset, Nullptr
<1>3. Stored = [i \in 1 .. GetStoredSize |-> StoredAt(i)]
  BY DEF Stored, StoredAt
<1>4. Stored \in [1 .. GetStoredSize -> Byte]
  BY <1>2, <1>3
<1>5. Stored \in Seq(Byte) /\ Len(Stored) = GetStoredSize
  BY <1>1, <1>4
<1> QED
  BY <1>1, <1>3, <1>5 DEF StoredFacts

LEMMA StoredIsSequenceAfter == BufferInv' => StoredFacts'
BY StoredIsSequence, PTL

\* A write goes behind A, B being unused and empty.
LEMMA WriteBehindA ==
  ASSUME BufferInv, NEW bytes \in Chunk, Write(bytes), AllocateB = Nullptr
  PROVE  /\ mBRegionPointer = Nullptr /\ mBRegionSize = 0
         /\ mARegionPointer' = mARegionPointer /\ mBRegionPointer' = Nullptr
         /\ mARegionSize' = mARegionSize + Len(bytes) /\ mBRegionSize' = 0
         /\ mARegionPointer + mARegionSize + Len(bytes) <= Capacity
         /\ \A i \in 0 .. mARegionPointer + mARegionSize - 1 : mem'[i] = mem[i]
         /\ \A j \in 1 .. Len(bytes) : mem'[mARegionPointer + mARegionSize + j - 1] = bytes[j]
<1> USE CapacityAssumption
<1>1. Len(bytes) \in Nat \ {0}
  BY ChunkIsSequence
<1>2. GetBuffer = mARegionPointer + mARegionSize
  BY DEF GetBuffer
<1>3. mBRegionPointer = Nullptr /\ mBRegionSize = 0
  BY DEF BufferInv, TypeOK, RegionsApart, AllocateB, Nullptr
<1>4. mARegionPointer + mARegionSize + Len(bytes) <= Capacity
  BY <1>1 DEF BufferInv, TypeOK, RegionsApart, Write, GetFreeSpaceSize, GetAFreeSpace
<1>5. ASSUME NEW i \in 0 .. mARegionPointer + mARegionSize - 1
      PROVE  mem'[i] = mem[i]
  BY <1>1, <1>2, <1>4, <1>5 DEF BufferInv, TypeOK, Write, Offset
<1>6. ASSUME NEW j \in 1 .. Len(bytes)
      PROVE  mem'[mARegionPointer + mARegionSize + j - 1] = bytes[j]
  <2>1. PICK k \in Offset : k = mARegionPointer + mARegionSize + j - 1
    BY <1>1, <1>4, <1>6 DEF BufferInv, TypeOK, Offset
  <2>2. k - GetBuffer \in 0 .. Len(bytes) - 1 /\ k - GetBuffer + 1 = j
    BY <1>1, <1>2, <1>6, <2>1 DEF BufferInv, TypeOK
  <2> QED
    BY <2>1, <2>2 DEF Write
<1> QED
  BY <1>3, <1>4, <1>5, <1>6 DEF Write

\* Or behind B, which ends before A.
LEMMA WriteBehindB ==
  ASSUME BufferInv, NEW bytes \in Chunk, Write(bytes), AllocateB # Nullptr
  PROVE  /\ mARegionPointer' = mARegionPointer /\ mBRegionPointer' = 0
         /\ mARegionSize' = mARegionSize /\ mBRegionSize' = mBRegionSize + Len(bytes)
         /\ mBRegionSize + Len(bytes) <= mARegionPointer
         /\ mBRegionSize > 0 => mBRegionPointer = 0
         /\ \A i \in mARegionPointer .. mARegionPointer + mARegionSize - 1 : mem'[i] = mem[i]
         /\ \A i \in 0 .. mBRegionSize - 1 : mem'[i] = mem[i]
         /\ \A j \in 1 .. Len(bytes) : mem'[mBRegionSize + j - 1] = bytes[j]
<1> USE CapacityAssumption
<1>1. Len(bytes) \in Nat \ {0}
  BY ChunkIsSequence
<1>2. AllocateB = 0 /\ GetBuffer = mBRegionSize
  BY DEF BufferInv, TypeOK, AllocateB, GetBuffer, Nullptr
<1>3. mBRegionSize + Len(bytes) <= mARegionPointer
  BY <1>1, <1>2 DEF BufferInv, TypeOK, Write, GetFreeSpaceSize, Nullptr
<1>4. mBRegionSize > 0 => mBRegionPointer = 0
  BY DEF BufferInv, TypeOK, RegionsApart, Nullptr
<1>5. ASSUME NEW i \in mARegionPointer .. mARegionPointer + mARegionSize - 1
      PROVE  mem'[i] = mem[i]
  <2>1. i \in Offset /\ i - GetBuffer \notin 0 .. Len(bytes) - 1
    BY <1>1, <1>2, <1>3, <1>5 DEF BufferInv, TypeOK, RegionsApart, Offset
  <2> QED
    BY <2>1 DEF Write
<1>6. ASSUME NEW i \in 0 .. mBRegionSize - 1
      PROVE  mem'[i] = mem[i]
  <2>1. i \in Offset /\ i - GetBuffer \notin 0 .. Len(bytes) - 1
    BY <1>1, <1>2, <1>3, <1>6 DEF BufferInv, TypeOK, RegionsApart, Offset
  <2> QED
    BY <2>1 DEF Write
<1>7. ASSUME NEW j \in 1 .. Len(bytes)
      PROVE  mem'[mBRegionSize + j - 1] = bytes[j]
  <2>1. PICK k \in Offset : k = mBRegionSize + j - 1
    BY <1>1, <1>3, <1>7 DEF BufferInv, TypeOK, RegionsApart, Offset
  <2>2. k - GetBuffer \in 0 .. Len(bytes) - 1 /\ k - GetBuffer + 1 = j
    BY <1>1, <1>2, <1>7, <2>1 DEF BufferInv, TypeOK
  <2> QED
    BY <2>1, <2>2 DEF Write
<1>8. /\ mARegionPointer' = mARegionPointer /\ mBRegionPointer' = 0
      /\ mARegionSize' = mARegionSize /\ mBRegionSize' = mBRegionSize + Len(bytes)
  BY <1>2 DEF Write, Nullptr
<1> QED
  BY <1>3, <1>4, <1>5, <1>6, <1>7, <1>8

LEMMA WriteStores ==
  ASSUME BufferInv, NEW bytes \in Chunk, Write(bytes)
  PROVE  /\ Stored' = Stored \o bytes
         /\ Len(Stored) + Len(bytes) <= Capacity
<1> USE CapacityAssumption
<1>1. bytes \in Seq(Byte) /\ Len(bytes) \in Nat \ {0}
  BY ChunkIsSequence
<1>2. BufferInv'
  BY WriteKeepsInv
<1>3. /\ GetStoredSize' = GetStoredSize + Len(bytes)
      /\ GetStoredSize + Len(bytes) <= Capacity
  <2> DEFINE len == Len(bytes)
  <2>0. len \in Nat /\ TypeOK /\ mARegionPointer + mARegionSize <= Capacity
    BY <1>1 DEF BufferInv, RegionsApart
  <2>1. CASE AllocateB = Nullptr
    <3>1. /\ mBRegionSize = 0 /\ mBRegionSize' = 0 /\ mARegionSize' = mARegionSize + len
          /\ mARegionPointer + mARegionSize + len <= Capacity
      BY <2>1, WriteBehindA
    <3> HIDE DEF len
    <3>2. GetStoredSize' = GetStoredSize + len /\ GetStoredSize + len <= Capacity
      BY <2>0, <3>1 DEF TypeOK, GetStoredSize
    <3> QED
      BY <3>2 DEF len
  <2>2. CASE AllocateB # Nullptr
    <3>1. /\ mARegionSize' = mARegionSize /\ mBRegionSize' = mBRegionSize + len
          /\ mBRegionSize + len <= mARegionPointer
      BY <2>2, WriteBehindB
    <3> HIDE DEF len
    <3>2. GetStoredSize' = GetStoredSize + len /\ GetStoredSize + len <= Capacity
      BY <2>0, <3>1 DEF TypeOK, GetStoredSize
    <3> QED
      BY <3>2 DEF len
  <2> QED
    BY <2>1, <2>2
<1>4. StoredFacts /\ StoredFacts'
  BY <1>2, StoredIsSequence, StoredIsSequenceAfter
<1>5. ASSUME NEW i \in 1 .. GetStoredSize
      PROVE  StoredAt(i)' = StoredAt(i)
  <2>1. CASE AllocateB = Nullptr
    <3>1. i <= mARegionSize /\ i <= mARegionSize'
      BY <1>1, <1>5, <2>1, WriteBehindA DEF BufferInv, TypeOK, GetStoredSize
    <3>2. mem'[mARegionPointer + i - 1] = mem[mARegionPointer + i - 1]
      <4>1. mARegionPointer + i - 1 \in 0 .. mARegionPointer + mARegionSize - 1
        BY <1>5, <3>1 DEF BufferInv, TypeOK, GetStoredSize
      <4> QED
        BY <2>1, <4>1, WriteBehindA
    <3> QED
      BY <2>1, <3>1, <3>2, WriteBehindA DEF StoredAt
  <2>2. CASE AllocateB # Nullptr /\ i <= mARegionSize
    <3>1. mARegionPointer + i - 1 \in mARegionPointer .. mARegionPointer + mARegionSize - 1
      BY <1>5, <2>2 DEF BufferInv, TypeOK, GetStoredSize
    <3>2. mem'[mARegionPointer + i - 1] = mem[mARegionPointer + i - 1]
      BY <2>2, <3>1, WriteBehindB
    <3> QED
      BY <2>2, <3>2, WriteBehindB DEF StoredAt
  <2>3. CASE AllocateB # Nullptr /\ i > mARegionSize
    <3>1. i - mARegionSize - 1 \in 0 .. mBRegionSize - 1 /\ mBRegionSize > 0
      BY <1>5, <2>3 DEF BufferInv, TypeOK, GetStoredSize
    <3>2. /\ mBRegionPointer = 0
          /\ mem'[i - mARegionSize - 1] = mem[i - mARegionSize - 1]
      BY <2>3, <3>1, WriteBehindB
    <3>3. ~(i <= mARegionSize) /\ mBRegionPointer + i - mARegionSize - 1 = i - mARegionSize - 1
      BY <1>5, <2>3, <3>2 DEF BufferInv, TypeOK, GetStoredSize
    <3>4. mBRegionPointer' = mBRegionPointer /\ mARegionSize' = mARegionSize
      BY <2>3, <3>2, WriteBehindB
    <3> QED
      BY <3>2, <3>3, <3>4 DEF StoredAt
  <2> QED
    BY <1>5, <2>1, <2>2, <2>3 DEF BufferInv, TypeOK, GetStoredSize
<1>6. ASSUME NEW i \in 1 .. Len(bytes), NEW n \in Nat, n = GetStoredSize + i
      PROVE  StoredAt(n)' = bytes[i]
  <2>1. CASE AllocateB = Nullptr
    <3>1. n = mARegionSize + i
      BY <1>6, <2>1, WriteBehindA DEF BufferInv, TypeOK, GetStoredSize
    <3>2. /\ n <= mARegionSize'
          /\ mARegionPointer' + n - 1 = mARegionPointer + mARegionSize + i - 1
      BY <1>1, <1>6, <2>1, <3>1, WriteBehindA DEF BufferInv, TypeOK
    <3>3. mem'[mARegionPointer' + n - 1] = bytes[i]
      BY <1>6, <2>1, <3>2, WriteBehindA
    <3> QED
      BY <3>2, <3>3 DEF StoredAt
  <2>2. CASE AllocateB # Nullptr
    <3>1. n = mARegionSize + mBRegionSize + i
      BY <1>6 DEF BufferInv, TypeOK, GetStoredSize
    <3>2. /\ ~(n <= mARegionSize')
          /\ mBRegionPointer' + n - mARegionSize' - 1 = mBRegionSize + i - 1
      <4>1. mBRegionPointer' = 0 /\ mARegionSize' = mARegionSize
        BY <2>2, WriteBehindB
      <4> QED
        BY <1>6, <3>1, <4>1 DEF BufferInv, TypeOK
    <3>3. mem'[mBRegionPointer' + n - mARegionSize' - 1] = bytes[i]
      BY <1>6, <2>2, <3>2, WriteBehindB
    <3> QED
      BY <3>2, <3>3 DEF StoredAt
  <2> QED
    BY <2>1, <2>2
<1>7. ASSUME NEW i \in 1 .. GetStoredSize + Len(bytes)
      PROVE  Stored'[i] = (Stored \o bytes)[i]
  <2>1. CASE i <= GetStoredSize
    BY <1>1, <1>3, <1>4, <1>5, <1>7, <2>1 DEF StoredFacts
  <2>2. CASE i > GetStoredSize
    <3>1. i - GetStoredSize \in 1 .. Len(bytes)
      BY <1>1, <1>4, <1>7, <2>2 DEF StoredFacts
    <3>2. StoredAt(i)' = bytes[i - GetStoredSize]
      <4>1. PICK j \in 1 .. Len(bytes) : j = i - GetStoredSize
        BY <3>1
      <4>2. i = GetStoredSize + j
        BY <1>4, <1>7, <4>1 DEF StoredFacts
      <4> QED
        BY <1>6, <4>1, <4>2
    <3> QED
      BY <1>1, <1>3, <1>4, <1>7, <2>2, <3>1, <3>2 DEF StoredFacts
  <2> QED
    BY <1>4, <1>7, <2>1, <2>2 DEF StoredFacts
<1>8. Stored \o bytes \in Seq(Byte) /\ Len(Stored \o bytes) = GetStoredSize + Len(bytes)
  BY <1>1, <1>4 DEF StoredFacts
<1> QED
  BY <1>1, <1>3, <1>4, <1>7, <1>8, SeqEqual DEF StoredFacts

\* What a removal of n bytes leaves: the byte that was stored (n + i)-th is the i-th.
Drops(n) ==
  /\ n \in 0 .. GetStoredSize
  /\ GetStoredSize' = GetStoredSize - n

LEMMA DropIsSubSeq ==
  ASSUME BufferInv, BufferInv', NEW n \in Nat, Drops(n),
         NEW after, after = Stored',
         \A i \in 1 .. GetStoredSize' : after[i] = StoredAt(n + i)
  PROVE  /\ n \in 0 .. Len(Stored)
         /\ after = SubSeq(Stored, n + 1, Len(Stored))
<1>1. StoredFacts /\ StoredFacts'
  BY StoredIsSequence, StoredIsSequenceAfter
<1>2. n \in 0 .. Len(Stored) /\ Len(Stored) \in Nat
  BY <1>1 DEF Drops, StoredFacts
<1>3. after \in Seq(Byte) /\ Len(after) = Len(Stored) - n
  BY <1>1 DEF Drops, StoredFacts
<1> DEFINE rest == SubSeq(Stored, n + 1, Len(Stored))
<1>4. /\ rest \in Seq(Byte) /\ Len(rest) = Len(Stored) - n
      /\ \A i \in 1 .. Len(Stored) - n : rest[i] = Stored[n + i]
  BY <1>1, <1>2, SubSeqProperties DEF StoredFacts
<1>5. ASSUME NEW i \in 1 .. Len(after)
      PROVE  after[i] = rest[i]
  <2>1. i \in 1 .. GetStoredSize' /\ n + i \in 1 .. GetStoredSize
    BY <1>1, <1>2, <1>3 DEF StoredFacts
  <2>2. after[i] = StoredAt(n + i) /\ Stored[n + i] = StoredAt(n + i)
    BY <1>1, <2>1 DEF StoredFacts
  <2>3. rest[i] = Stored[n + i]
    BY <1>3, <1>4
  <2> QED
    BY <2>2, <2>3
<1> HIDE DEF rest
<1>6. after = rest
  BY <1>3, <1>4, <1>5, SeqEqual
<1> QED
  BY <1>2, <1>6 DEF rest

\* Removing from A leaves the rest of A and all of B.
LEMMA RemoveFromADrops ==
  ASSUME BufferInv, NEW len \in 0 .. Capacity, RemoveFromA(len)
  PROVE  /\ Drops(len)
         /\ \A i \in 1 .. GetStoredSize' : StoredAt(i)' = StoredAt(len + i)
<1> USE CapacityAssumption
<1>1. Drops(len)
  BY DEF BufferInv, TypeOK, Drops, GetStoredSize, RemoveFromA
<1>2. ASSUME NEW i \in 1 .. GetStoredSize'
      PROVE  StoredAt(i)' = StoredAt(len + i)
  <2>1. CASE i <= mARegionSize - len
    BY <1>2, <2>1 DEF BufferInv, TypeOK, GetStoredSize, RemoveFromA, StoredAt
  <2>2. CASE i > mARegionSize - len
    <3>1. ~(i <= mARegionSize') /\ ~(len + i <= mARegionSize)
      BY <1>2, <2>2 DEF BufferInv, TypeOK, GetStoredSize, RemoveFromA
    <3>2. mBRegionPointer' + i - mARegionSize' - 1 = mBRegionPointer + (len + i) - mARegionSize - 1
      BY <1>2 DEF BufferInv, TypeOK, GetStoredSize, RemoveFromA, Nullptr
    <3> QED
      BY <3>1, <3>2 DEF StoredAt, RemoveFromA
  <2> QED
    BY <1>2, <2>1, <2>2 DEF BufferInv, TypeOK, GetStoredSize, RemoveFromA
<1> QED
  BY <1>1, <1>2

\* Removing all of A and part of B leaves the rest of B, moved to the front.
LEMMA RemoveAndSwitchDrops ==
  ASSUME BufferInv, NEW len \in 0 .. Capacity, RemoveAndSwitch(len)
  PROVE  \E n \in Nat :
           /\ Drops(n)
           /\ \A i \in 1 .. GetStoredSize' : StoredAt(i)' = StoredAt(n + i)
<1> USE CapacityAssumption
<1>1. PICK removed \in Nat : removed = Lesser(len - mARegionSize, mBRegionSize)
  BY DEF BufferInv, TypeOK, Lesser, RemoveAndSwitch
<1>2. /\ removed < mBRegionSize
      /\ mARegionSize' = mBRegionSize - removed /\ mARegionPointer' = 0
      /\ mBRegionSize' = 0
      /\ mem' = [i \in Offset |->
           IF i < mBRegionSize - removed THEN mem[mBRegionPointer + removed + i] ELSE mem[i]]
  BY <1>1 DEF RemoveAndSwitch
<1>3. PICK n \in Nat : n = mARegionSize + removed
  BY DEF BufferInv, TypeOK
<1>4. Drops(n)
  BY <1>2, <1>3 DEF BufferInv, TypeOK, Drops, GetStoredSize
<1>5. ASSUME NEW i \in 1 .. GetStoredSize'
      PROVE  StoredAt(i)' = StoredAt(n + i)
  <2>1. i \in Nat /\ i >= 1 /\ i <= mBRegionSize - removed
    BY <1>2, <1>5 DEF BufferInv, TypeOK, GetStoredSize
  <2>2. PICK k \in Offset : k = i - 1 /\ k < mBRegionSize - removed
    BY <1>2, <2>1 DEF BufferInv, TypeOK, RegionsApart, Offset
  <2>3. mem'[k] = mem[mBRegionPointer + removed + k]
    BY <1>2, <2>2
  <2>4. i <= mARegionSize' /\ mARegionPointer' + i - 1 = k
    BY <1>2, <2>1, <2>2
  <2>5. /\ ~(n + i <= mARegionSize)
        /\ mBRegionPointer + (n + i) - mARegionSize - 1 = mBRegionPointer + removed + k
    BY <1>3, <2>1, <2>2 DEF BufferInv, TypeOK, Nullptr
  <2> QED
    BY <2>3, <2>4, <2>5 DEF StoredAt
<1> QED
  BY <1>4, <1>5

\* Removing everything leaves nothing.
LEMMA EmptiedDrops ==
  ASSUME BufferInv, GetStoredSize' = 0
  PROVE  \E n \in Nat :
           /\ Drops(n)
           /\ \A i \in 1 .. GetStoredSize' : StoredAt(i)' = StoredAt(n + i)
<1>1. GetStoredSize \in Nat
  BY CapacityAssumption DEF BufferInv, TypeOK, GetStoredSize
<1>2. PICK n \in Nat : n = GetStoredSize
  BY <1>1
<1>3. Drops(n)
  BY <1>2 DEF Drops
<1> QED
  BY <1>3

\* Every step that drops bytes removes the oldest ones and keeps the order of the others.
LEMMA DroppedIsRemove ==
  ASSUME BufferInv, BufferInv',
         \E n \in Nat :
           /\ Drops(n)
           /\ \A i \in 1 .. GetStoredSize' : StoredAt(i)' = StoredAt(n + i)
  PROVE  \E n \in 0 .. Len(Stored) : Stored' = SubSeq(Stored, n + 1, Len(Stored))
<1>1. PICK n \in Nat :
        /\ Drops(n)
        /\ \A i \in 1 .. GetStoredSize' : StoredAt(i)' = StoredAt(n + i)
  OBVIOUS
<1>2. StoredFacts'
  BY StoredIsSequenceAfter
<1>3. PICK after : after = Stored'
  OBVIOUS
<1>4. ASSUME NEW i \in 1 .. GetStoredSize'
      PROVE  after[i] = StoredAt(n + i)
  BY <1>1, <1>2, <1>3, <1>4 DEF StoredFacts
<1>5. n \in 0 .. Len(Stored) /\ after = SubSeq(Stored, n + 1, Len(Stored))
  BY <1>1, <1>3, <1>4, DropIsSubSeq
<1> QED
  BY <1>3, <1>5

LEMMA RemoveRefines ==
  ASSUME BufferInv, NEW len \in 0 .. Capacity, Remove(len)
  PROVE  \E n \in 0 .. Len(Stored) : Stored' = SubSeq(Stored, n + 1, Len(Stored))
<1>1. BufferInv'
  BY RemoveKeepsInv
<1>2. CASE RemoveFromA(len)
  BY <1>1, <1>2, RemoveFromADrops, DroppedIsRemove
<1>3. CASE RemoveAndSwitch(len)
  BY <1>1, <1>3, RemoveAndSwitchDrops, DroppedIsRemove
<1>4. CASE RemoveAll(len)
  <2>1. GetStoredSize' = 0
    BY <1>4 DEF RemoveAll, GetStoredSize
  <2> QED
    BY <1>1, <2>1, EmptiedDrops, DroppedIsRemove
<1> QED
  BY <1>2, <1>3, <1>4 DEF Remove

\* What does not touch the regions does not touch the queue.  A refused write
\* may allocate B, which is empty then.
LEMMA RefusedLeavesStored ==
  ASSUME BufferInv, NEW len \in 1 .. MaxWrite, WriteRefused(len)
  PROVE  Stored' = Stored
<1>1. GetStoredSize' = GetStoredSize
  BY DEF WriteRefused, GetStoredSize
<1>2. ASSUME NEW i \in 1 .. GetStoredSize
      PROVE  StoredAt(i)' = StoredAt(i)
  <2>1. mBRegionPointer' = mBRegionPointer \/ mBRegionSize = 0
    BY DEF BufferInv, RegionsApart, WriteRefused, AllocateB
  <2>2. CASE mBRegionPointer' = mBRegionPointer
    BY <2>2 DEF WriteRefused, StoredAt
  <2>3. CASE mBRegionSize = 0
    <3>1. i <= mARegionSize
      BY <1>2, <2>3 DEF BufferInv, TypeOK, GetStoredSize
    <3> QED
      BY <3>1 DEF WriteRefused, StoredAt
  <2> QED
    BY <2>1, <2>2, <2>3
<1>3. Stored = [i \in 1 .. GetStoredSize |-> StoredAt(i)]
  BY DEF Stored, StoredAt
<1>4. Stored' = [i \in 1 .. GetStoredSize' |-> StoredAt(i)']
  BY DEF Stored, StoredAt
<1> QED
  BY <1>1, <1>2, <1>3, <1>4

LEMMA ResetStores ==
  ASSUME BufferInv, BufferReset
  PROVE  \E n \in 0 .. Len(Stored) : Stored' = SubSeq(Stored, n + 1, Len(Stored))
<1>1. BufferInv' /\ GetStoredSize' = 0
  BY ResetKeepsInv DEF BufferReset, GetStoredSize
<1> QED
  BY <1>1, EmptiedDrops, DroppedIsRemove

\* A write leaves what is stored in place, and the reader's piece the first one.
LEMMA WriteKeepsStored ==
  ASSUME BufferInv, NEW bytes \in Chunk, Write(bytes)
  PROVE  StoredStays
<1> USE CapacityAssumption
<1>1. PICK len \in Nat : len = Len(bytes)
  BY ChunkIsSequence
<1>2. CASE AllocateB = Nullptr
  <2>1. /\ mBRegionSize = 0 /\ mBRegionSize' = 0
        /\ mARegionPointer' = mARegionPointer /\ mARegionSize' = mARegionSize + len
        /\ \A i \in 0 .. mARegionPointer + mARegionSize - 1 : mem'[i] = mem[i]
    BY <1>1, <1>2, WriteBehindA
  <2>2. ASSUME NEW i \in Held
        PROVE  i \in Held' /\ mem'[i] = mem[i]
    <3>1. i \in Offset /\ i - mARegionPointer \in 0 .. mARegionSize - 1
      BY <2>1 DEF Held, BufferInv, TypeOK, Nullptr, Offset
    <3>2. i - mARegionPointer' \in 0 .. mARegionSize' - 1
      BY <2>1, <3>1 DEF BufferInv, TypeOK, Offset
    <3>3. i \in 0 .. mARegionPointer + mARegionSize - 1
      BY <3>1 DEF BufferInv, TypeOK, Offset
    <3> QED
      BY <2>1, <3>1, <3>2, <3>3 DEF Held
  <2>3. GetStoredSize > 0 => mARegionSize > 0
    BY <2>1 DEF BufferInv, TypeOK, GetStoredSize
  <2> QED
    BY <2>1, <2>2, <2>3
       DEF StoredStays, BufferInv, TypeOK, GetBufferStart, GetContiguiousBytes
<1>3. CASE AllocateB # Nullptr
  <2>1. /\ mARegionPointer' = mARegionPointer /\ mARegionSize' = mARegionSize
        /\ mBRegionPointer' = 0 /\ mBRegionSize' = mBRegionSize + len
        /\ mBRegionSize > 0 => mBRegionPointer = 0
        /\ \A i \in mARegionPointer .. mARegionPointer + mARegionSize - 1 : mem'[i] = mem[i]
        /\ \A i \in 0 .. mBRegionSize - 1 : mem'[i] = mem[i]
    BY <1>1, <1>3, WriteBehindB
  <2>2. ASSUME NEW i \in Held
        PROVE  i \in Held' /\ mem'[i] = mem[i]
    <3>1. CASE i - mARegionPointer \in 0 .. mARegionSize - 1
      <4>1. i \in Offset /\ i \in mARegionPointer .. mARegionPointer + mARegionSize - 1
        BY <3>1 DEF Held, BufferInv, TypeOK, Offset
      <4> QED
        BY <2>1, <3>1, <4>1 DEF Held
    <3>2. CASE i - mBRegionPointer \in 0 .. mBRegionSize - 1
      <4>1. i \in Offset /\ i \in 0 .. mBRegionSize - 1
        BY <2>1, <3>2 DEF Held, BufferInv, TypeOK, Offset, Nullptr
      <4>2. i - mBRegionPointer' \in 0 .. mBRegionSize' - 1
        BY <2>1, <4>1 DEF BufferInv, TypeOK
      <4> QED
        BY <2>1, <4>1, <4>2 DEF Held
    <3> QED
      BY <3>1, <3>2 DEF Held
  <2>3. mARegionSize > 0
    BY <1>3 DEF BufferInv, TypeOK, EmptyIsWhole, AllocateB, GetAFreeSpace, GetSpaceBeforeA, Nullptr
  <2> QED
    BY <2>1, <2>2, <2>3
       DEF StoredStays, BufferInv, TypeOK, GetBufferStart, GetContiguiousBytes
<1> QED
  BY <1>2, <1>3

\* So does a refused write: the B it may have allocated is empty.
LEMMA RefusedKeepsStored ==
  ASSUME BufferInv, NEW len \in Nat, WriteRefused(len)
  PROVE  StoredStays
<1> USE CapacityAssumption
<1>1. /\ mBRegionPointer' = mBRegionPointer \/ mBRegionSize = 0
      /\ UNCHANGED <<mem, mARegionPointer, mARegionSize, mBRegionSize>>
  BY DEF BufferInv, RegionsApart, WriteRefused, AllocateB
<1>2. ASSUME NEW i \in Held
      PROVE  i \in Held' /\ mem'[i] = mem[i]
  <2>1. CASE mBRegionPointer' = mBRegionPointer
    BY <1>1, <2>1 DEF Held
  <2>2. CASE mBRegionSize = 0
    <3>1. i \in Offset /\ i - mARegionPointer \in 0 .. mARegionSize - 1
      BY <2>2 DEF Held, BufferInv, TypeOK, Nullptr, Offset
    <3> QED
      BY <1>1, <3>1 DEF Held
  <2> QED
    BY <1>1, <2>1, <2>2
<1>3. /\ GetStoredSize > 0 => GetBufferStart' = GetBufferStart
      /\ GetContiguiousBytes' = GetContiguiousBytes /\ GetContiguiousBytes \in Nat
  BY <1>1 DEF BufferInv, TypeOK, GetStoredSize, GetBufferStart, GetContiguiousBytes
<1> QED
  BY <1>2, <1>3 DEF StoredStays

\* Neither a write nor a refused one moves, changes or reorders what a reader was given:
\* the kernel may read the piece FlushSend lent it while handlers write.
THEOREM StoredBytesUntouched == Spec => StoredBytesStay
<1>1. BufferInv =>
        ((\E bytes \in Chunk : Write(bytes)) \/ (\E len \in 1 .. MaxWrite : WriteRefused(len))
           => StoredStays)
  BY WriteKeepsStored, RefusedKeepsStored
<1>2. BufferInv /\ [Next]_vars
        => [(\E bytes \in Chunk : Write(bytes)) \/ (\E len \in 1 .. MaxWrite : WriteRefused(len))
              => StoredStays]_vars
  BY <1>1
<1> QED
  BY <1>2, Invariance, PTL DEF Spec, StoredBytesStay

\* A write puts its bytes behind everything that was stored, whichever region takes
\* them (GetFreeSpaceSize, GetBuffer, Commit).
THEOREM WritesAppend == Spec => WriteAppends
<1>1. BufferInv => \A bytes \in Chunk : Write(bytes) => Stored' = Stored \o bytes
  BY WriteStores
<1>2. BufferInv /\ [Next]_vars
        => [\A bytes \in Chunk : Write(bytes) => Stored' = Stored \o bytes]_vars
  BY <1>1
<1> QED
  BY <1>2, Invariance, PTL DEF Spec, WriteAppends

LEMMA FifoStep == BufferInv /\ [Next]_vars => [Fifo!Next]_Stored
<1> SUFFICES ASSUME BufferInv, [Next]_vars
             PROVE  Fifo!Next \/ Stored' = Stored
  OBVIOUS
<1>1. ASSUME NEW bytes \in Chunk, Write(bytes)
      PROVE  Fifo!Next
  BY <1>1, WriteStores DEF Fifo!Next, Fifo!Write
<1>2. ASSUME NEW len \in 1 .. MaxWrite, WriteRefused(len)
      PROVE  Stored' = Stored
  BY <1>2, RefusedLeavesStored
<1>3. ASSUME NEW len \in 0 .. Capacity, Remove(len)
      PROVE  Fifo!Next
  BY <1>3, RemoveRefines DEF Fifo!Next, Fifo!Remove
<1>4. CASE BufferReset
  BY <1>4, ResetStores DEF Fifo!Next, Fifo!Remove
<1>5. CASE UNCHANGED vars
  BY <1>5 DEF vars, Stored, GetStoredSize
<1> QED
  BY <1>1, <1>2, <1>3, <1>4, <1>5 DEF Next

\* For every capacity and every choice of bytes the two regions behave as one bounded
\* first-in first-out queue.
THEOREM FifoRefinement == Spec => ImplementsFifo
<1>1. Init => Fifo!Init
  <2> SUFFICES ASSUME Init
               PROVE  Stored = << >>
    BY DEF Fifo!Init
  <2>1. BufferInv /\ GetStoredSize = 0
    BY InvInit DEF Init, GetStoredSize
  <2> QED
    BY <2>1, StoredIsSequence DEF StoredFacts
<1> QED
  BY <1>1, FifoStep, Invariance, PTL DEF Spec, ImplementsFifo, Fifo!Spec
=============================================================================
