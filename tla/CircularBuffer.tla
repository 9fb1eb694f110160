--------------------------- MODULE CircularBuffer ---------------------------
(***************************************************************************)
(* CircularBuffer (HW_08, the same class in every version): a bip buffer.  *)
(* Stored bytes lie in region A and then, once the space behind A is the   *)
(* smaller one, in region B at the start of the memory, so that a reader   *)
(* or a writer always has one contiguous piece to hand to the kernel.      *)
(*                                                                         *)
(* Pointers are offsets into mBuffer.  The object is not thread safe: its  *)
(* users hold mSendBufferLock, or own the one receive of the session, so a *)
(* step is a whole call, and a write is the sequence every user makes of   *)
(* it: GetFreeSpaceSize, a copy to GetBuffer(), Commit.                    *)
(***************************************************************************)
EXTENDS Integers, Sequences

CONSTANTS
  Byte,                 (* the values of a byte *)
  Zero,                 (* the one BufferReset clears the memory with *)
  Capacity,             (* mCapacity *)
  MaxWrite              (* the most bytes written at once *)

ASSUME CapacityAssumption == Capacity \in Nat /\ MaxWrite \in Nat

Nullptr == -1

ASSUME ZeroAssumption == Zero \in Byte

VARIABLES
  mem,                  (* the bytes at mBuffer *)
  mARegionPointer, mARegionSize,
  mBRegionPointer, mBRegionSize

vars == <<mem, mARegionPointer, mARegionSize, mBRegionPointer, mBRegionSize>>

Offset == 0 .. Capacity - 1

Chunk == UNION { [1 .. n -> Byte] : n \in 1 .. MaxWrite }

\* The constructor does not clear the memory.
Init ==
  /\ mem \in [Offset -> Byte]
  /\ mARegionPointer = 0 /\ mARegionSize = 0
  /\ mBRegionPointer = Nullptr /\ mBRegionSize = 0

GetStoredSize == mARegionSize + mBRegionSize

GetContiguiousBytes == IF mARegionSize > 0 THEN mARegionSize ELSE mBRegionSize

GetBufferStart == IF mARegionSize > 0 THEN mARegionPointer ELSE mBRegionPointer

GetAFreeSpace == Capacity - mARegionPointer - mARegionSize

GetSpaceBeforeA == mARegionPointer

\* mBRegionPointer after GetFreeSpaceSize, which calls AllocateB when there
\* is more room before A than behind it.
AllocateB ==
  IF mBRegionPointer = Nullptr /\ GetAFreeSpace < GetSpaceBeforeA THEN 0 ELSE mBRegionPointer

\* Faulty: B may grow to the end of the memory.
BRunsIntoA ==
  IF AllocateB = Nullptr THEN GetAFreeSpace ELSE Capacity - AllocateB - mBRegionSize

\* Its result.
GetFreeSpaceSize ==
  IF AllocateB = Nullptr THEN GetAFreeSpace ELSE mARegionPointer - AllocateB - mBRegionSize

\* GetBuffer after that call.
GetBuffer ==
  IF AllocateB = Nullptr THEN mARegionPointer + mARegionSize ELSE AllocateB + mBRegionSize

\* The caller gives up when its bytes do not fit, but B may have been allocated.
WriteRefused(len) ==
  /\ GetFreeSpaceSize < len
  /\ mBRegionPointer' = AllocateB
  /\ UNCHANGED <<mem, mARegionPointer, mARegionSize, mBRegionSize>>

Write(bytes) ==
  /\ GetFreeSpaceSize >= Len(bytes)
  /\ mem' = [i \in Offset |->
       IF i - GetBuffer \in 0 .. Len(bytes) - 1 THEN bytes[i - GetBuffer + 1] ELSE mem[i]]
  /\ mBRegionPointer' = AllocateB
  /\ IF AllocateB = Nullptr
     THEN mARegionSize' = mARegionSize + Len(bytes) /\ UNCHANGED mBRegionSize
     ELSE mBRegionSize' = mBRegionSize + Len(bytes) /\ UNCHANGED mARegionSize
  /\ UNCHANGED mARegionPointer

Lesser(m, n) == IF m > n THEN n ELSE m

\* Faulty: the pointer moves and the size stays.
PointerOnly(len) ==
  /\ len < mARegionSize
  /\ mARegionPointer' = mARegionPointer + len
  /\ UNCHANGED <<mem, mARegionSize, mBRegionPointer, mBRegionSize>>

\* A is longer than what is removed.
RemoveFromA(len) ==
  /\ len < mARegionSize
  /\ mARegionPointer' = mARegionPointer + len
  /\ mARegionSize' = mARegionSize - len
  /\ UNCHANGED <<mem, mBRegionPointer, mBRegionSize>>

\* Faulty: B becomes A where the bytes are not.
NotMovedToFront(len) ==
  LET removed == Lesser(len - mARegionSize, mBRegionSize)
  IN  /\ len >= mARegionSize
      /\ removed < mBRegionSize
      /\ UNCHANGED mem
      /\ mARegionPointer' = 0
      /\ mARegionSize' = mBRegionSize - removed
      /\ mBRegionPointer' = Nullptr
      /\ mBRegionSize' = 0

\* A is emptied and B is not: what is left of B moves to the front and becomes A.
RemoveAndSwitch(len) ==
  LET removed == Lesser(len - mARegionSize, mBRegionSize)
  IN  /\ len >= mARegionSize
      /\ removed < mBRegionSize
      /\ mem' = [i \in Offset |->
           IF i < mBRegionSize - removed THEN mem[mBRegionPointer + removed + i] ELSE mem[i]]
      /\ mARegionPointer' = 0
      /\ mARegionSize' = mBRegionSize - removed
      /\ mBRegionPointer' = Nullptr
      /\ mBRegionSize' = 0

\* Both are emptied: the next write starts at the front.
RemoveAll(len) ==
  /\ len >= mARegionSize + mBRegionSize
  /\ mARegionPointer' = 0
  /\ mARegionSize' = 0
  /\ mBRegionPointer' = Nullptr
  /\ mBRegionSize' = 0
  /\ UNCHANGED mem

Remove(len) == RemoveFromA(len) \/ RemoveAndSwitch(len) \/ RemoveAll(len)

BufferReset ==
  /\ mem' = [i \in Offset |-> Zero]
  /\ mARegionPointer' = 0 /\ mARegionSize' = 0
  /\ mBRegionPointer' = Nullptr /\ mBRegionSize' = 0

Next ==
  \/ \E bytes \in Chunk : Write(bytes)
  \/ \E len \in 1 .. MaxWrite : WriteRefused(len)
  \/ \E len \in 0 .. Capacity : Remove(len)
  \/ BufferReset

Spec == Init /\ [][Next]_vars
-----------------------------------------------------------------------------
TypeOK ==
  /\ mem \in [Offset -> Byte]
  /\ mARegionPointer \in 0 .. Capacity
  /\ mARegionSize \in 0 .. Capacity
  /\ mBRegionPointer \in {Nullptr, 0}
  /\ mBRegionSize \in 0 .. Capacity

\* Region A ends inside the memory, and B, which always starts at the front,
\* ends before A starts: no write (Commit, GetBuffer) reaches stored bytes.
RegionsApart ==
  /\ mARegionPointer + mARegionSize <= Capacity
  /\ mBRegionSize <= mARegionPointer
  /\ mBRegionPointer = Nullptr => mBRegionSize = 0

\* B is used only behind a non-empty A, and an empty buffer offers its whole
\* memory: the switch in GetFreeSpaceSize and the one in Remove leave no hole
\* that only a reset would close.
EmptyIsWhole ==
  /\ mARegionSize = 0 => mARegionPointer = 0 /\ mBRegionPointer = Nullptr
  /\ GetStoredSize = 0 => GetFreeSpaceSize = Capacity

\* The stored bytes, in the order the readers take them: A, then B.
Stored ==
  [i \in 1 .. GetStoredSize |->
     IF i <= mARegionSize
     THEN mem[mARegionPointer + i - 1]
     ELSE mem[mBRegionPointer + i - mARegionSize - 1]]

\* Where stored bytes lie.
Held ==
  { i \in Offset : \/ i - mARegionPointer \in 0 .. mARegionSize - 1
                  \/ i - mBRegionPointer \in 0 .. mBRegionSize - 1 }

\* Every stored byte is where and as it was, and the piece a reader was given
\* (GetBufferStart, GetContiguiousBytes) is still the first one.
StoredStays ==
  /\ \A i \in Held : i \in Held' /\ mem'[i] = mem[i]
  /\ GetStoredSize > 0 =>
       /\ GetBufferStart' = GetBufferStart
       /\ GetContiguiousBytes' >= GetContiguiousBytes

\* A writer (GetFreeSpaceSize, the copy to GetBuffer, Commit) disturbs nothing a reader
\* was given: the kernel reads the piece FlushSend lent it while handlers write, and the
\* completion removes that piece.
StoredBytesStay ==
  [][(\E bytes \in Chunk : Write(bytes)) \/ (\E len \in 1 .. MaxWrite : WriteRefused(len))
       => StoredStays]_vars

\* What a caller writes is what a reader finds behind everything that was
\* stored before, whichever region it went to.
WriteAppends ==
  [][\A bytes \in Chunk : Write(bytes) => Stored' = Stored \o bytes]_vars

Fifo == INSTANCE ByteFifo WITH queue <- Stored

\* The two regions, the switches between them and the memmove in Remove are
\* invisible: the buffer is a bounded byte queue.
ImplementsFifo == Fifo!Spec
=============================================================================
