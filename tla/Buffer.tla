------------------------------- MODULE Buffer -------------------------------
(***************************************************************************)
(* Buffer (Buffer.h, Buffer.cc): a vector of bytes with a reader and a     *)
(* writer index; what lies between them is readable, and the room before   *)
(* the reader index serves prepend() and is reclaimed by makeSpace().      *)
(*                                                                         *)
(* The operators take and return a buffer [mem, size, readerIndex,         *)
(* writerIndex], mem being indexed from 0 as in C++.  The integer          *)
(* operations (appendInt32, readInt16, ...) append, read and prepend as    *)
(* many bytes as the integer has.                                          *)
(***************************************************************************)
EXTENDS Naturals, Sequences

CONSTANTS Byte,
          Zero,          \* what resize() fills new memory with
          CheapPrepend,  \* kCheapPrepend
          InitialSize,   \* initialSize
          ExtraSize,     \* sizeof extrabuf in readFd
          MaxLen,        \* bound: bytes added by one call
          MaxSize        \* bound: size of the vector

ASSUME ByteAssumption == Zero \in Byte
ASSUME SizeAssumption == /\ CheapPrepend \in Nat /\ InitialSize \in Nat
                         /\ ExtraSize \in Nat /\ MaxLen \in Nat /\ MaxSize \in Nat

VARIABLES buf,   \* the buffer
          io     \* history: the bytes that the last call was given or returned

vars == <<buf, io>>

Readable(b) == b.writerIndex - b.readerIndex
Writable(b) == b.size - b.writerIndex
Prependable(b) == b.readerIndex

(* The readable bytes: peek() and readableBytes(). *)
Content(b) == [i \in 1..Readable(b) |-> b.mem[b.readerIndex + i - 1]]

-----------------------------------------------------------------------------
Buf(mem, size, r, w) ==
  [mem |-> mem, size |-> size, readerIndex |-> r, writerIndex |-> w]

(* mem with s copied to index "at". *)
Copied(b, s, at) ==
  [i \in 0..(b.size - 1) |->
     IF at <= i /\ i < at + Len(s) THEN s[i - at + 1] ELSE b.mem[i]]

(* buffer_.resize(n), n not below the size. *)
Resized(b, n) ==
  Buf([i \in 0..(n - 1) |-> IF i < b.size THEN b.mem[i] ELSE Zero],
      n, b.readerIndex, b.writerIndex)

(* The else branch of makeSpace: the readable bytes move to the front. *)
Compacted(b) ==
  Buf(Copied(b, Content(b), CheapPrepend),
      b.size, CheapPrepend, CheapPrepend + Readable(b))

(* Mutant: the room reserved for prepend() is counted as free. *)
MustGrowForgetsPrepend(b, len) == Writable(b) + Prependable(b) < len

MustGrow(b, len) == Writable(b) + Prependable(b) < len + CheapPrepend

MakeSpace(b, len) ==
  IF MustGrow(b, len) THEN Resized(b, b.writerIndex + len) ELSE Compacted(b)

EnsureWritableBytes(b, len) == IF Writable(b) < len THEN MakeSpace(b, len) ELSE b

(* std::copy to beginWrite() and hasWritten(). *)
Written(b, s) ==
  Buf(Copied(b, s, b.writerIndex), b.size, b.readerIndex, b.writerIndex + Len(s))

Appended(b, s) == Written(EnsureWritableBytes(b, Len(s)), s)

Prepended(b, s) ==
  Buf(Copied(b, s, b.readerIndex - Len(s)),
      b.size, b.readerIndex - Len(s), b.writerIndex)

RetrievedAll(b) == Buf(b.mem, b.size, CheapPrepend, CheapPrepend)

Advanced(b, len) == Buf(b.mem, b.size, b.readerIndex + len, b.writerIndex)

(* Mutant: retrieve() resets when one byte is left. *)
RetrievedTooMuch(b, len) ==
  IF len + 1 < Readable(b) THEN Advanced(b, len) ELSE RetrievedAll(b)

Retrieved(b, len) ==
  IF len < Readable(b) THEN Advanced(b, len) ELSE RetrievedAll(b)

(* readFd when readv() delivers s: what does not fit goes through extrabuf. *)
ReadFrom(b, s) ==
  IF Len(s) <= Writable(b)
  THEN Written(b, s)
  ELSE Appended(Written(b, SubSeq(s, 1, Writable(b))), SubSeq(s, Writable(b) + 1, Len(s)))

(* The most that readv() can deliver. *)
ReadLimit(b) == IF Writable(b) < ExtraSize THEN Writable(b) + ExtraSize ELSE Writable(b)

-----------------------------------------------------------------------------
(* The constructor, for a vector of n bytes. *)
Empty(n) == Buf([i \in 0..(n - 1) |-> Zero], n, CheapPrepend, CheapPrepend)

Init ==
  /\ buf = Empty(CheapPrepend + InitialSize)
  /\ io = <<>>

Chunk == UNION {[1..n -> Byte] : n \in 0..MaxLen}

AppendBytes(s) == /\ Appended(buf, s).size <= MaxSize
              /\ buf' = Appended(buf, s)
              /\ io' = s

Prepend(s) == /\ Len(s) <= Prependable(buf)
              /\ buf' = Prepended(buf, s)
              /\ io' = s

ReadFd(s) == /\ Len(s) <= ReadLimit(buf)
             /\ ReadFrom(buf, s).size <= MaxSize
             /\ buf' = ReadFrom(buf, s)
             /\ io' = s

(* retrieve, retrieveUntil, retrieveAll, retrieveInt64, ... *)
Retrieve(n) == buf' = Retrieved(buf, n) /\ UNCHANGED io

(* retrieveAsString, retrieveAllAsString; readInt64 and its like do the    *)
(* same for the bytes of an integer.                                       *)
RetrieveAsString(n) ==
  /\ io' = SubSeq(Content(buf), 1, n)
  /\ buf' = Retrieved(buf, n)

Next ==
  \/ \E s \in Chunk : AppendBytes(s) \/ Prepend(s) \/ ReadFd(s)
  \/ \E n \in 0..Readable(buf) : Retrieve(n) \/ RetrieveAsString(n)

Spec == Init /\ [][Next]_vars

-----------------------------------------------------------------------------
(* A well-formed buffer: the indices are in order and inside the vector.   *)
IsBuffer(b) ==
  /\ b = Buf(b.mem, b.size, b.readerIndex, b.writerIndex)
  /\ b.size \in Nat /\ b.readerIndex \in Nat /\ b.writerIndex \in Nat
  /\ b.mem \in [0..(b.size - 1) -> Byte]
  /\ CheapPrepend <= b.size
  /\ b.readerIndex <= b.writerIndex /\ b.writerIndex <= b.size

(* The type invariant. *)
TypeOK == IsBuffer(buf) /\ io \in Seq(Byte)

(* The assertions on the way of append(), whatever the length: makeSpace   *)
(* only compacts when there is something to reclaim, and leaves room       *)
(* enough (Buffer.h:151-169, 292-306).                                     *)
RoomIsMade ==
  \A len \in 0..MaxLen :
    LET b == EnsureWritableBytes(buf, len)
    IN  /\ Writable(b) >= len
        /\ Readable(b) = Readable(buf)
        /\ Writable(buf) < len /\ ~MustGrow(buf, len) => CheapPrepend < buf.readerIndex

(* Through growing, compacting, prepending and partial retrieval the       *)
(* buffer is a queue of bytes: Buffer implements ByteQueue.                *)
BQ == INSTANCE ByteQueue WITH queue <- Content(buf)
IsByteQueue == BQ!Spec
=============================================================================
