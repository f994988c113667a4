--------------------------- MODULE Buffer_proofs ---------------------------
(***************************************************************************)
(* Proofs about Buffer for any sizes: the indices stay in range, the       *)
(* assertions of Buffer.h hold, and a Buffer is a queue of bytes.          *)
(***************************************************************************)
EXTENDS Buffer, SequenceTheorems, TLAPS

LEMMA BufFields ==
  ASSUME NEW mem, NEW size, NEW r, NEW w
  PROVE  /\ Buf(mem, size, r, w).mem = mem
         /\ Buf(mem, size, r, w).size = size
         /\ Buf(mem, size, r, w).readerIndex = r
         /\ Buf(mem, size, r, w).writerIndex = w
BY DEF Buf

LEMMA BufIsBuffer ==
  ASSUME NEW size \in Nat, NEW r \in Nat, NEW w \in Nat,
         NEW mem \in [0..(size - 1) -> Byte],
         CheapPrepend <= size, r <= w, w <= size
  PROVE  IsBuffer(Buf(mem, size, r, w))
BY BufFields DEF IsBuffer

LEMMA ContentType ==
  ASSUME NEW b, IsBuffer(b)
  PROVE  /\ Content(b) \in Seq(Byte)
         /\ Len(Content(b)) = Readable(b)
         /\ Readable(b) \in Nat /\ Writable(b) \in Nat /\ Prependable(b) \in Nat
<1>1. Readable(b) \in Nat /\ Writable(b) \in Nat /\ Prependable(b) \in Nat
  BY DEF IsBuffer, Readable, Writable, Prependable
<1>2. ASSUME NEW i \in 1..Readable(b)
      PROVE  b.mem[b.readerIndex + i - 1] \in Byte
  <2>1. b.readerIndex + i - 1 \in 0..(b.size - 1)
    BY SizeAssumption DEF IsBuffer, Readable
  <2>2. QED
    BY <2>1 DEF IsBuffer
<1>3. Content(b) \in [1..Readable(b) -> Byte]
  BY <1>2 DEF Content
<1>4. QED
  BY <1>1, <1>3

(* To show what a buffer contains, compare byte by byte. *)
LEMMA ContentIs ==
  ASSUME NEW b, IsBuffer(b), NEW q \in Seq(Byte), Len(q) = Readable(b),
         \A i \in 1..Len(q) : b.mem[b.readerIndex + i - 1] = q[i]
  PROVE  Content(b) = q
<1>1. Content(b) \in Seq(Byte) /\ Len(Content(b)) = Len(q)
  BY ContentType
<1>2. \A i \in 1..Len(q) : Content(b)[i] = q[i]
  BY DEF Content
<1>3. QED
  BY <1>1, <1>2

LEMMA ContentAt ==
  ASSUME NEW b, IsBuffer(b), NEW i \in 1..Readable(b)
  PROVE  Content(b)[i] = b.mem[b.readerIndex + i - 1]
BY DEF Content

LEMMA CopiedCorrect ==
  ASSUME NEW b, IsBuffer(b), NEW s \in Seq(Byte), NEW at \in Nat,
         at + Len(s) <= b.size
  PROVE  /\ Copied(b, s, at) \in [0..(b.size - 1) -> Byte]
         /\ \A k \in 1..Len(s) : Copied(b, s, at)[at + k - 1] = s[k]
         /\ \A i \in 0..(b.size - 1) :
              i < at \/ at + Len(s) <= i => Copied(b, s, at)[i] = b.mem[i]
<1>1. Len(s) \in Nat /\ b.size \in Nat
  BY DEF IsBuffer
<1>2. ASSUME NEW i \in 0..(b.size - 1), at <= i, i < at + Len(s)
      PROVE  s[i - at + 1] \in Byte
  <2>1. i - at + 1 \in 1..Len(s)
    BY <1>1, <1>2
  <2>2. QED
    BY <2>1
<1>3. Copied(b, s, at) \in [0..(b.size - 1) -> Byte]
  BY <1>2 DEF Copied, IsBuffer
<1>4. ASSUME NEW k \in 1..Len(s)
      PROVE  Copied(b, s, at)[at + k - 1] = s[k]
  <2>1. /\ at + k - 1 \in 0..(b.size - 1)
        /\ at <= at + k - 1 /\ at + k - 1 < at + Len(s)
    BY <1>1
  <2>2. (at + k - 1) - at + 1 = k
    BY <1>1
  <2>3. Copied(b, s, at)[at + k - 1] = s[(at + k - 1) - at + 1]
    BY <2>1 DEF Copied
  <2>4. QED
    BY <2>2, <2>3
<1>5. ASSUME NEW i \in 0..(b.size - 1), i < at \/ at + Len(s) <= i
      PROVE  Copied(b, s, at)[i] = b.mem[i]
  <2>1. ~(at <= i /\ i < at + Len(s))
    BY <1>1, <1>5
  <2>2. QED
    BY <2>1 DEF Copied
<1>6. QED
  BY <1>3, <1>4, <1>5

-----------------------------------------------------------------------------
LEMMA WrittenCorrect ==
  ASSUME NEW b, IsBuffer(b), NEW s \in Seq(Byte), Len(s) <= Writable(b)
  PROVE  /\ IsBuffer(Written(b, s))
         /\ Content(Written(b, s)) = Content(b) \o s
<1> DEFINE c == Written(b, s)
           m == Copied(b, s, b.writerIndex)
           q == Content(b) \o s
<1>1. /\ Len(s) \in Nat /\ b.writerIndex + Len(s) <= b.size
      /\ b.writerIndex \in Nat
  BY DEF Writable, IsBuffer
<1>2. /\ m \in [0..(b.size - 1) -> Byte]
      /\ \A k \in 1..Len(s) : m[b.writerIndex + k - 1] = s[k]
      /\ \A i \in 0..(b.size - 1) : i < b.writerIndex => m[i] = b.mem[i]
  BY <1>1, CopiedCorrect
<1> HIDE DEF m
<1>3. /\ c.mem = m /\ c.size = b.size /\ c.readerIndex = b.readerIndex
      /\ c.writerIndex = b.writerIndex + Len(s)
  BY BufFields DEF Written, m
<1>4. IsBuffer(c)
  <2>1. /\ b.size \in Nat /\ b.readerIndex \in Nat /\ CheapPrepend <= b.size
        /\ b.writerIndex + Len(s) \in Nat
        /\ b.readerIndex <= b.writerIndex + Len(s)
    BY <1>1 DEF IsBuffer
  <2>2. IsBuffer(Buf(m, b.size, b.readerIndex, b.writerIndex + Len(s)))
    BY <1>1, <1>2, <2>1, BufIsBuffer
  <2>3. QED
    BY <2>2 DEF Written, m
<1> HIDE DEF c
<1>5. /\ q \in Seq(Byte) /\ Len(q) = Readable(c) /\ Len(Content(b)) = Readable(b)
      /\ Readable(b) \in Nat /\ Readable(c) = Readable(b) + Len(s)
      /\ Content(b) \in Seq(Byte)
  <2>1. Readable(c) = Readable(b) + Len(s)
    BY <1>1, <1>3 DEF Readable, IsBuffer
  <2>2. QED
    BY <2>1, ContentType
<1>6. ASSUME NEW i \in 1..Len(q)
      PROVE  c.mem[c.readerIndex + i - 1] = q[i]
  <2>1. CASE i <= Readable(b)
    <3>1. q[i] = Content(b)[i]
      BY <1>5, <2>1
    <3>2. Content(b)[i] = b.mem[b.readerIndex + i - 1]
      BY <1>5, <2>1, ContentAt
    <3>3. /\ b.readerIndex + i - 1 \in 0..(b.size - 1)
          /\ b.readerIndex + i - 1 < b.writerIndex
      BY SMTT(20), <1>5, <2>1 DEF Readable, IsBuffer
    <3>4. QED
      BY <1>2, <1>3, <3>1, <3>2, <3>3
  <2>2. CASE i > Readable(b)
    <3> DEFINE k == i - Readable(b)
    <3>1. k \in 1..Len(s)
      BY <1>1, <1>5, <2>2
    <3>2. q[i] = s[k]
      BY <1>5, <2>2, <3>1
    <3>3. b.readerIndex + i - 1 = b.writerIndex + k - 1
      BY SMTT(20), <1>1, <1>5 DEF Readable, IsBuffer
    <3>4. QED
      BY <1>2, <1>3, <3>1, <3>2, <3>3
  <2>3. QED
    BY <1>5, <2>1, <2>2
<1>7. QED
  BY <1>4, <1>5, <1>6, ContentIs DEF c

LEMMA PrependedCorrect ==
  ASSUME NEW b, IsBuffer(b), NEW s \in Seq(Byte), Len(s) <= Prependable(b)
  PROVE  /\ IsBuffer(Prepended(b, s))
         /\ Content(Prepended(b, s)) = s \o Content(b)
<1> DEFINE at == b.readerIndex - Len(s)
           c == Prepended(b, s)
           m == Copied(b, s, at)
           q == s \o Content(b)
<1>1. Len(s) \in Nat /\ at \in Nat /\ at + Len(s) = b.readerIndex /\ at <= b.readerIndex
  BY DEF Prependable, IsBuffer
<1>2. /\ m \in [0..(b.size - 1) -> Byte]
      /\ \A k \in 1..Len(s) : m[at + k - 1] = s[k]
      /\ \A i \in 0..(b.size - 1) : b.readerIndex <= i => m[i] = b.mem[i]
  <2>1. at + Len(s) <= b.size
    BY <1>1 DEF IsBuffer
  <2>2. QED
    BY <1>1, <2>1, CopiedCorrect
<1> HIDE DEF m
<1>3. /\ c.mem = m /\ c.size = b.size /\ c.readerIndex = at
      /\ c.writerIndex = b.writerIndex
  BY BufFields DEF Prepended, m
<1>4. IsBuffer(c)
  <2>1. /\ b.size \in Nat /\ b.writerIndex \in Nat /\ CheapPrepend <= b.size
        /\ at <= b.writerIndex /\ b.writerIndex <= b.size
    BY <1>1 DEF IsBuffer
  <2>2. IsBuffer(Buf(m, b.size, at, b.writerIndex))
    BY <1>1, <1>2, <2>1, BufIsBuffer
  <2>3. QED
    BY <2>2 DEF Prepended, m
<1> HIDE DEF c
<1>5. /\ q \in Seq(Byte) /\ Len(q) = Readable(c) /\ Len(Content(b)) = Readable(b)
      /\ Readable(b) \in Nat /\ Readable(c) = Len(s) + Readable(b)
      /\ Content(b) \in Seq(Byte)
  <2>1. Readable(c) = Len(s) + Readable(b)
    BY <1>1, <1>3 DEF Readable, IsBuffer
  <2>2. QED
    BY <2>1, ContentType
<1>6. ASSUME NEW i \in 1..Len(q)
      PROVE  c.mem[c.readerIndex + i - 1] = q[i]
  <2>1. CASE i <= Len(s)
    <3>1. q[i] = s[i] /\ i \in 1..Len(s)
      BY <1>1, <1>5, <2>1
    <3>2. QED
      BY <1>2, <1>3, <3>1
  <2>2. CASE i > Len(s)
    <3> DEFINE k == i - Len(s)
    <3>1. k \in 1..Readable(b)
      BY <1>1, <1>5, <2>2
    <3>2. q[i] = Content(b)[k]
      BY <1>5, <2>2, <3>1
    <3>3. Content(b)[k] = b.mem[b.readerIndex + k - 1]
      BY <3>1, ContentAt
    <3>4. /\ b.readerIndex + k - 1 \in 0..(b.size - 1)
          /\ b.readerIndex <= b.readerIndex + k - 1
      <4> HIDE DEF k
      <4>1. QED
        BY SMTT(20), <3>1 DEF Readable, IsBuffer
    <3>5. at + i - 1 = b.readerIndex + k - 1
      BY <1>1, <1>5
    <3>6. QED
      BY <1>2, <1>3, <3>2, <3>3, <3>4, <3>5
  <2>3. QED
    BY <1>1, <1>5, <2>1, <2>2
<1>7. QED
  BY <1>4, <1>5, <1>6, ContentIs DEF c

LEMMA ResizedCorrect ==
  ASSUME NEW b, IsBuffer(b), NEW n \in Nat, b.size <= n
  PROVE  /\ IsBuffer(Resized(b, n))
         /\ Content(Resized(b, n)) = Content(b)
         /\ Writable(Resized(b, n)) = n - b.writerIndex
<1> DEFINE m == [i \in 0..(n - 1) |-> IF i < b.size THEN b.mem[i] ELSE Zero]
           c == Resized(b, n)
<1>1. m \in [0..(n - 1) -> Byte]
  BY ByteAssumption DEF IsBuffer
<1>2. /\ c.mem = m /\ c.size = n /\ c.readerIndex = b.readerIndex
      /\ c.writerIndex = b.writerIndex
  BY BufFields DEF Resized
<1>3. \A i \in 0..(b.size - 1) : m[i] = b.mem[i]
  BY DEF IsBuffer
<1> HIDE DEF m
<1>4. IsBuffer(c)
  <2>1. /\ b.readerIndex \in Nat /\ b.writerIndex \in Nat
        /\ b.readerIndex <= b.writerIndex /\ b.writerIndex <= n /\ CheapPrepend <= n
    BY SizeAssumption DEF IsBuffer
  <2>2. IsBuffer(Buf(m, n, b.readerIndex, b.writerIndex))
    BY <1>1, <2>1, BufIsBuffer
  <2>3. QED
    BY <2>2 DEF Resized, m
<1> HIDE DEF c
<1>5. Readable(c) = Readable(b) /\ Len(Content(b)) = Readable(b)
  BY <1>2, ContentType DEF Readable
<1>6. ASSUME NEW i \in 1..Readable(b)
      PROVE  c.mem[c.readerIndex + i - 1] = Content(b)[i]
  <2>1. b.readerIndex + i - 1 \in 0..(b.size - 1)
    BY DEF Readable, IsBuffer
  <2>2. QED
    BY <1>2, <1>3, <2>1, ContentAt
<1>7. Content(c) = Content(b)
  BY <1>4, <1>5, <1>6, ContentIs, ContentType
<1>8. QED
  BY <1>2, <1>4, <1>7 DEF c, Writable

LEMMA CompactedCorrect ==
  ASSUME NEW b, IsBuffer(b), CheapPrepend + Readable(b) <= b.size
  PROVE  /\ IsBuffer(Compacted(b))
         /\ Content(Compacted(b)) = Content(b)
         /\ Writable(Compacted(b)) = b.size - (CheapPrepend + Readable(b))
<1> DEFINE m == Copied(b, Content(b), CheapPrepend)
           c == Compacted(b)
<1>1. /\ Content(b) \in Seq(Byte) /\ Len(Content(b)) = Readable(b)
      /\ Readable(b) \in Nat
  BY ContentType
<1>2. /\ m \in [0..(b.size - 1) -> Byte]
      /\ \A k \in 1..Readable(b) : m[CheapPrepend + k - 1] = Content(b)[k]
  <2>1. CheapPrepend \in Nat /\ CheapPrepend + Len(Content(b)) <= b.size
    BY <1>1, SizeAssumption
  <2>2. /\ m \in [0..(b.size - 1) -> Byte]
        /\ \A k \in 1..Len(Content(b)) : m[CheapPrepend + k - 1] = Content(b)[k]
    <3> DEFINE s == Content(b)
    <3>1. s \in Seq(Byte) /\ CheapPrepend + Len(s) <= b.size
      BY <1>1, <2>1
    <3> HIDE DEF s
    <3>2. /\ Copied(b, s, CheapPrepend) \in [0..(b.size - 1) -> Byte]
          /\ \A k \in 1..Len(s) : Copied(b, s, CheapPrepend)[CheapPrepend + k - 1] = s[k]
      BY <2>1, <3>1, CopiedCorrect
    <3>3. QED
      BY <3>2 DEF s
  <2>3. QED
    BY <1>1, <2>2
<1>3. /\ c.mem = m /\ c.size = b.size /\ c.readerIndex = CheapPrepend
      /\ c.writerIndex = CheapPrepend + Readable(b)
  BY BufFields DEF Compacted
<1> HIDE DEF m
<1>4. IsBuffer(c)
  <2>1. /\ b.size \in Nat /\ CheapPrepend <= b.size
        /\ CheapPrepend + Readable(b) \in Nat
        /\ CheapPrepend <= CheapPrepend + Readable(b)
    BY <1>1, SizeAssumption DEF IsBuffer
  <2>2. IsBuffer(Buf(m, b.size, CheapPrepend, CheapPrepend + Readable(b)))
    BY <1>2, <2>1, BufIsBuffer, SizeAssumption
  <2>3. QED
    BY <2>2 DEF Compacted, m
<1> HIDE DEF c
<1>5. Readable(c) = Readable(b)
  BY <1>1, <1>3, SizeAssumption DEF Readable
<1>6. Content(c) = Content(b)
  BY <1>1, <1>2, <1>3, <1>4, <1>5, ContentIs
<1>7. QED
  BY <1>3, <1>4, <1>6 DEF c, Writable

(* ensureWritableBytes makes room for len bytes and keeps the content; if  *)
(* it compacts, something was in front of the readable bytes.              *)
LEMMA EnsureCorrect ==
  ASSUME NEW b, IsBuffer(b), NEW len \in Nat
  PROVE  /\ IsBuffer(EnsureWritableBytes(b, len))
         /\ Content(EnsureWritableBytes(b, len)) = Content(b)
         /\ Writable(EnsureWritableBytes(b, len)) >= len
         /\ Writable(b) < len /\ ~MustGrow(b, len) => CheapPrepend < b.readerIndex
<1>1. /\ Readable(b) \in Nat /\ Writable(b) \in Nat /\ Prependable(b) \in Nat
      /\ b.size \in Nat /\ b.writerIndex \in Nat /\ b.readerIndex \in Nat
      /\ Writable(b) = b.size - b.writerIndex
      /\ Readable(b) = b.writerIndex - b.readerIndex
      /\ Prependable(b) = b.readerIndex
  BY ContentType DEF IsBuffer, Writable, Readable, Prependable
<1>2. CASE Writable(b) >= len
  BY <1>1, <1>2 DEF EnsureWritableBytes
<1>3. CASE Writable(b) < len /\ MustGrow(b, len)
  <2>1. b.writerIndex + len \in Nat /\ b.size <= b.writerIndex + len
    BY <1>1, <1>3
  <2>2. EnsureWritableBytes(b, len) = Resized(b, b.writerIndex + len)
    BY <1>3 DEF EnsureWritableBytes, MakeSpace
  <2>3. (b.writerIndex + len) - b.writerIndex = len
    BY <1>1
  <2>4. QED
    BY <1>3, <2>1, <2>2, <2>3, ResizedCorrect
<1>4. CASE Writable(b) < len /\ ~MustGrow(b, len)
  <2>1. /\ CheapPrepend + Readable(b) <= b.size
        /\ b.size - (CheapPrepend + Readable(b)) >= len
        /\ CheapPrepend < b.readerIndex
    BY <1>1, <1>4, SizeAssumption DEF MustGrow
  <2>2. EnsureWritableBytes(b, len) = Compacted(b)
    BY <1>4 DEF EnsureWritableBytes, MakeSpace
  <2>3. QED
    BY <2>1, <2>2, CompactedCorrect
<1>5. QED
  BY <1>1, <1>2, <1>3, <1>4

LEMMA AppendedCorrect ==
  ASSUME NEW b, IsBuffer(b), NEW s \in Seq(Byte)
  PROVE  /\ IsBuffer(Appended(b, s))
         /\ Content(Appended(b, s)) = Content(b) \o s
<1>1. Len(s) \in Nat
  OBVIOUS
<1>2. /\ IsBuffer(EnsureWritableBytes(b, Len(s)))
      /\ Content(EnsureWritableBytes(b, Len(s))) = Content(b)
      /\ Len(s) <= Writable(EnsureWritableBytes(b, Len(s)))
  <2>1. /\ Writable(EnsureWritableBytes(b, Len(s))) >= Len(s)
        /\ IsBuffer(EnsureWritableBytes(b, Len(s)))
        /\ Content(EnsureWritableBytes(b, Len(s))) = Content(b)
    BY <1>1, EnsureCorrect
  <2>2. Writable(EnsureWritableBytes(b, Len(s))) \in Nat
    BY <2>1, ContentType
  <2>3. QED
    BY <1>1, <2>1, <2>2
<1>3. QED
  BY <1>2, WrittenCorrect DEF Appended

LEMMA RetrievedCorrect ==
  ASSUME NEW b, IsBuffer(b), NEW n \in 0..Readable(b)
  PROVE  /\ IsBuffer(Retrieved(b, n))
         /\ Content(Retrieved(b, n)) = SubSeq(Content(b), n + 1, Len(Content(b)))
<1> DEFINE q == SubSeq(Content(b), n + 1, Len(Content(b)))
<1>1. /\ Content(b) \in Seq(Byte) /\ Len(Content(b)) = Readable(b)
      /\ Readable(b) \in Nat
  BY ContentType
<1>2. q \in Seq(Byte) /\ Len(q) = Readable(b) - n
  BY <1>1
<1>3. \A i \in 1..Len(q) : q[i] = Content(b)[n + i]
  BY <1>1
<1> HIDE DEF q
<1>4. CASE n < Readable(b)
  <2> DEFINE c == Advanced(b, n)
  <2>1. c.mem = b.mem /\ c.readerIndex = b.readerIndex + n /\ c.writerIndex = b.writerIndex
    BY BufFields DEF Advanced
  <2>2. IsBuffer(c)
    <3>1. /\ b.size \in Nat /\ b.writerIndex \in Nat /\ CheapPrepend <= b.size
          /\ b.readerIndex + n \in Nat /\ b.readerIndex + n <= b.writerIndex
          /\ b.writerIndex <= b.size /\ b.mem \in [0..(b.size - 1) -> Byte]
      BY <1>1, <1>4 DEF IsBuffer, Readable
    <3>2. QED
      BY <3>1, BufIsBuffer DEF Advanced
  <2> HIDE DEF c
  <2>3. Len(q) = Readable(c)
    BY <1>2, <2>1 DEF Readable, IsBuffer
  <2>4. ASSUME NEW i \in 1..Len(q)
        PROVE  c.mem[c.readerIndex + i - 1] = q[i]
    <3>1. n + i \in 1..Readable(b)
      BY <1>1, <1>2
    <3>2. q[i] = b.mem[b.readerIndex + (n + i) - 1]
      BY <1>3, <3>1, ContentAt
    <3>3. b.readerIndex + (n + i) - 1 = (b.readerIndex + n) + i - 1
      BY <1>1, <3>1 DEF IsBuffer
    <3>4. QED
      BY <2>1, <3>2, <3>3
  <2>5. Content(c) = q
    BY <1>2, <2>2, <2>3, <2>4, ContentIs
  <2>6. QED
    BY <1>4, <2>2, <2>5 DEF c, q, Retrieved
<1>5. CASE n = Readable(b)
  <2> DEFINE c == RetrievedAll(b)
  <2>1. c.readerIndex = CheapPrepend /\ c.writerIndex = CheapPrepend
    BY BufFields DEF RetrievedAll
  <2>2. IsBuffer(c)
    <3>1. /\ b.size \in Nat /\ CheapPrepend <= b.size
          /\ b.mem \in [0..(b.size - 1) -> Byte]
      BY DEF IsBuffer
    <3>2. CheapPrepend \in Nat /\ CheapPrepend <= CheapPrepend
      BY SizeAssumption
    <3>3. QED
      BY <3>1, <3>2, BufIsBuffer DEF RetrievedAll
  <2> HIDE DEF c
  <2>3. Readable(c) = 0 /\ Len(q) = 0
    BY <1>1, <1>2, <1>5, <2>1, SizeAssumption DEF Readable
  <2>4. Content(c) = q
    <3>1. \A i \in 1..Len(q) : c.mem[c.readerIndex + i - 1] = q[i]
      BY <2>3
    <3>2. QED
      BY <1>2, <2>2, <2>3, <3>1, ContentIs
  <2>5. ~(n < Readable(b))
    BY <1>1, <1>5
  <2>6. QED
    BY <2>2, <2>4, <2>5 DEF c, q, Retrieved
<1>6. QED
  BY <1>1, <1>4, <1>5

LEMMA BytesAssociate ==
  ASSUME NEW s \in Seq(Byte), NEW t \in Seq(Byte), NEW u \in Seq(Byte)
  PROVE  (s \o t) \o u = s \o (t \o u)
BY ConcatAssociative

LEMMA ReadFromCorrect ==
  ASSUME NEW b, IsBuffer(b), NEW s \in Seq(Byte)
  PROVE  /\ IsBuffer(ReadFrom(b, s))
         /\ Content(ReadFrom(b, s)) = Content(b) \o s
<1>1. Writable(b) \in Nat /\ Content(b) \in Seq(Byte) /\ Len(s) \in Nat
  BY ContentType
<1>2. CASE Len(s) <= Writable(b)
  BY <1>2, WrittenCorrect DEF ReadFrom
<1>3. CASE ~(Len(s) <= Writable(b))
  <2> DEFINE s1 == SubSeq(s, 1, Writable(b))
             s2 == SubSeq(s, Writable(b) + 1, Len(s))
  <2>1. s1 \in Seq(Byte) /\ s2 \in Seq(Byte) /\ Len(s1) = Writable(b)
    BY <1>1, <1>3, SubSeqProperties
  <2>2. s1 \o s2 = s
    <3>1. s1 \o s2 = SubSeq(s, 1, Len(s))
      BY SMTT(20), <1>1, <1>3, ConcatAdjacentSubSeq
    <3>2. QED
      BY <3>1, SubSeqFull
  <2> HIDE DEF s1, s2
  <2>3. IsBuffer(Written(b, s1)) /\ Content(Written(b, s1)) = Content(b) \o s1
    BY <1>1, <2>1, WrittenCorrect
  <2>4. /\ IsBuffer(Appended(Written(b, s1), s2))
        /\ Content(Appended(Written(b, s1), s2)) = (Content(b) \o s1) \o s2
    BY <2>1, <2>3, AppendedCorrect
  <2>5. (Content(b) \o s1) \o s2 = Content(b) \o (s1 \o s2)
    BY <1>1, <2>1, BytesAssociate
  <2>6. QED
    BY <1>3, <2>2, <2>4, <2>5 DEF ReadFrom, s1, s2
<1>4. QED
  BY <1>2, <1>3

-----------------------------------------------------------------------------
LEMMA ChunkIsSeq == Chunk \subseteq Seq(Byte)
BY DEF Chunk

LEMMA EmptyIsBuffer ==
  ASSUME NEW n \in Nat, CheapPrepend <= n
  PROVE  IsBuffer(Empty(n)) /\ Readable(Empty(n)) = 0
<1>1. [i \in 0..(n - 1) |-> Zero] \in [0..(n - 1) -> Byte]
  BY ByteAssumption
<1>2. CheapPrepend \in Nat /\ CheapPrepend <= CheapPrepend
  BY SizeAssumption
<1>3. IsBuffer(Empty(n))
  BY <1>1, <1>2, BufIsBuffer DEF Empty
<1>4. QED
  BY <1>2, <1>3, BufFields DEF Empty, Readable

LEMMA InitType == Init => TypeOK
<1> SUFFICES ASSUME Init PROVE TypeOK
  OBVIOUS
<1>1. CheapPrepend + InitialSize \in Nat /\ CheapPrepend <= CheapPrepend + InitialSize
  BY SizeAssumption
<1>2. IsBuffer(buf)
  BY <1>1, EmptyIsBuffer DEF Init
<1>3. QED
  BY <1>2 DEF Init, TypeOK

(* Every call keeps the buffer well formed and does to its content what    *)
(* ByteQueue says.                                                         *)
LEMMA StepCorrect ==
  ASSUME TypeOK, Next
  PROVE  TypeOK' /\ BQ!Next
<1> USE DEF TypeOK
<1>1. ASSUME NEW s \in Chunk, AppendBytes(s)
      PROVE  TypeOK' /\ BQ!Extend(s)
  BY <1>1, ChunkIsSeq, AppendedCorrect DEF AppendBytes, BQ!Extend
<1>2. ASSUME NEW s \in Chunk, Prepend(s)
      PROVE  TypeOK' /\ BQ!Precede(s)
  BY <1>2, ChunkIsSeq, PrependedCorrect DEF Prepend, BQ!Precede
<1>3. ASSUME NEW s \in Chunk, ReadFd(s)
      PROVE  TypeOK' /\ BQ!Extend(s)
  BY <1>3, ChunkIsSeq, ReadFromCorrect DEF ReadFd, BQ!Extend
<1>4. ASSUME NEW n \in 0..Readable(buf), Retrieve(n)
      PROVE  TypeOK' /\ BQ!Discard(n)
  BY <1>4, RetrievedCorrect DEF Retrieve, BQ!Discard
<1>5. ASSUME NEW n \in 0..Readable(buf), RetrieveAsString(n)
      PROVE  TypeOK' /\ BQ!Take(n)
  <2>1. SubSeq(Content(buf), 1, n) \in Seq(Byte)
    <3>1. /\ Content(buf) \in Seq(Byte) /\ Len(Content(buf)) = Readable(buf)
          /\ Readable(buf) \in Nat
      BY ContentType
    <3>2. QED
      BY <3>1, SubSeqProperties
  <2>2. QED
    BY <1>5, <2>1, RetrievedCorrect DEF RetrieveAsString, BQ!Take
<1>6. 0..Readable(buf) = 0..Len(Content(buf))
  BY ContentType
<1>7. QED
  BY <1>1, <1>2, <1>3, <1>4, <1>5, <1>6 DEF Next, BQ!Next

(* The indices of a Buffer stay in order and inside its vector.            *)
THEOREM TypeCorrect == Spec => []TypeOK
<1>1. TypeOK /\ [Next]_vars => TypeOK'
  BY StepCorrect DEF vars, TypeOK
<1>2. QED
  BY InitType, <1>1, PTL DEF Spec

(* The assertions of ensureWritableBytes, hasWritten and makeSpace hold    *)
(* for every length in every reachable state.                              *)
THEOREM AssertionsHold == Spec => []RoomIsMade
<1>1. TypeOK => RoomIsMade
  <2> SUFFICES ASSUME TypeOK, NEW len \in 0..MaxLen
               PROVE  LET b == EnsureWritableBytes(buf, len)
                      IN  /\ Writable(b) >= len
                          /\ Readable(b) = Readable(buf)
                          /\ Writable(buf) < len /\ ~MustGrow(buf, len)
                                => CheapPrepend < buf.readerIndex
    BY DEF RoomIsMade
  <2> DEFINE b == EnsureWritableBytes(buf, len)
  <2>1. len \in Nat /\ IsBuffer(buf)
    BY SizeAssumption DEF TypeOK
  <2>2. /\ IsBuffer(b) /\ Content(b) = Content(buf) /\ Writable(b) >= len
        /\ Writable(buf) < len /\ ~MustGrow(buf, len) => CheapPrepend < buf.readerIndex
    BY <2>1, EnsureCorrect
  <2>3. Readable(b) = Readable(buf)
    BY <2>1, <2>2, ContentType
  <2>4. QED
    BY <2>2, <2>3
<1>2. QED
  BY TypeCorrect, <1>1, PTL

(* A Buffer is a queue of bytes: no call loses, repeats or reorders any.   *)
THEOREM ImplementsByteQueue == Spec => IsByteQueue
<1>1. Init => BQ!Init
  <2> SUFFICES ASSUME Init PROVE BQ!Init
    OBVIOUS
  <2>1. IsBuffer(buf)
    BY InitType DEF TypeOK
  <2>2. Readable(buf) = 0
    <3>1. CheapPrepend + InitialSize \in Nat /\ CheapPrepend <= CheapPrepend + InitialSize
      BY SizeAssumption
    <3>2. QED
      BY <3>1, EmptyIsBuffer DEF Init
  <2>3. Len(Content(buf)) = 0 /\ Content(buf) \in Seq(Byte)
    BY <2>1, <2>2, ContentType
  <2>4. QED
    BY <2>3 DEF Init, BQ!Init
<1>2. TypeOK /\ [Next]_vars => [BQ!Next]_(BQ!vars)
  BY StepCorrect DEF vars, BQ!vars
<1>3. QED
  BY TypeCorrect, <1>1, <1>2, PTL DEF Spec, IsByteQueue, BQ!Spec
=============================================================================
