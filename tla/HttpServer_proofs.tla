-------------------------- MODULE HttpServer_proofs --------------------------
(***************************************************************************)
(* What the parser makes of one connection's bytes, for any number of      *)
(* requests and however TCP cuts them.                                     *)
(***************************************************************************)
EXTENDS HttpServer, SequenceTheorems, TLAPS

What == {"line", "Host", "Connection", "blank", "body"}

Half(i, w) == [id |-> i, what |-> w, part |-> 1]
End(i, w) == [id |-> i, what |-> w, part |-> 2]

(* The piece that follows p in the bytes of a client whose requests are c. *)
NextPiece(p, c) ==
  IF p.part = 1 /\ p.what # "body" THEN End(p.id, p.what)
  ELSE IF p.what = "line" THEN Half(p.id, "Host")
  ELSE IF p.what = "Host" /\ c[p.id].connection # "none" THEN Half(p.id, "Connection")
  ELSE IF p.what \in {"Host", "Connection"} THEN Half(p.id, "blank")
  ELSE IF p.what = "blank" /\ c[p.id].body THEN Half(p.id, "body")
  ELSE Half(p.id + 1, "line")

Rank(p) ==
  p.part + (IF p.what = "line" THEN 0 ELSE IF p.what = "Host" THEN 2
            ELSE IF p.what = "Connection" THEN 4 ELSE IF p.what = "blank" THEN 6 ELSE 8)

Precedes(p, q) == p.id < q.id \/ (p.id = q.id /\ Rank(p) < Rank(q))

(* s is a stretch of such bytes ... *)
Linked(s, c) ==
  /\ \A k \in 2..Len(s) : s[k] = NextPiece(s[k-1], c)
  /\ \A j, k \in 1..Len(s) : j < k => Precedes(s[j], s[k])

(* ... to their end. *)
Chain(s, c) ==
  /\ Linked(s, c)
  /\ \A k \in 1..Len(s) : s[k].id <= Len(c)
  /\ s # <<>> => NextPiece(s[Len(s)], c) = Half(Len(c) + 1, "line")

(* What the parser has not consumed. *)
rest == buf \o net

FieldsUpTo(w) == IF w = "line" THEN {} ELSE IF w = "Host" THEN {"Host"}
                 ELSE {"Host", "Connection"}

(* The parser has got as far as the end of line w of the request. *)
ParsedUpTo(w) ==
  /\ w = "Connection" => sent[request.line].connection # "none"
  /\ request.headers = FieldsUpTo(w) \X {request.line}
  /\ rest # <<>> /\ rest[1] = NextPiece(End(request.line, w), sent)

(* What it has of the request, in each of its states. *)
ParserInv ==
  /\ request.line \in 0..Len(sent)
  /\ state = "headers" => \E w \in {"line", "Host", "Connection"} : ParsedUpTo(w)
  /\ state \in {"body", "gotAll"} =>
       request.headers = Fields(sent[request.line]) \X {request.line}
  /\ state = "requestLine" => request = NoRequest
  /\ state = "body" => pc = "parse"
  /\ state = "gotAll" => pc = "parsed"
  /\ pc = "parsed" => state \in {"headers", "gotAll"}

(* The requests are taken in turn: the answered ones, then the current one,*)
(* then those whose lines are still to come.                               *)
TurnInv ==
  /\ \A k \in 1..Len(rest) : rest[k].what = "line" =>
       /\ request.line < rest[k].id
       /\ \A j \in 1..Len(answers) : answers[j].line < rest[k].id
  /\ \A j \in 1..Len(answers) :
       /\ answers[j].line \in 1..Len(sent)
       /\ request.line # None => answers[j].line < request.line

(* The inductive invariant. *)
IInv == TypeOK /\ Chain(rest, sent) /\ ParserInv /\ TurnInv /\ AnsweredWhole

-----------------------------------------------------------------------------
(* Pieces. *)

LEMMA HalfFacts ==
  ASSUME NEW i \in Id, NEW w \in What
  PROVE  /\ Half(i, w) \in Piece /\ Half(i, w).id = i /\ Half(i, w).what = w /\ Half(i, w).part = 1
         /\ End(i, w) \in Piece /\ End(i, w).id = i /\ End(i, w).what = w /\ End(i, w).part = 2
BY DEF Half, End, Piece, What

LEMMA PieceFacts ==
  ASSUME NEW s \in Seq(Piece), NEW k \in 1..Len(s)
  PROVE  /\ s[k] \in Piece /\ s[k].id \in Id /\ s[k].id \in Nat \ {0}
         /\ s[k].what \in What /\ s[k].part \in 1..2
<1>1. s[k] \in Piece
  BY ElementOfSeq
<1>2. QED
  BY <1>1, BoundAssumption DEF Piece, What, Id

LEMMA RankType == \A p \in Piece : Rank(p) \in Nat
BY DEF Rank, Piece

LEMMA PrecedesTransitive ==
  ASSUME NEW p \in Piece, NEW q \in Piece, NEW x \in Piece, Precedes(p, q), Precedes(q, x)
  PROVE  Precedes(p, x)
<1>1. Rank(p) \in Nat /\ Rank(q) \in Nat /\ Rank(x) \in Nat
  BY RankType
<1>2. p.id \in Nat /\ q.id \in Nat /\ x.id \in Nat
  BY BoundAssumption DEF Piece, Id
<1>3. QED
  BY <1>1, <1>2 DEF Precedes

LEMMA PrecedesNext ==
  ASSUME NEW p \in Piece, NEW c
  PROVE  Precedes(p, NextPiece(p, c))
<1>1. p.id \in Nat /\ p.part \in 1..2 /\ p.what \in What
  BY BoundAssumption DEF Piece, Id, What
<1>2. CASE p.part = 1 /\ p.what # "body"
  <2>1. NextPiece(p, c) = End(p.id, p.what)
    BY <1>2 DEF NextPiece
  <2>2. QED
    BY <1>1, <1>2, <2>1 DEF Precedes, Rank, End
<1>3. CASE ~(p.part = 1 /\ p.what # "body") /\ NextPiece(p, c) = Half(p.id + 1, "line")
  BY <1>1, <1>3 DEF Precedes, Half
<1>4. CASE p.part = 2 /\ \/ p.what = "line" /\ NextPiece(p, c) = Half(p.id, "Host")
                         \/ p.what = "Host" /\ NextPiece(p, c) = Half(p.id, "Connection")
                         \/ p.what = "Host" /\ NextPiece(p, c) = Half(p.id, "blank")
                         \/ p.what = "Connection" /\ NextPiece(p, c) = Half(p.id, "blank")
                         \/ p.what = "blank" /\ NextPiece(p, c) = Half(p.id, "body")
  BY <1>1, <1>4 DEF Precedes, Rank, Half
<1>5. QED
  BY <1>1, <1>2, <1>3, <1>4 DEF NextPiece, What

LEMMA LinkedConcat ==
  ASSUME NEW s \in Seq(Piece), NEW t \in Seq(Piece), NEW c, Linked(s, c), Linked(t, c),
         s # <<>>, t # <<>>, t[1] = NextPiece(s[Len(s)], c)
  PROVE  Linked(s \o t, c)
<1> DEFINE u == s \o t
<1>1. /\ Len(s) \in Nat \ {0} /\ Len(t) \in Nat \ {0} /\ Len(u) = Len(s) + Len(t)
      /\ u \in Seq(Piece)
  BY EmptySeq, LenProperties, ConcatProperties
<1>2. \A i \in 1..(Len(s) + Len(t)) : u[i] = IF i <= Len(s) THEN s[i] ELSE t[i - Len(s)]
  BY ConcatProperties
<1> HIDE DEF u
<1>3. \A i \in 1..Len(s) : u[i] = s[i] /\ i \in 1..Len(u)
  BY <1>1, <1>2
<1>4. ASSUME NEW i \in (Len(s) + 1)..Len(u)
      PROVE  u[i] = t[i - Len(s)] /\ i - Len(s) \in 1..Len(t) /\ i \in 1..Len(u)
  BY <1>1, <1>2
<1>5. ASSUME NEW k \in 2..Len(u)
      PROVE  u[k] = NextPiece(u[k-1], c)
  <2>1. CASE k \in 2..Len(s)
    <3>1. u[k] = s[k] /\ u[k-1] = s[k-1]
      BY <1>1, <1>3, <2>1
    <3>2. QED
      BY <2>1, <3>1 DEF Linked
  <2>2. CASE k = Len(s) + 1
    <3>1. u[k] = t[1] /\ u[k-1] = s[Len(s)]
      BY <1>1, <1>3, <1>4, <2>2
    <3>2. QED
      BY <3>1
  <2>3. CASE k \in (Len(s) + 2)..Len(u)
    <3>1. u[k] = t[k - Len(s)] /\ u[k-1] = t[(k - 1) - Len(s)]
      <4>1. k \in (Len(s) + 1)..Len(u) /\ k - 1 \in (Len(s) + 1)..Len(u)
        BY <1>1, <2>3
      <4>2. QED
        BY <1>4, <4>1
    <3>2. k - Len(s) \in 2..Len(t) /\ (k - 1) - Len(s) = (k - Len(s)) - 1
      BY <1>1, <2>3
    <3>3. QED
      BY <3>1, <3>2 DEF Linked
  <2>4. QED
    BY <1>1, <2>1, <2>2, <2>3
<1>6. ASSUME NEW j \in 1..Len(s), NEW k \in 1..Len(t)
      PROVE  Precedes(s[j], t[k])
  <2>1. /\ Len(s) \in 1..Len(s) /\ 1 \in 1..Len(t)
        /\ s[j] \in Piece /\ s[Len(s)] \in Piece /\ t[1] \in Piece /\ t[k] \in Piece
    BY <1>1, PieceFacts
  <2>2. Precedes(s[Len(s)], t[1])
    BY <2>1, PrecedesNext
  <2>3. Precedes(s[j], t[1])
    <3>1. CASE j = Len(s)
      BY <2>2, <3>1
    <3>2. CASE j < Len(s)
      <4>1. Precedes(s[j], s[Len(s)])
        BY <2>1, <3>2 DEF Linked
      <4>2. QED
        BY <2>1, <2>2, <4>1, PrecedesTransitive
    <3>3. QED
      BY <1>1, <3>1, <3>2
  <2>4. CASE k = 1
    BY <2>3, <2>4
  <2>5. CASE 1 < k
    <3>1. Precedes(t[1], t[k])
      BY <2>1, <2>5 DEF Linked
    <3>2. QED
      BY <2>1, <2>3, <3>1, PrecedesTransitive
  <2>6. QED
    BY <1>1, <2>4, <2>5
<1>7. ASSUME NEW j \in 1..Len(u), NEW k \in 1..Len(u), j < k
      PROVE  Precedes(u[j], u[k])
  <2>1. CASE k \in 1..Len(s)
    <3>1. j \in 1..Len(s) /\ u[j] = s[j] /\ u[k] = s[k]
      BY <1>1, <1>3, <1>7, <2>1
    <3>2. QED
      BY <1>7, <2>1, <3>1 DEF Linked
  <2>2. CASE j \in 1..Len(s) /\ k \in (Len(s) + 1)..Len(u)
    <3>1. u[j] = s[j] /\ u[k] = t[k - Len(s)] /\ k - Len(s) \in 1..Len(t)
      BY <1>3, <1>4, <2>2
    <3>2. QED
      BY <1>6, <2>2, <3>1
  <2>3. CASE j \in (Len(s) + 1)..Len(u) /\ k \in (Len(s) + 1)..Len(u)
    <3>1. /\ u[j] = t[j - Len(s)] /\ j - Len(s) \in 1..Len(t)
          /\ u[k] = t[k - Len(s)] /\ k - Len(s) \in 1..Len(t)
      BY <1>4, <2>3
    <3>2. j - Len(s) < k - Len(s)
      BY <1>1, <1>7
    <3>3. QED
      BY <3>1, <3>2 DEF Linked
  <2>4. QED
    BY <1>1, <1>7, <2>1, <2>2, <2>3
<1>8. QED
  BY <1>5, <1>7 DEF Linked, u

(* Dropping pieces from the front. *)
LEMMA ChainSuffix ==
  ASSUME NEW s \in Seq(Piece), NEW c, Chain(s, c), NEW n \in 0..Len(s)
  PROVE  /\ SubSeq(s, n + 1, Len(s)) \in Seq(Piece)
         /\ Len(SubSeq(s, n + 1, Len(s))) = Len(s) - n /\ Len(s) \in Nat
         /\ \A k \in 1..(Len(s) - n) : SubSeq(s, n + 1, Len(s))[k] = s[n + k]
         /\ Chain(SubSeq(s, n + 1, Len(s)), c)
<1> DEFINE t == SubSeq(s, n + 1, Len(s))
<1>1. Len(s) \in Nat
  BY LenProperties
<1>2. t \in Seq(Piece) /\ Len(t) = Len(s) - n /\ \A k \in 1..(Len(s) - n) : t[k] = s[n + k]
  <2>1. \A k \in (n + 1)..Len(s) : s[k] \in Piece
    BY <1>1, ElementOfSeq
  <2>2. n + 1 \in Int /\ Len(s) \in Int
    BY <1>1
  <2>3. /\ t \in Seq(Piece)
        /\ Len(t) = IF n + 1 <= Len(s) THEN Len(s) - (n + 1) + 1 ELSE 0
        /\ \A k \in 1..(Len(s) - (n + 1) + 1) : t[k] = s[(n + 1) + k - 1]
    BY <2>1, <2>2, SubSeqProperties
  <2>4. Len(t) = Len(s) - n
    BY <1>1, <2>3
  <2>5. ASSUME NEW k \in 1..(Len(s) - n)
        PROVE  t[k] = s[n + k]
    <3>1. k \in 1..(Len(s) - (n + 1) + 1) /\ (n + 1) + k - 1 = n + k
      BY <1>1
    <3>2. QED
      BY <2>3, <3>1
  <2>6. QED
    BY <2>3, <2>4, <2>5
<1> HIDE DEF t
<1>3. ASSUME NEW k \in 1..Len(t)
      PROVE  t[k] = s[n + k] /\ n + k \in 1..Len(s)
  BY <1>1, <1>2
<1>4. ASSUME NEW k \in 2..Len(t)
      PROVE  t[k] = NextPiece(t[k-1], c)
  <2>1. t[k] = s[n + k] /\ t[k-1] = s[n + (k - 1)]
    <3>1. k \in 1..Len(t) /\ k - 1 \in 1..Len(t)
      BY <1>1, <1>2
    <3>2. QED
      BY <1>3, <3>1
  <2>2. n + k \in 2..Len(s) /\ n + (k - 1) = (n + k) - 1
    BY <1>1, <1>2
  <2>3. QED
    BY <2>1, <2>2 DEF Chain, Linked
<1>5. ASSUME NEW j \in 1..Len(t), NEW k \in 1..Len(t), j < k
      PROVE  Precedes(t[j], t[k])
  <2>1. n + j < n + k
    BY <1>5
  <2>2. QED
    BY <1>3, <2>1 DEF Chain, Linked
<1>6. \A k \in 1..Len(t) : t[k].id <= Len(c)
  BY <1>3 DEF Chain
<1>7. t # <<>> => NextPiece(t[Len(t)], c) = Half(Len(c) + 1, "line")
  <2>1. SUFFICES ASSUME t # <<>> PROVE NextPiece(t[Len(t)], c) = Half(Len(c) + 1, "line")
    OBVIOUS
  <2>2. Len(t) \in 1..Len(t) /\ n + Len(t) = Len(s)
    BY <1>1, <1>2, <2>1, EmptySeq
  <2>3. t[Len(t)] = s[Len(s)] /\ s # <<>>
    BY <1>1, <1>3, <2>2
  <2>4. QED
    BY <2>3 DEF Chain
<1>8. Chain(t, c)
  BY <1>4, <1>5, <1>6, <1>7 DEF Chain, Linked
<1>9. QED
  BY <1>1, <1>2, <1>8 DEF t

-----------------------------------------------------------------------------
(* The bytes of one request. *)

(* t runs from piece p to piece q of the same request. *)
Segment(t, c, p, q) ==
  /\ t \in Seq(Piece) /\ t # <<>> /\ Linked(t, c)
  /\ t[1] = p /\ t[Len(t)] = q
  /\ \A k \in 1..Len(t) : t[k].id = p.id

LEMMA SegmentConcat ==
  ASSUME NEW c, NEW s, NEW p, NEW q, Segment(s, c, p, q),
         NEW t, NEW x, Segment(t, c, NextPiece(q, c), x), NextPiece(q, c).id = p.id
  PROVE  Segment(s \o t, c, p, x)
<1> DEFINE u == s \o t
<1>1. /\ Len(s) \in Nat \ {0} /\ Len(t) \in Nat \ {0} /\ Len(u) = Len(s) + Len(t)
      /\ u \in Seq(Piece)
      /\ \A i \in 1..(Len(s) + Len(t)) : u[i] = IF i <= Len(s) THEN s[i] ELSE t[i - Len(s)]
  <2>1. s \in Seq(Piece) /\ t \in Seq(Piece) /\ s # <<>> /\ t # <<>>
    BY DEF Segment
  <2>2. QED
    BY <2>1, EmptySeq, LenProperties, ConcatProperties
<1>2. Linked(u, c)
  BY LinkedConcat DEF Segment
<1> HIDE DEF u
<1>3. u[1] = s[1] /\ u # <<>>
  BY <1>1
<1>4. u[Len(u)] = t[Len(t)]
  <2>1. Len(u) \in 1..(Len(s) + Len(t)) /\ ~(Len(u) <= Len(s)) /\ Len(u) - Len(s) = Len(t)
    BY <1>1
  <2>2. QED
    BY <1>1, <2>1
<1>5. ASSUME NEW k \in 1..Len(u)
      PROVE  u[k].id = p.id
  <2>1. CASE k \in 1..Len(s)
    BY <1>1, <2>1 DEF Segment
  <2>2. CASE k \in (Len(s) + 1)..Len(u)
    <3>1. u[k] = t[k - Len(s)] /\ k - Len(s) \in 1..Len(t)
      BY <1>1, <2>2
    <3>2. QED
      BY <3>1 DEF Segment
  <2>3. QED
    BY <1>1, <2>1, <2>2
<1>6. Segment(u, c, p, x)
  BY <1>1, <1>2, <1>3, <1>4, <1>5 DEF Segment
<1>7. QED
  BY <1>6 DEF u

LEMMA TextLineSegment ==
  ASSUME NEW i \in Id, NEW w \in What \ {"body"}, NEW c
  PROVE  Segment(TextLine(i, w), c, Half(i, w), End(i, w))
<1> DEFINE p == Half(i, w)
           q == End(i, w)
<1>1. p \in Piece /\ q \in Piece /\ p.id = i /\ q.id = i
  BY HalfFacts
<1>2. q = NextPiece(p, c)
  BY HalfFacts DEF NextPiece
<1>3. Precedes(p, q)
  BY <1>1, <1>2, PrecedesNext
<1>4. TextLine(i, w) = <<p, q>>
  BY DEF TextLine, Half, End
<1> HIDE DEF p, q
<1>5. /\ <<p, q>> \in Seq(Piece) /\ Len(<<p, q>>) = 2
      /\ <<p, q>>[1] = p /\ <<p, q>>[2] = q /\ <<p, q>> # <<>>
  BY <1>1
<1>6. Linked(<<p, q>>, c)
  BY <1>2, <1>3, <1>5 DEF Linked
<1>7. Segment(<<p, q>>, c, p, q)
  BY <1>1, <1>5, <1>6 DEF Segment
<1>8. QED
  BY <1>4, <1>7 DEF p, q

LEMMA BodySegment ==
  ASSUME NEW i \in Id, NEW c
  PROVE  Segment(<<Half(i, "body")>>, c, Half(i, "body"), Half(i, "body"))
<1>1. Half(i, "body") \in Piece
  BY HalfFacts DEF What
<1>2. Linked(<<Half(i, "body")>>, c)
  BY DEF Linked
<1>3. QED
  BY <1>1, <1>2 DEF Segment

LEMMA BytesSegment ==
  ASSUME NEW i \in Id, NEW c, NEW r \in Request, c[i] = r
  PROVE  \E q \in Piece : /\ Segment(Bytes(i, r), c, Half(i, "line"), q)
                          /\ NextPiece(q, c) = Half(i + 1, "line")
<1>0. \A w \in What : /\ Half(i, w).id = i /\ End(i, w).id = i /\ End(i, w) \in Piece
                      /\ Half(i, w) \in Piece
  BY HalfFacts
<1>1. /\ NextPiece(End(i, "line"), c) = Half(i, "Host")
      /\ NextPiece(End(i, "Host"), c) =
           IF r.connection = "none" THEN Half(i, "blank") ELSE Half(i, "Connection")
      /\ NextPiece(End(i, "Connection"), c) = Half(i, "blank")
      /\ NextPiece(End(i, "blank"), c) =
           IF r.body THEN Half(i, "body") ELSE Half(i + 1, "line")
      /\ NextPiece(Half(i, "body"), c) = Half(i + 1, "line")
  BY DEF NextPiece, Half, End
<1> DEFINE s1 == TextLine(i, "line") \o TextLine(i, "Host")
           s2 == s1 \o (IF r.connection = "none" THEN <<>> ELSE TextLine(i, "Connection"))
           s3 == s2 \o TextLine(i, "blank")
           s4 == s3 \o (IF r.body THEN <<Half(i, "body")>> ELSE <<>>)
           p == Half(i, "line")
<1>2. Segment(s1, c, p, End(i, "Host"))
  BY <1>0, <1>1, TextLineSegment, SegmentConcat DEF What
<1>3. \E q \in {End(i, "Host"), End(i, "Connection")} :
        Segment(s2, c, p, q) /\ NextPiece(q, c) = Half(i, "blank")
  <2>1. CASE r.connection = "none"
    <3>1. s2 = s1
      BY <1>2, <2>1, ConcatEmptySeq DEF Segment
    <3>2. QED
      BY <1>1, <1>2, <2>1, <3>1
  <2>2. CASE r.connection # "none"
    <3> HIDE DEF s1
    <3>1. Segment(TextLine(i, "Connection"), c, Half(i, "Connection"), End(i, "Connection"))
      BY TextLineSegment DEF What
    <3>2. Half(i, "Connection").id = p.id
      BY <1>0 DEF What
    <3>3. Segment(s1 \o TextLine(i, "Connection"), c, p, End(i, "Connection"))
      BY <1>1, <1>2, <2>2, <3>1, <3>2, SegmentConcat
    <3>4. QED
      BY <1>1, <2>2, <3>3
  <2>3. QED
    BY <2>1, <2>2
<1>4. Segment(s3, c, p, End(i, "blank"))
  <2> HIDE DEF s2
  <2>1. PICK q : Segment(s2, c, p, q) /\ NextPiece(q, c) = Half(i, "blank")
    BY <1>3
  <2>2. Segment(TextLine(i, "blank"), c, Half(i, "blank"), End(i, "blank"))
    BY TextLineSegment DEF What
  <2>3. Half(i, "blank").id = p.id
    BY <1>0 DEF What
  <2>4. QED
    BY <2>1, <2>2, <2>3, SegmentConcat
<1>5. \E q \in Piece : Segment(s4, c, p, q) /\ NextPiece(q, c) = Half(i + 1, "line")
  <2> HIDE DEF s3
  <2>1. CASE r.body
    <3>1. Half(i, "body").id = p.id /\ Half(i, "body") \in Piece
      BY <1>0 DEF What
    <3>2. Segment(s3 \o <<Half(i, "body")>>, c, p, Half(i, "body"))
      BY <1>1, <1>4, <2>1, <3>1, BodySegment, SegmentConcat
    <3>3. QED
      BY <1>1, <2>1, <3>1, <3>2
  <2>2. CASE ~r.body
    <3>1. s4 = s3
      BY <1>4, <2>2, ConcatEmptySeq DEF Segment
    <3>2. End(i, "blank") \in Piece
      BY <1>0 DEF What
    <3>3. QED
      BY <1>1, <1>4, <2>2, <3>1, <3>2
  <2>3. QED
    BY <2>1, <2>2
<1>6. Bytes(i, r) = s4
  BY DEF Bytes, Half
<1>7. QED
  BY <1>5, <1>6

LEMMA NextOfOld ==
  ASSUME NEW c \in Seq(Request), NEW r, NEW x, x.id \in 1..Len(c)
  PROVE  NextPiece(x, Append(c, r)) = NextPiece(x, c)
<1>1. Append(c, r)[x.id] = c[x.id]
  BY LenProperties
<1>2. QED
  BY <1>1 DEF NextPiece

(* The client sends one more request. *)
LEMMA ChainGrows ==
  ASSUME NEW s \in Seq(Piece), NEW c \in Seq(Request), Chain(s, c),
         Len(c) < MaxRequest, NEW r \in Request
  PROVE  LET u == s \o Bytes(Len(c) + 1, r)
         IN  /\ u \in Seq(Piece) /\ Chain(u, Append(c, r))
             /\ Bytes(Len(c) + 1, r) \in Seq(Piece)
             /\ \A k \in 1..Len(u) : (k \in 1..Len(s) /\ u[k] = s[k]) \/ u[k].id = Len(c) + 1
<1> DEFINE i == Len(c) + 1
           d == Append(c, r)
           t == Bytes(i, r)
           u == s \o t
<1>1. Len(c) \in Nat /\ i \in Id /\ Len(d) = i /\ d[i] = r
  BY LenProperties, AppendProperties, BoundAssumption DEF Id
<1>2. \A x : x.id \in 1..Len(c) => NextPiece(x, d) = NextPiece(x, c)
  BY NextOfOld
<1> HIDE DEF d
<1>3. PICK q \in Piece : Segment(t, d, Half(i, "line"), q) /\ NextPiece(q, d) = Half(i + 1, "line")
  BY <1>1, BytesSegment
<1>4. Half(i, "line").id = i
  BY DEF Half
<1> HIDE DEF t, i
<1>5. /\ t \in Seq(Piece) /\ t # <<>> /\ Linked(t, d) /\ t[1] = Half(i, "line") /\ t[Len(t)] = q
      /\ \A k \in 1..Len(t) : t[k].id = i
  BY <1>3, <1>4 DEF Segment
<1>6. /\ Len(s) \in Nat /\ Len(t) \in Nat \ {0} /\ Len(u) = Len(s) + Len(t)
      /\ u \in Seq(Piece)
      /\ \A k \in 1..(Len(s) + Len(t)) : u[k] = IF k <= Len(s) THEN s[k] ELSE t[k - Len(s)]
  BY <1>5, EmptySeq, LenProperties, ConcatProperties
<1>7. \A k \in 1..Len(s) : s[k].id \in 1..Len(c)
  BY <1>1, PieceFacts DEF Chain
<1>8. Linked(s, d)
  <2>1. ASSUME NEW k \in 2..Len(s)
        PROVE  s[k] = NextPiece(s[k-1], d)
    <3>1. s[k-1].id \in 1..Len(c)
      BY <1>6, <1>7
    <3>2. QED
      BY <1>2, <3>1 DEF Chain, Linked
  <2>2. QED
    BY <2>1 DEF Chain, Linked
<1>9. Linked(u, d)
  <2>1. CASE s = <<>>
    BY <1>5, <2>1, ConcatEmptySeq
  <2>2. CASE s # <<>>
    <3>1. Len(s) \in 1..Len(s)
      BY <1>6, <2>2, EmptySeq
    <3>2. t[1] = NextPiece(s[Len(s)], d)
      BY <1>2, <1>5, <1>7, <2>2, <3>1 DEF Chain, i
    <3>3. QED
      BY <1>5, <1>8, <2>2, <3>2, LinkedConcat
  <2>3. QED
    BY <2>1, <2>2
<1> HIDE DEF u
<1>10. ASSUME NEW k \in 1..Len(u)
       PROVE  (k \in 1..Len(s) /\ u[k] = s[k]) \/ u[k].id = i
  <2>1. CASE k <= Len(s)
    BY <1>6, <2>1
  <2>2. CASE ~(k <= Len(s))
    <3>1. u[k] = t[k - Len(s)] /\ k - Len(s) \in 1..Len(t)
      BY <1>6, <2>2
    <3>2. QED
      BY <1>5, <3>1
  <2>3. QED
    BY <2>1, <2>2
<1>11. u[Len(u)] = q
  <2>1. Len(u) \in 1..(Len(s) + Len(t)) /\ ~(Len(u) <= Len(s)) /\ Len(u) - Len(s) = Len(t)
    BY <1>6
  <2>2. QED
    BY <1>5, <1>6, <2>1
<1>12. \A k \in 1..Len(u) : u[k].id <= Len(d)
  <2> SUFFICES ASSUME NEW k \in 1..Len(u) PROVE u[k].id <= i
    BY <1>1
  <2>1. CASE u[k].id = i
    BY <1>1, <2>1 DEF Id
  <2>2. CASE k \in 1..Len(s) /\ u[k] = s[k]
    BY <1>1, <1>7, <2>2 DEF i
  <2>3. QED
    BY <1>10, <2>1, <2>2
<1>13. Chain(u, d)
  BY <1>1, <1>3, <1>9, <1>11, <1>12 DEF Chain
<1>14. QED
  BY <1>5, <1>6, <1>10, <1>13 DEF u, t, d, i

-----------------------------------------------------------------------------
(* What the parser finds. *)

LEMMA RestType ==
  ASSUME TypeOK
  PROVE  /\ rest \in Seq(Piece) /\ Len(rest) = Len(buf) + Len(net)
         /\ Len(buf) \in Nat /\ Len(net) \in Nat
         /\ \A k \in 1..Len(buf) : rest[k] = buf[k]
<1>1. buf \in Seq(Piece) /\ net \in Seq(Piece)
  BY DEF TypeOK
<1>2. /\ rest \in Seq(Piece) /\ Len(rest) = Len(buf) + Len(net)
      /\ Len(buf) \in Nat /\ Len(net) \in Nat
      /\ \A k \in 1..(Len(buf) + Len(net)) :
           rest[k] = IF k <= Len(buf) THEN buf[k] ELSE net[k - Len(buf)]
  BY <1>1, LenProperties, ConcatProperties DEF rest
<1>3. QED
  BY <1>2

(* Consuming the first n pieces of the buffer. *)
LEMMA Consume ==
  ASSUME TypeOK, NEW n \in 0..Len(buf)
  PROVE  /\ SubSeq(buf, n + 1, Len(buf)) \in Seq(Piece)
         /\ SubSeq(buf, n + 1, Len(buf)) \o net = SubSeq(rest, n + 1, Len(rest))
<1> DEFINE b == SubSeq(buf, n + 1, Len(buf))
           t == SubSeq(rest, n + 1, Len(rest))
<1>1. /\ buf \in Seq(Piece) /\ net \in Seq(Piece) /\ rest \in Seq(Piece)
      /\ Len(rest) = Len(buf) + Len(net) /\ Len(buf) \in Nat /\ Len(net) \in Nat
  BY RestType DEF TypeOK
<1>2. ASSUME NEW s \in Seq(Piece), n <= Len(s)
      PROVE  /\ SubSeq(s, n + 1, Len(s)) \in Seq(Piece)
             /\ Len(SubSeq(s, n + 1, Len(s))) = Len(s) - n
             /\ \A k \in 1..(Len(s) - n) : SubSeq(s, n + 1, Len(s))[k] = s[n + k]
  <2>1. Len(s) \in Nat
    BY LenProperties
  <2>2. \A k \in (n + 1)..Len(s) : s[k] \in Piece
    BY <2>1, ElementOfSeq
  <2>3. n + 1 \in Int /\ Len(s) \in Int
    BY <2>1
  <2>4. /\ SubSeq(s, n + 1, Len(s)) \in Seq(Piece)
        /\ Len(SubSeq(s, n + 1, Len(s))) = IF n + 1 <= Len(s) THEN Len(s) - (n + 1) + 1 ELSE 0
        /\ \A k \in 1..(Len(s) - (n + 1) + 1) : SubSeq(s, n + 1, Len(s))[k] = s[(n + 1) + k - 1]
    BY <2>2, <2>3, SubSeqProperties
  <2>5. Len(SubSeq(s, n + 1, Len(s))) = Len(s) - n
    BY <1>2, <2>1, <2>4
  <2>6. ASSUME NEW k \in 1..(Len(s) - n)
        PROVE  SubSeq(s, n + 1, Len(s))[k] = s[n + k]
    <3>1. k \in 1..(Len(s) - (n + 1) + 1) /\ (n + 1) + k - 1 = n + k
      BY <2>1
    <3>2. QED
      BY <2>4, <3>1
  <2>7. QED
    BY <2>4, <2>5, <2>6
<1>3. /\ b \in Seq(Piece) /\ Len(b) = Len(buf) - n
      /\ \A k \in 1..(Len(buf) - n) : b[k] = buf[n + k]
  BY <1>1, <1>2
<1>4. /\ t \in Seq(Piece) /\ Len(t) = Len(rest) - n
      /\ \A k \in 1..(Len(rest) - n) : t[k] = rest[n + k]
  BY <1>1, <1>2
<1> HIDE DEF b, t
<1>5. /\ b \o net \in Seq(Piece) /\ Len(b \o net) = Len(b) + Len(net)
      /\ \A k \in 1..(Len(b) + Len(net)) :
           (b \o net)[k] = IF k <= Len(b) THEN b[k] ELSE net[k - Len(b)]
  BY <1>1, <1>3, ConcatProperties
<1>6. \A k \in 1..(Len(buf) + Len(net)) :
        rest[k] = IF k <= Len(buf) THEN buf[k] ELSE net[k - Len(buf)]
  BY <1>1, ConcatProperties DEF rest
<1>7. Len(b \o net) = Len(t)
  BY <1>1, <1>3, <1>4, <1>5
<1>8. ASSUME NEW k \in 1..Len(t)
      PROVE  (b \o net)[k] = t[k]
  <2>1. /\ k \in 1..(Len(rest) - n) /\ n + k \in 1..(Len(buf) + Len(net))
        /\ k \in 1..(Len(b) + Len(net))
    BY <1>1, <1>3, <1>4
  <2>2. CASE k <= Len(b)
    <3>1. n + k <= Len(buf) /\ k \in 1..(Len(buf) - n)
      BY <1>1, <1>3, <2>1, <2>2
    <3>2. QED
      BY <1>3, <1>4, <1>5, <1>6, <2>1, <2>2, <3>1
  <2>3. CASE ~(k <= Len(b))
    <3>1. ~(n + k <= Len(buf)) /\ (n + k) - Len(buf) = k - Len(b)
      BY <1>1, <1>3, <2>1, <2>3
    <3>2. QED
      BY <1>4, <1>5, <1>6, <2>1, <2>3, <3>1
  <2>4. QED
    BY <2>2, <2>3
<1>9. b \o net = t
  BY <1>4, <1>5, <1>7, <1>8, SeqEqual
<1>10. QED
  BY <1>3, <1>9 DEF b, t

LEMMA Dropped ==
  ASSUME TypeOK, Chain(rest, sent), NEW n \in 0..Len(buf),
         buf' = SubSeq(buf, n + 1, Len(buf)), UNCHANGED <<net, sent>>
  PROVE  /\ buf' \in Seq(Piece) /\ Chain(rest, sent)'
         /\ Len(rest') = Len(rest) - n /\ Len(rest) \in Nat
         /\ \A k \in 1..Len(rest') : rest'[k] = rest[n + k] /\ n + k \in 1..Len(rest)
<1>1. n \in 0..Len(rest) /\ rest \in Seq(Piece) /\ Len(rest) \in Nat
  BY RestType
<1>2. buf' \in Seq(Piece) /\ rest' = SubSeq(rest, n + 1, Len(rest))
  BY Consume DEF rest
<1>3. /\ Len(rest') = Len(rest) - n
      /\ \A k \in 1..(Len(rest) - n) : rest'[k] = rest[n + k]
      /\ Chain(rest', sent)
  BY <1>1, <1>2, ChainSuffix
<1>4. Chain(rest, sent)'
  BY <1>3
<1>5. \A k \in 1..Len(rest') : rest'[k] = rest[n + k] /\ n + k \in 1..Len(rest)
  BY <1>1, <1>3
<1>6. QED
  BY <1>1, <1>2, <1>3, <1>4, <1>5

(* findCRLF, when the first piece does not end a line and the second does, *)
(* or the first does.                                                      *)
LEMMA LineEndIs ==
  ASSUME TypeOK
  PROVE  /\ 2 <= Len(buf) /\ buf[1].part = 1 /\ buf[2].part = 2 => LineEnd = 2
         /\ 1 <= Len(buf) /\ buf[1].part = 2 => LineEnd = 1
<1>0. Len(buf) \in Nat
  BY RestType
<1>1. ASSUME 2 <= Len(buf), buf[1].part = 1, buf[2].part = 2
      PROVE  LineEnd = 2
  <2>1. 2 \in 1..Len(buf) /\ buf[2].part = 2 /\ \A j \in 1..(2-1) : buf[j].part # 2
    BY <1>0, <1>1
  <2>2. \A k \in 1..Len(buf) :
          buf[k].part = 2 /\ (\A j \in 1..(k-1) : buf[j].part # 2) => k = 2
    BY <1>0, <1>1
  <2>3. QED
    BY <2>1, <2>2 DEF LineEnd
<1>2. ASSUME 1 <= Len(buf), buf[1].part = 2
      PROVE  LineEnd = 1
  <2>1. 1 \in 1..Len(buf) /\ buf[1].part = 2 /\ \A j \in 1..(1-1) : buf[j].part # 2
    BY <1>0, <1>2
  <2>2. \A k \in 1..Len(buf) :
          buf[k].part = 2 /\ (\A j \in 1..(k-1) : buf[j].part # 2) => k = 1
    BY <1>0, <1>2
  <2>3. QED
    BY <2>1, <2>2 DEF LineEnd
<1>3. QED
  BY <1>1, <1>2

(* When the buffer begins with a line and a CRLF has arrived, the line is  *)
(* there.                                                                  *)
LEMMA LineAhead ==
  ASSUME TypeOK, Chain(rest, sent), HasCRLF, buf[1].part = 1, buf[1].what # "body"
  PROVE  /\ 2 <= Len(buf) /\ LineEnd = 2 /\ rest[1] = buf[1] /\ rest[2] = buf[2]
         /\ buf[2] = End(buf[1].id, buf[1].what)
<1>1. PICK k \in 1..Len(buf) : buf[k].part = 2
  BY DEF HasCRLF
<1>2. 2 <= Len(buf) /\ Len(buf) \in Nat /\ 2 \in 2..Len(rest)
  BY <1>1, RestType
<1>3. rest[1] = buf[1] /\ rest[2] = buf[2]
  BY <1>2, RestType
<1>4. rest[2] = NextPiece(rest[1], sent)
  <2>1. rest[2] = NextPiece(rest[2-1], sent)
    BY <1>2 DEF Chain, Linked
  <2>2. QED
    BY <2>1
<1>5. buf[2] = End(buf[1].id, buf[1].what)
  BY <1>3, <1>4 DEF NextPiece
<1>6. buf[2].part = 2
  BY <1>5 DEF End
<1>7. QED
  BY <1>2, <1>3, <1>5, <1>6, LineEndIs

(* The client has more to send after a line that is not the last.          *)
LEMMA MoreComes ==
  ASSUME TypeOK, Chain(rest, sent), NEW p, 2 <= Len(rest), rest[2] = p,
         NextPiece(p, sent).what # "line"
  PROVE  3 <= Len(rest) /\ rest[3] = NextPiece(p, sent)
<1>0. Len(rest) \in Nat
  BY RestType
<1>1. rest \in Seq(Piece)
  BY RestType
<1>2. Len(rest) # 2
  <2> SUFFICES ASSUME Len(rest) = 2 PROVE FALSE
    OBVIOUS
  <2>1. rest # <<>>
    BY <1>1, EmptySeq
  <2>2. NextPiece(rest[Len(rest)], sent) = Half(Len(sent) + 1, "line")
    BY <2>1 DEF Chain
  <2>3. NextPiece(p, sent) = Half(Len(sent) + 1, "line")
    BY <2>2
  <2>4. QED
    BY <2>3 DEF Half
<1>3. 3 <= Len(rest) /\ 3 \in 2..Len(rest)
  <2>1. \A n \in Nat : 2 <= n /\ n # 2 => 3 <= n /\ 3 \in 2..n
    OBVIOUS
  <2>2. QED
    BY <1>0, <1>2, <2>1, Zenon
<1>4. 3 \in 2..Len(rest)
  BY <1>3
<1>5. rest[3] = NextPiece(rest[3-1], sent)
  BY <1>4 DEF Chain, Linked
<1>6. rest[3] = NextPiece(rest[2], sent)
  BY <1>5
<1>7. QED
  BY <1>3, <1>6

-----------------------------------------------------------------------------
(* The steps. *)

LEMMA InitInv == Init => IInv
<1> SUFFICES ASSUME Init PROVE IInv
  OBVIOUS
<1>1. rest = <<>>
  BY ConcatEmptySeq DEF Init, rest
<1>2. TypeOK
  <2>1. request.line = None /\ request.headers = {}
    BY DEF Init, NoRequest
  <2>2. request \in [line : Id \cup {None}, headers : SUBSET ({"Host", "Connection"} \X Id)]
    BY DEF Init, NoRequest
  <2>3. QED
    BY <2>1, <2>2, BoundAssumption DEF Init, TypeOK
<1>3. Chain(rest, sent)
  BY <1>1 DEF Chain, Linked
<1>4. ParserInv
  BY DEF Init, ParserInv, NoRequest, None
<1>5. TurnInv /\ AnsweredWhole
  BY <1>1 DEF Init, TurnInv, AnsweredWhole
<1>6. QED
  BY <1>2, <1>3, <1>4, <1>5 DEF IInv

LEMMA RequestType ==
  ASSUME TypeOK
  PROVE  /\ request.line \in Id \cup {None} /\ request.line \in Nat
         /\ request.headers \in SUBSET ({"Host", "Connection"} \X Id)
         /\ Len(sent) \in Nat /\ Len(answers) \in Nat
<1>1. request \in [line : Id \cup {None}, headers : SUBSET ({"Host", "Connection"} \X Id)]
  BY DEF TypeOK
<1>2. QED
  BY <1>1, LenProperties, BoundAssumption DEF TypeOK, Id, None

LEMMA AnswerType ==
  ASSUME TypeOK, NEW j \in 1..Len(answers)
  PROVE  answers[j].line \in Nat \ {0}
<1>1. answers[j] \in [line : Id, headers : SUBSET ({"Host", "Connection"} \X Id)]
  BY ElementOfSeq DEF TypeOK
<1>2. QED
  BY <1>1, BoundAssumption DEF Id

LEMMA PiecesAssociate ==
  ASSUME NEW s \in Seq(Piece), NEW t \in Seq(Piece), NEW u \in Seq(Piece)
  PROVE  (s \o t) \o u = s \o (t \o u)
BY ConcatAssociative

LEMMA ClientSendStep ==
  ASSUME IInv, NEW r \in Request, ClientSend(r)
  PROVE  IInv'
<1> USE DEF IInv
<1> DEFINE t == Bytes(Len(sent) + 1, r)
<1>1. /\ Len(sent) < MaxRequest /\ sent' = Append(sent, r) /\ net' = net \o t
      /\ UNCHANGED <<buf, pc, state, request, open, answers>>
  BY DEF ClientSend
<1>2. /\ sent \in Seq(Request) /\ rest \in Seq(Piece) /\ buf \in Seq(Piece)
      /\ net \in Seq(Piece) /\ Len(sent) \in Nat /\ Len(rest) \in Nat
  BY RestType, RequestType DEF TypeOK
<1>3. /\ t \in Seq(Piece) /\ rest \o t \in Seq(Piece) /\ Chain(rest \o t, sent')
      /\ \A k \in 1..Len(rest \o t) :
           (k \in 1..Len(rest) /\ (rest \o t)[k] = rest[k]) \/ (rest \o t)[k].id = Len(sent) + 1
  BY <1>1, <1>2, ChainGrows
<1> HIDE DEF t
<1>4. rest' = rest \o t
  BY <1>1, <1>2, <1>3, PiecesAssociate DEF rest
<1>5. /\ sent' \in Seq(Request) /\ Len(sent') = Len(sent) + 1
      /\ \A i \in 1..Len(sent) : sent'[i] = sent[i]
  BY <1>1, <1>2, AppendProperties
<1>6. TypeOK'
  <2>1. net' \in Seq(Piece)
    BY <1>1, <1>2, <1>3, ConcatProperties
  <2>2. Len(sent') <= MaxRequest
    BY <1>1, <1>2, <1>5, BoundAssumption
  <2>3. QED
    BY <1>1, <1>5, <2>1, <2>2 DEF TypeOK
<1>7. Chain(rest, sent)'
  BY <1>3, <1>4
<1>8. ParserInv'
  <2>1. request.line \in 0..Len(sent')
    BY <1>2, <1>5 DEF ParserInv
  <2>2. ASSUME state # "requestLine"
        PROVE  request.line \in 1..Len(sent) /\ sent'[request.line] = sent[request.line]
    BY <1>2, <1>5, <2>2, RequestType DEF ParserInv, TypeOK, None
  <2>3. ASSUME state = "headers", NEW w \in {"line", "Host", "Connection"}, ParsedUpTo(w)
        PROVE  ParsedUpTo(w)'
    <3>1. rest # <<>> /\ rest[1] = NextPiece(End(request.line, w), sent)
      BY <2>3 DEF ParsedUpTo
    <3>2. rest' # <<>> /\ rest'[1] = rest[1]
      <4>1. 1 \in 1..Len(rest)
        BY <1>2, <3>1, EmptySeq
      <4>2. Len(t) \in Nat /\ Len(rest \o t) = Len(rest) + Len(t) /\ (rest \o t)[1] = rest[1]
        BY <1>2, <1>3, <4>1, LenProperties, ConcatProperties
      <4>3. QED
        BY <1>2, <1>4, <4>1, <4>2
    <3>3. NextPiece(End(request.line, w), sent') = NextPiece(End(request.line, w), sent)
      BY <1>1, <1>2, <2>2, <2>3, NextOfOld DEF End
    <3>4. QED
      BY <1>1, <2>2, <2>3, <3>1, <3>2, <3>3 DEF ParsedUpTo
  <2>4. QED
    BY <1>1, <2>1, <2>2, <2>3 DEF ParserInv
<1>9. TurnInv'
  <2>1. ASSUME NEW k \in 1..Len(rest'), rest'[k].what = "line"
        PROVE  /\ request.line < rest'[k].id
               /\ \A j \in 1..Len(answers) : answers[j].line < rest'[k].id
    <3>1. CASE k \in 1..Len(rest) /\ rest'[k] = rest[k]
      BY <2>1, <3>1 DEF TurnInv
    <3>2. CASE rest'[k].id = Len(sent) + 1
      <4>1. request.line < Len(sent) + 1
        BY <1>2 DEF ParserInv
      <4>2. \A j \in 1..Len(answers) : answers[j].line < Len(sent) + 1
        BY <1>2 DEF TurnInv
      <4>3. QED
        BY <3>2, <4>1, <4>2
    <3>3. QED
      BY <1>3, <1>4, <3>1, <3>2
  <2>2. \A j \in 1..Len(answers) : answers[j].line \in 1..Len(sent')
    BY <1>2, <1>5 DEF TurnInv
  <2>3. \A j \in 1..Len(answers) : request.line # None => answers[j].line < request.line
    BY DEF TurnInv
  <2>4. UNCHANGED <<request, answers>>
    BY <1>1
  <2>5. QED
    BY <2>1, <2>2, <2>3, <2>4 DEF TurnInv
<1>10. AnsweredWhole'
  <2>1. \A j \in 1..Len(answers) : sent'[answers[j].line] = sent[answers[j].line]
    BY <1>5 DEF TurnInv
  <2>2. answers' = answers
    BY <1>1
  <2>3. QED
    BY <2>1, <2>2 DEF AnsweredWhole
<1>11. QED
  BY <1>6, <1>7, <1>8, <1>9, <1>10

(* Nothing the parser knows depends on where the bytes are. *)
LEMMA OnMessageStep ==
  ASSUME IInv, NEW n \in 1..Len(net), OnMessage(n)
  PROVE  IInv'
<1> USE DEF IInv
<1> DEFINE a == SubSeq(net, 1, n)
           b == SubSeq(net, n + 1, Len(net))
<1>1. /\ pc = "idle" /\ pc' = "parse" /\ buf' = buf \o a /\ net' = b
      /\ UNCHANGED <<sent, state, request, open, answers>>
  BY DEF OnMessage
<1>2. buf \in Seq(Piece) /\ net \in Seq(Piece) /\ Len(net) \in Nat
  BY RestType DEF TypeOK
<1>3. a \in Seq(Piece) /\ b \in Seq(Piece)
  <2>1. /\ \A k \in 1..n : net[k] \in Piece
        /\ \A k \in (n + 1)..Len(net) : net[k] \in Piece
    BY <1>2, ElementOfSeq
  <2>2. n \in Int /\ n + 1 \in Int /\ Len(net) \in Int
    BY <1>2
  <2>3. QED
    BY <2>1, <2>2, SubSeqProperties
<1>4. a \o b = net
  <2>1. 1 \in 1..(Len(net) + 1) /\ n \in (1 - 1)..Len(net) /\ Len(net) \in n..Len(net)
    BY <1>2
  <2>2. a \o b = SubSeq(net, 1, Len(net))
    BY <1>2, <2>1, ConcatAdjacentSubSeq
  <2>3. QED
    BY <1>2, <2>2, SubSeqFull
<1> HIDE DEF a, b
<1>5. rest' = rest
  BY <1>1, <1>2, <1>3, <1>4, PiecesAssociate DEF rest
<1>6. TypeOK'
  <2>1. buf' \in Seq(Piece) /\ net' \in Seq(Piece)
    BY <1>1, <1>2, <1>3, ConcatProperties
  <2>2. QED
    BY <1>1, <2>1 DEF TypeOK
<1>7. ParserInv'
  <2>1. state \in {"requestLine", "headers"}
    BY <1>1 DEF TypeOK
  <2>2. QED
    BY <1>1, <1>5, <2>1 DEF ParserInv, ParsedUpTo
<1>8. Chain(rest, sent)' /\ TurnInv' /\ AnsweredWhole'
  BY <1>1, <1>5 DEF TurnInv, AnsweredWhole
<1>9. QED
  BY <1>6, <1>7, <1>8

(* A step of the parser that consumes n pieces, of which what is left of   *)
(* the bytes is the rest.                                                  *)
LEMMA TurnKept ==
  ASSUME IInv, NEW n \in Nat, request'.line = request.line, UNCHANGED <<sent, answers>>,
         \A k \in 1..Len(rest') : rest'[k] = rest[n + k] /\ n + k \in 1..Len(rest)
  PROVE  TurnInv' /\ AnsweredWhole'
BY DEF IInv, TurnInv, AnsweredWhole

LEMMA ParseRequestLineStep ==
  ASSUME IInv, ParseRequestLine
  PROVE  IInv'
<1> USE DEF IInv
<1> DEFINE i == buf[1].id
<1>1. /\ pc = "parse" /\ state = "requestLine" /\ state' = "headers"
      /\ request' = [request EXCEPT !.line = i] /\ buf' = SubSeq(buf, LineEnd + 1, Len(buf))
      /\ HasCRLF /\ LineEnd = 2 /\ buf[1].what = "line"
      /\ UNCHANGED <<sent, net, pc, open, answers>>
  BY DEF ParseRequestLine, IsRequestLine, RetrieveLine
<1>2. buf \in Seq(Piece) /\ Len(buf) \in Nat /\ 1 <= Len(buf)
  <2>1. PICK k \in 1..Len(buf) : buf[k].part = 2
    BY <1>1 DEF HasCRLF
  <2>2. QED
    BY <2>1, RestType DEF TypeOK
<1>3. buf[1].part = 1
  <2>1. buf[1].part \in 1..2
    BY <1>2, PieceFacts
  <2>2. buf[1].part # 2
    BY <1>1, <1>2, LineEndIs
  <2>3. QED
    BY <2>1, <2>2
<1>4. 2 <= Len(buf) /\ rest[1] = buf[1] /\ rest[2] = End(i, "line")
  BY <1>1, <1>3, LineAhead
<1>5. i \in Id /\ i \in 1..Len(sent)
  <2>1. 1 \in 1..Len(rest) /\ rest \in Seq(Piece) /\ Len(sent) \in Nat
    BY <1>2, RestType, RequestType
  <2>2. rest[1].id <= Len(sent) /\ rest[1].id \in Id /\ rest[1].id \in Nat \ {0}
    BY <2>1, PieceFacts DEF Chain
  <2>3. QED
    BY <1>4, <2>1, <2>2
<1>6. request'.line = i /\ request'.headers = {} /\ request.line = None
  BY <1>1 DEF ParserInv, NoRequest, TypeOK
<1> HIDE DEF i
<1>7. 2 \in 0..Len(buf) /\ buf' = SubSeq(buf, 2 + 1, Len(buf))
  BY <1>1, <1>2, <1>4
<1>8. /\ buf' \in Seq(Piece) /\ Chain(rest, sent)'
      /\ Len(rest') = Len(rest) - 2 /\ Len(rest) \in Nat
      /\ \A k \in 1..Len(rest') : rest'[k] = rest[2 + k] /\ 2 + k \in 1..Len(rest)
  BY <1>1, <1>7, Dropped
<1>9. TypeOK'
  <2>1. request' \in [line : Id \cup {None}, headers : SUBSET ({"Host", "Connection"} \X Id)]
    BY <1>1, <1>5 DEF TypeOK
  <2>2. i # None
    BY <1>5 DEF None
  <2>3. QED
    BY <1>1, <1>6, <1>8, <2>1, <2>2 DEF TypeOK
<1>10. ParserInv'
  <2>1. ParsedUpTo("line")'
    <3>1. NextPiece(End(i, "line"), sent) = Half(i, "Host") /\ Half(i, "Host").what = "Host"
      BY DEF NextPiece, End, Half
    <3>2. 2 <= Len(rest)
      BY <1>4, RestType
    <3>3. 3 <= Len(rest) /\ rest[3] = NextPiece(End(i, "line"), sent)
      BY <1>4, <3>1, <3>2, MoreComes
    <3>4. rest' # <<>> /\ rest'[1] = rest[2 + 1]
      <4>1. Len(rest') # 0 /\ 1 \in 1..Len(rest')
        BY <1>8, <3>3
      <4>2. QED
        BY <1>8, <4>1
    <3>5. request'.headers = FieldsUpTo("line") \X {request'.line}
      BY <1>6 DEF FieldsUpTo
    <3>6. QED
      BY <1>1, <1>6, <3>3, <3>4, <3>5 DEF ParsedUpTo
  <2>2. request'.line \in 0..Len(sent)
    BY <1>5, <1>6
  <2>3. QED
    BY <1>1, <2>1, <2>2 DEF ParserInv
<1>11. TurnInv'
  <2>1. 1 \in 1..Len(rest) /\ 2 \in 1..Len(rest) /\ rest \in Seq(Piece)
    BY <1>4, RestType
  <2>2. \A j \in 1..Len(answers) : answers[j].line < i /\ answers[j].line \in 1..Len(sent)
    BY <1>1, <1>4, <2>1 DEF TurnInv, i
  <2>3. ASSUME NEW k \in 1..Len(rest'), rest'[k].what = "line"
        PROVE  /\ i < rest'[k].id
               /\ \A j \in 1..Len(answers) : answers[j].line < rest'[k].id
    <3>1. rest'[k] = rest[2 + k] /\ 2 + k \in 1..Len(rest)
      BY <1>8
    <3>2. Precedes(rest[2], rest[2 + k])
      BY <2>1, <3>1 DEF Chain, Linked
    <3>3. /\ rest[2].id = i /\ Rank(rest[2]) = 2
          /\ rest[2 + k].id \in Nat /\ rest[2 + k].part \in 1..2
      BY <1>4, <2>1, <3>1, PieceFacts DEF End, Rank
    <3>4. Rank(rest[2 + k]) = rest[2 + k].part
      BY <2>3, <3>1, <3>3 DEF Rank
    <3>5. i < rest[2 + k].id
      BY <3>2, <3>3, <3>4 DEF Precedes
    <3>6. \A j \in 1..Len(answers) : answers[j].line < rest[2 + k].id
      BY <2>3, <3>1 DEF TurnInv
    <3>7. QED
      BY <3>1, <3>5, <3>6
  <2>4. QED
    BY <1>1, <1>6, <2>2, <2>3 DEF TurnInv
<1>12. AnsweredWhole'
  BY <1>1 DEF AnsweredWhole
<1>13. QED
  BY <1>8, <1>9, <1>10, <1>11, <1>12

(* Which line comes after the one the parser has got to, and what is still *)
(* missing when it does.                                                   *)
LEMMA HeaderAhead ==
  ASSUME IInv, state = "headers"
  PROVE  \E v \in {"Host", "Connection", "blank"} :
           /\ rest # <<>> /\ rest[1] = Half(request.line, v)
           /\ v = "Connection" => sent[request.line].connection # "none"
           /\ v # "blank" => request.headers \cup {<<v, request.line>>}
                                = FieldsUpTo(v) \X {request.line}
           /\ v = "blank" => request.headers
                                = Fields(sent[request.line]) \X {request.line}
<1> DEFINE i == request.line
<1>1. PICK w \in {"line", "Host", "Connection"} : ParsedUpTo(w)
  BY DEF IInv, ParserInv
<1>2. /\ rest # <<>> /\ rest[1] = NextPiece(End(i, w), sent)
      /\ request.headers = FieldsUpTo(w) \X {i}
      /\ w = "Connection" => sent[i].connection # "none"
  BY <1>1 DEF ParsedUpTo
<1> HIDE DEF i
<1>3. /\ NextPiece(End(i, "line"), sent) = Half(i, "Host")
      /\ NextPiece(End(i, "Host"), sent) =
           IF sent[i].connection = "none" THEN Half(i, "blank") ELSE Half(i, "Connection")
      /\ NextPiece(End(i, "Connection"), sent) = Half(i, "blank")
  BY DEF NextPiece, End
<1> DEFINE Found(v) ==
             /\ rest # <<>> /\ rest[1] = Half(i, v)
             /\ v = "Connection" => sent[i].connection # "none"
             /\ v # "blank" => request.headers \cup {<<v, i>>} = FieldsUpTo(v) \X {i}
             /\ v = "blank" => request.headers = Fields(sent[i]) \X {i}
<1>4. CASE w = "line"
  <2>1. request.headers \cup {<<"Host", i>>} = FieldsUpTo("Host") \X {i}
    BY <1>2, <1>4 DEF FieldsUpTo
  <2>2. Found("Host")
    BY <1>2, <1>3, <1>4, <2>1
  <2>3. QED
    BY <2>2 DEF i
<1>5. CASE w = "Host" /\ sent[i].connection = "none"
  <2>1. request.headers = Fields(sent[i]) \X {i}
    BY <1>2, <1>5 DEF FieldsUpTo, Fields
  <2>2. Found("blank")
    BY <1>2, <1>3, <1>5, <2>1
  <2>3. QED
    BY <2>2 DEF i
<1>6. CASE w = "Host" /\ sent[i].connection # "none"
  <2>1. request.headers \cup {<<"Connection", i>>} = FieldsUpTo("Connection") \X {i}
    BY <1>2, <1>6 DEF FieldsUpTo
  <2>2. Found("Connection")
    BY <1>2, <1>3, <1>6, <2>1
  <2>3. QED
    BY <2>2 DEF i
<1>7. CASE w = "Connection"
  <2>1. request.headers = Fields(sent[i]) \X {i}
    BY <1>2, <1>7 DEF FieldsUpTo, Fields
  <2>2. Found("blank")
    BY <1>2, <1>3, <1>7, <2>1
  <2>3. QED
    BY <2>2 DEF i
<1>8. QED
  BY <1>1, <1>4, <1>5, <1>6, <1>7

LEMMA ParseHeaderStep ==
  ASSUME IInv, ParseHeader
  PROVE  IInv'
<1> USE DEF IInv
<1> DEFINE i == request.line
<1>1. /\ pc = "parse" /\ state = "headers" /\ HasCRLF
      /\ IF buf[LineEnd].what # "blank"
         THEN /\ request' = [request EXCEPT !.headers = @ \cup {<<buf[LineEnd].what, buf[LineEnd].id>>}]
              /\ state' = state
         ELSE state' = "body" /\ request' = request
      /\ buf' = SubSeq(buf, LineEnd + 1, Len(buf))
      /\ UNCHANGED <<sent, net, pc, open, answers>>
  BY DEF ParseHeader, RetrieveLine, AddHeader
<1>2. PICK v \in {"Host", "Connection", "blank"} :
        /\ rest # <<>> /\ rest[1] = Half(i, v)
        /\ v = "Connection" => sent[i].connection # "none"
        /\ v # "blank" => request.headers \cup {<<v, i>>} = FieldsUpTo(v) \X {i}
        /\ v = "blank" => request.headers = Fields(sent[i]) \X {i}
  BY <1>1, HeaderAhead
<1>3. buf[1] = Half(i, v)
  <2>1. PICK k \in 1..Len(buf) : buf[k].part = 2
    BY <1>1 DEF HasCRLF
  <2>2. 1 \in 1..Len(buf)
    BY <2>1, RestType
  <2>3. QED
    BY <1>2, <2>2, RestType
<1>4. buf[1].part = 1 /\ buf[1].what = v /\ buf[1].id = i
  BY <1>3 DEF Half
<1>5. buf[1].what # "body"
  BY <1>4
<1>6. 2 <= Len(buf) /\ LineEnd = 2 /\ buf[2] = End(i, v) /\ rest[2] = End(i, v)
  BY <1>1, <1>4, <1>5, LineAhead
<1>7. /\ IF v # "blank"
         THEN /\ request' = [request EXCEPT !.headers = @ \cup {<<v, i>>}]
              /\ state' = "headers"
         ELSE state' = "body" /\ request' = request
      /\ buf' = SubSeq(buf, 2 + 1, Len(buf))
  <2>1. buf[2].what = v /\ buf[2].id = i
    BY <1>6 DEF End
  <2>2. QED
    BY <1>1, <1>6, <2>1
<1>8. /\ buf' \in Seq(Piece) /\ Chain(rest, sent)'
      /\ Len(rest') = Len(rest) - 2 /\ Len(rest) \in Nat
      /\ \A k \in 1..Len(rest') : rest'[k] = rest[2 + k] /\ 2 + k \in 1..Len(rest)
  <2>1. 2 \in 0..Len(buf)
    BY <1>6, RestType
  <2>2. QED
    BY <1>1, <1>7, <2>1, Dropped
<1>9. /\ i \in Id /\ i \in 1..Len(sent) /\ i # None
      /\ request \in [line : Id \cup {None}, headers : SUBSET ({"Host", "Connection"} \X Id)]
      /\ request.headers \in SUBSET ({"Host", "Connection"} \X Id)
  BY <1>1, RequestType DEF TypeOK, ParserInv, None
<1>10. /\ request'.line = i
       /\ request'.headers = IF v # "blank" THEN request.headers \cup {<<v, i>>}
                                            ELSE request.headers
       /\ request' \in [line : Id \cup {None}, headers : SUBSET ({"Host", "Connection"} \X Id)]
  <2> HIDE DEF i
  <2>1. CASE v # "blank"
    <3>1. v \in {"Host", "Connection"}
      BY <2>1
    <3>2. request'.line = request.line /\ request'.headers = request.headers \cup {<<v, i>>}
      BY <1>7, <1>9, <2>1
    <3>3. {<<v, i>>} \subseteq {"Host", "Connection"} \X Id
      BY <1>9, <3>1
    <3>4. QED
      BY <1>7, <1>9, <2>1, <3>2, <3>3 DEF i
  <2>2. CASE v = "blank"
    BY <1>7, <1>9, <2>2 DEF i
  <2>3. QED
    BY <2>1, <2>2
<1> HIDE DEF i
<1>11. TypeOK'
  BY <1>1, <1>7, <1>8, <1>9, <1>10 DEF TypeOK
<1>12. ParserInv'
  <2>1. CASE v # "blank"
    <3>1. request'.headers = FieldsUpTo(v) \X {i} /\ v \in {"line", "Host", "Connection"}
      BY <1>2, <1>10, <2>1
    <3>2. /\ NextPiece(End(i, v), sent).what # "line"
      BY <2>1, <3>1 DEF NextPiece, End, Half
    <3>3. 2 <= Len(rest)
      BY <1>6, RestType
    <3>4. 3 <= Len(rest) /\ rest[3] = NextPiece(End(i, v), sent)
      BY <1>6, <3>2, <3>3, MoreComes
    <3>5. rest' # <<>> /\ rest'[1] = rest[2 + 1]
      <4>1. Len(rest') # 0 /\ 1 \in 1..Len(rest')
        BY <1>8, <3>4
      <4>2. QED
        BY <1>8, <4>1
    <3>6. ParsedUpTo(v)'
      BY <1>1, <1>2, <1>10, <3>1, <3>4, <3>5 DEF ParsedUpTo
    <3>7. QED
      BY <1>1, <1>7, <1>9, <1>10, <2>1, <3>1, <3>6 DEF ParserInv
  <2>2. CASE v = "blank"
    <3>1. request'.headers = Fields(sent[i]) \X {i}
      BY <1>2, <1>10, <2>2
    <3>2. QED
      BY <1>1, <1>7, <1>9, <1>10, <2>2, <3>1 DEF ParserInv
  <2>3. QED
    BY <2>1, <2>2
<1>13. TurnInv' /\ AnsweredWhole'
  <2>1. 2 \in Nat /\ request'.line = request.line
    BY <1>10 DEF i
  <2>2. QED
    BY <1>1, <1>8, <2>1, TurnKept
<1>14. QED
  BY <1>8, <1>11, <1>12, <1>13

LEMMA ParseNothingStep ==
  ASSUME IInv, ParseNothing
  PROVE  IInv'
BY DEF IInv, ParseNothing, TypeOK, ParserInv, ParsedUpTo, TurnInv, AnsweredWhole, rest

LEMMA ParseBodyStep ==
  ASSUME IInv, ParseBody
  PROVE  IInv'
<1> USE DEF IInv
<1>1. /\ pc = "parse" /\ state = "body" /\ buf' = <<>> /\ state' = "gotAll" /\ pc' = "parsed"
      /\ UNCHANGED <<sent, net, request, open, answers>>
  BY DEF ParseBody
<1>2. buf \in Seq(Piece) /\ Len(buf) \in Nat
  BY RestType DEF TypeOK
<1>3. buf' = SubSeq(buf, Len(buf) + 1, Len(buf)) /\ Len(buf) \in 0..Len(buf)
  BY <1>1, <1>2, SubSeqEmpty
<1>4. /\ buf' \in Seq(Piece) /\ Chain(rest, sent)'
      /\ \A k \in 1..Len(rest') : rest'[k] = rest[Len(buf) + k] /\ Len(buf) + k \in 1..Len(rest)
  BY <1>1, <1>3, Dropped
<1>5. TypeOK'
  BY <1>1, <1>4 DEF TypeOK
<1>6. ParserInv'
  BY <1>1 DEF ParserInv
<1>7. TurnInv' /\ AnsweredWhole'
  BY <1>1, <1>2, <1>4, TurnKept
<1>8. QED
  BY <1>4, <1>5, <1>6, <1>7

LEMMA OnRequestStep ==
  ASSUME IInv, OnRequest
  PROVE  IInv'
<1> USE DEF IInv
<1> DEFINE Answer == [line : Id, headers : SUBSET ({"Host", "Connection"} \X Id)]
           i == request.line
<1>1. /\ pc = "parsed" /\ state = "gotAll" /\ pc' = "idle"
      /\ answers' = IF open THEN Append(answers, request) ELSE answers
      /\ open' = (open /\ ~Closes(sent[i]))
      /\ state' = "requestLine" /\ request' = NoRequest
      /\ UNCHANGED <<sent, net, buf>>
  BY DEF OnRequest, Reset
<1>2. /\ request \in Answer /\ i \in 1..Len(sent) /\ i # None /\ i \in Nat
      /\ answers \in Seq(Answer) /\ Len(answers) \in Nat /\ Len(sent) \in Nat
      /\ request.headers = Fields(sent[i]) \X {i}
  <2>1. /\ request \in [line : Id \cup {None}, headers : SUBSET ({"Host", "Connection"} \X Id)]
        /\ request.line # None
    BY <1>1 DEF TypeOK
  <2>2. request \in Answer
    BY <2>1
  <2>3. QED
    BY <1>1, <2>1, <2>2, RequestType DEF TypeOK, ParserInv, None
<1>3. /\ answers' \in Seq(Answer) /\ Len(answers') \in {Len(answers), Len(answers) + 1}
      /\ \A j \in 1..Len(answers') :
           \/ j \in 1..Len(answers) /\ answers'[j] = answers[j]
           \/ j = Len(answers) + 1 /\ answers'[j] = request
  <2> HIDE DEF Answer
  <2>1. CASE open
    <3>1. answers' = Append(answers, request)
      BY <1>1, <2>1
    <3>2. QED
      BY <1>2, <3>1, AppendProperties
  <2>2. CASE ~open
    BY <1>1, <1>2, <2>2
  <2>3. QED
    BY <2>1, <2>2 DEF TypeOK
<1>4. request'.line = None /\ request'.headers = {}
  BY <1>1 DEF NoRequest
<1>5. open' \in BOOLEAN
  BY <1>1 DEF Closes, TypeOK
<1>6. TypeOK'
  <2>1. request' \in [line : Id \cup {None}, headers : SUBSET ({"Host", "Connection"} \X Id)]
    BY <1>1 DEF NoRequest
  <2>2. QED
    BY <1>1, <1>3, <1>4, <1>5, <2>1 DEF TypeOK
<1> HIDE DEF Answer, i
<1>7. rest' = rest
  BY <1>1 DEF rest
<1>8. Chain(rest, sent)'
  BY <1>1, <1>7
<1>9. ParserInv'
  BY <1>1, <1>2, <1>4 DEF ParserInv, None
<1>10. \A j \in 1..Len(answers) : answers[j].line \in 1..Len(sent) /\ answers[j].line < i
  BY <1>2 DEF TurnInv, i
<1>11. TurnInv'
  <2>1. ASSUME NEW k \in 1..Len(rest), rest[k].what = "line"
        PROVE  /\ None < rest[k].id
               /\ \A j \in 1..Len(answers') : answers'[j].line < rest[k].id
    <3>1. /\ i < rest[k].id
          /\ \A j \in 1..Len(answers) : answers[j].line < rest[k].id
      BY <2>1 DEF TurnInv, i
    <3>2. rest[k].id \in Nat
      BY PieceFacts, RestType
    <3>3. None < rest[k].id
      BY <1>2, <3>1, <3>2 DEF None
    <3>4. \A j \in 1..Len(answers') : answers'[j].line < rest[k].id
      BY <1>3, <3>1 DEF i
    <3>5. QED
      BY <3>3, <3>4
  <2>2. \A j \in 1..Len(answers') : answers'[j].line \in 1..Len(sent)
    BY <1>2, <1>3, <1>10 DEF i
  <2>3. QED
    BY <1>1, <1>4, <1>7, <2>1, <2>2 DEF TurnInv
<1>12. AnsweredWhole'
  <2> SUFFICES ASSUME NEW k \in 1..Len(answers')
               PROVE  /\ answers'[k].headers = Fields(sent[answers'[k].line]) \X {answers'[k].line}
                      /\ \A j \in 1..(k-1) : answers'[j].line < answers'[k].line
    BY <1>1 DEF AnsweredWhole
  <2>1. CASE k \in 1..Len(answers) /\ answers'[k] = answers[k]
    <3>1. \A j \in 1..(k-1) : j \in 1..Len(answers) /\ answers'[j] = answers[j]
      BY <1>2, <1>3, <2>1
    <3>2. QED
      BY <2>1, <3>1 DEF AnsweredWhole
  <2>2. CASE k = Len(answers) + 1 /\ answers'[k] = request
    <3>1. \A j \in 1..(k-1) : j \in 1..Len(answers) /\ answers'[j] = answers[j]
      BY <1>2, <1>3, <2>2
    <3>2. \A j \in 1..(k-1) : answers'[j].line < i
      BY <1>10, <3>1
    <3>3. QED
      BY <1>2, <2>2, <3>2 DEF i
  <2>3. QED
    BY <1>3, <2>1, <2>2
<1>13. QED
  BY <1>6, <1>8, <1>9, <1>11, <1>12

LEMMA NotCompleteStep ==
  ASSUME IInv, NotComplete
  PROVE  IInv'
BY DEF IInv, NotComplete, TypeOK, ParserInv, ParsedUpTo, TurnInv, AnsweredWhole, rest

LEMMA StutterStep ==
  ASSUME IInv, UNCHANGED vars
  PROVE  IInv'
BY DEF IInv, vars, TypeOK, ParserInv, ParsedUpTo, TurnInv, AnsweredWhole, rest

LEMMA NextStep ==
  ASSUME IInv, [Next]_vars
  PROVE  IInv'
<1>1. ASSUME NEW r \in Request, ClientSend(r) PROVE IInv'
  BY <1>1, ClientSendStep
<1>2. ASSUME NEW n \in 1..Len(net), OnMessage(n) PROVE IInv'
  BY <1>2, OnMessageStep
<1>3. CASE ServerStep
  BY <1>3, ParseRequestLineStep, ParseHeaderStep, ParseNothingStep, ParseBodyStep,
     OnRequestStep, NotCompleteStep DEF ServerStep, ParseStep
<1>4. CASE UNCHANGED vars
  BY <1>4, StutterStep
<1>5. QED
  BY <1>1, <1>2, <1>3, <1>4 DEF Next

LEMMA Invariance == Spec => []IInv
<1>1. Init => IInv
  BY InitInv
<1>2. IInv /\ [Next]_vars => IInv'
  BY NextStep
<1>3. QED
  BY <1>1, <1>2, PTL DEF Spec

(* The variables have their types, and between calls of onMessage the      *)
(* parser is before a request line or among headers (HttpContext.cc:52-104,*)
(* HttpServer.cc:46-50).                                                   *)
THEOREM TypeCorrect == Spec => []TypeOK
<1>1. IInv => TypeOK
  BY DEF IInv
<1>2. QED
  BY <1>1, Invariance, PTL

(* However many requests a client sends, and wherever TCP cuts their bytes,*)
(* an answered request was parsed with all of its own headers and no       *)
(* others, and none is answered twice or out of turn (HttpServer.cc:38-51, *)
(* HttpContext.cc:73-94).                                                  *)
THEOREM AnsweredInTurn == Spec => []AnsweredWhole
<1>1. IInv => AnsweredWhole
  BY DEF IInv
<1>2. QED
  BY <1>1, Invariance, PTL
=============================================================================
