----------------------------- MODULE ByteQueue -----------------------------
(***************************************************************************)
(* What Buffer promises to TcpConnection and to protocol code: a queue of  *)
(* bytes that can be extended at both ends and is consumed at the front.   *)
(***************************************************************************)
EXTENDS Naturals, Sequences

CONSTANT Chunk    \* the byte sequences that can be added

VARIABLES queue,   \* the readable bytes
          io       \* the bytes that the last call was given or returned

vars == <<queue, io>>

Init == queue = <<>> /\ io = <<>>

Extend(s) == queue' = queue \o s /\ io' = s

Precede(s) == queue' = s \o queue /\ io' = s

Discard(n) ==
  /\ queue' = SubSeq(queue, n + 1, Len(queue))
  /\ UNCHANGED io

Take(n) ==
  /\ io' = SubSeq(queue, 1, n)
  /\ queue' = SubSeq(queue, n + 1, Len(queue))

Next ==
  \/ \E s \in Chunk : Extend(s) \/ Precede(s)
  \/ \E n \in 0..Len(queue) : Discard(n) \/ Take(n)

Spec == Init /\ [][Next]_vars
=============================================================================
