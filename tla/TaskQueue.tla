----------------------------- MODULE TaskQueue -----------------------------
(***************************************************************************)
(* What EventLoop::queueInLoop promises to its callers: the tasks handed   *)
(* to a loop are run one after the other, each once, in the order in which *)
(* they were queued.  Nothing is said about when, nor about tasks that are *)
(* still queued when the loop ends.                                        *)
(***************************************************************************)
EXTENDS Sequences

CONSTANT Task      \* what can be queued

VARIABLES queue,   \* tasks queued and not yet started, oldest first
          ran      \* tasks started, in the order in which they were

vars == <<queue, ran>>

Init == queue = <<>> /\ ran = <<>>

Post(t) == /\ queue' = Append(queue, t)
           /\ UNCHANGED ran

Run == /\ queue # <<>>
       /\ ran' = Append(ran, Head(queue))
       /\ queue' = Tail(queue)

Next == Run \/ \E t \in Task : Post(t)

Spec == Init /\ [][Next]_vars
=============================================================================
