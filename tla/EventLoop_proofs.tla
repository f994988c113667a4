-------------------------- MODULE EventLoop_proofs --------------------------
(***************************************************************************)
(* Proofs about EventLoop for any set of posting threads and any number of *)
(* tasks: types, the wakeup protocol and the refinement of TaskQueue.      *)
(***************************************************************************)
EXTENDS EventLoop, TLAPS

(* The inductive invariant.  PhaseOK is needed because queueInLoop in the  *)
(* loop's thread relies on doingPendingTasks_ to know whether a later      *)
(* doPendingTasks will see the task.                                       *)
IInv == VarTypes /\ PhaseOK /\ NoLostWakeup /\ QuitWakesLoop

LEMMA ActorFacts ==
  /\ "setup" \in Actor
  /\ "loop" \in Actor
  /\ \A p \in Poster : p \in Actor /\ p # "setup"
BY PosterAssumption DEF Actor

(* Push adds one well-formed task, of the pushing actor, at the end. *)
LEMMA PushProperties ==
  ASSUME NEW a \in Actor, VarTypes, Push(a)
  PROVE  /\ posted' \in [Actor -> 0..MaxPost]
         /\ pending' \in Seq(Task)
         /\ Len(pending') = Len(pending) + 1
         /\ \A i \in 1..Len(pending) : pending'[i] = pending[i]
         /\ pending'[Len(pending) + 1].by = a
         /\ \E t \in Task : pending' = Append(pending, t)
<1> DEFINE t == [by |-> a, n |-> posted[a] + 1]
<1>1. posted[a] \in 0..MaxPost /\ posted[a] < MaxPost
  BY MaxPostAssumption DEF VarTypes, Push
<1>2. t \in Task
  BY <1>1, MaxPostAssumption DEF Task
<1>3. pending' = Append(pending, t) /\ pending \in Seq(Task)
  BY DEF Push, VarTypes
<1>4. posted' \in [Actor -> 0..MaxPost]
  BY <1>1, MaxPostAssumption DEF Push, VarTypes
<1>5. t.by = a
  OBVIOUS
<1> HIDE DEF t
<1>6. QED
  BY <1>2, <1>3, <1>4, <1>5

LEMMA InitInv == Init => IInv
<1> SUFFICES ASSUME Init PROVE IInv
  OBVIOUS
<1> USE DEF Init
<1>1. VarTypes
  <2>1. 0 \in 0..MaxPost
    BY MaxPostAssumption
  <2>2. <<>> \in Seq(Task)
    OBVIOUS
  <2>3. QED
    BY <2>1, <2>2 DEF VarTypes, LoopPc, InUserCode
<1>2. PhaseOK
  BY DEF PhaseOK
<1>3. NoLostWakeup
  BY DEF NoLostWakeup
<1>4. QuitWakesLoop
  BY DEF QuitWakesLoop
<1>5. QED
  BY <1>1, <1>2, <1>3, <1>4 DEF IInv

LEMMA NextType == IInv /\ [Next]_vars => VarTypes' /\ PhaseOK'
<1> SUFFICES ASSUME IInv, [Next]_vars
             PROVE  VarTypes' /\ PhaseOK'
  OBVIOUS
<1> USE DEF IInv, VarTypes, PhaseOK, LoopPc, InUserCode
<1>1. CASE BeginLoop
  BY <1>1 DEF BeginLoop
<1>2. CASE CheckQuit
  BY <1>2 DEF CheckQuit
<1>3. CASE PollWakeup
  BY <1>3 DEF PollWakeup
<1>4. CASE PollOther
  BY <1>4 DEF PollOther
<1>5. CASE HandleRead
  BY <1>5 DEF HandleRead
<1>6. CASE HandleIo
  BY <1>6 DEF HandleIo
<1>7. CASE TakeTasks
  BY <1>7 DEF TakeTasks
<1>8. CASE RunTask
  <2>1. Head(tasks) \in Task /\ Tail(tasks) \in Seq(Task)
    BY <1>8 DEF RunTask
  <2>2. ran' \in Seq(Task)
    BY <1>8, <2>1 DEF RunTask
  <2>3. VarTypes'
    BY <1>8, <2>1, <2>2 DEF RunTask
  <2>4. PhaseOK'
    BY <1>8 DEF RunTask
  <2>5. QED
    BY <2>3, <2>4
<1>9. CASE DoneTasks
  BY <1>9 DEF DoneTasks
<1>10. CASE ReturnToLoop
  BY <1>10 DEF ReturnToLoop
<1>11. CASE QueueFromLoop
  <2>1. PICK a \in {"setup", "loop"} : Push(a)
    BY <1>11 DEF QueueFromLoop
  <2>2. posted' \in [Actor -> 0..MaxPost] /\ pending' \in Seq(Task)
    BY <2>1, ActorFacts, PushProperties
  <2>3. wakefd' \in Nat
    BY <1>11 DEF QueueFromLoop, WakeNeeded
  <2>4. VarTypes'
    BY <1>11, <2>2, <2>3 DEF QueueFromLoop
  <2>5. PhaseOK'
    BY <1>11 DEF QueueFromLoop
  <2>6. QED
    BY <2>4, <2>5
<1>12. CASE QuitFromLoop
  BY <1>12 DEF QuitFromLoop
<1>13. ASSUME NEW p \in Poster, QueueFrom(p)
       PROVE  VarTypes' /\ PhaseOK'
  <2>1. posted' \in [Actor -> 0..MaxPost] /\ pending' \in Seq(Task)
    BY <1>13, ActorFacts, PushProperties DEF QueueFrom
  <2>2. QED
    BY <1>13, <2>1 DEF QueueFrom
<1>14. ASSUME NEW p \in Poster, QuitFrom(p)
       PROVE  VarTypes' /\ PhaseOK'
  BY <1>14 DEF QuitFrom
<1>15. ASSUME NEW p \in Poster, Wakeup(p)
       PROVE  VarTypes' /\ PhaseOK'
  BY <1>15 DEF Wakeup
<1>16. CASE UNCHANGED vars
  BY <1>16 DEF vars
<1>17. QED
  BY <1>1, <1>2, <1>3, <1>4, <1>5, <1>6, <1>7, <1>8, <1>9, <1>10, <1>11,
     <1>12, <1>13, <1>14, <1>15, <1>16 DEF Next, LoopStep

(* The wakeup protocol is preserved.  Only the steps that queue a task,    *)
(* reset the counter, raise the flag or move the loop can disturb it.      *)
LEMMA NextWakeup == IInv /\ [Next]_vars => NoLostWakeup' /\ QuitWakesLoop'
<1> SUFFICES ASSUME IInv, [Next]_vars
             PROVE  NoLostWakeup' /\ QuitWakesLoop'
  OBVIOUS
<1> USE DEF IInv, NoLostWakeup, QuitWakesLoop, Announced, Signalled
<1>1. CASE BeginLoop
  BY <1>1 DEF BeginLoop
<1>2. CASE CheckQuit
  BY <1>2 DEF CheckQuit
<1>3. CASE PollWakeup
  BY <1>3 DEF PollWakeup
<1>4. CASE PollOther
  BY <1>4 DEF PollOther
<1>5. CASE HandleRead
  BY <1>5 DEF HandleRead
<1>6. CASE HandleIo
  BY <1>6 DEF HandleIo
<1>7. CASE TakeTasks
  BY <1>7 DEF TakeTasks
<1>8. CASE RunTask
  BY <1>8 DEF RunTask
<1>9. CASE DoneTasks
  BY <1>9 DEF DoneTasks
<1>10. CASE ReturnToLoop
  BY <1>10 DEF ReturnToLoop
<1>11. CASE QueueFromLoop
  <2>1. CASE loopPc = "setup"
    <3>1. Push("setup")
      BY <1>11, <2>1 DEF QueueFromLoop
    <3>2. /\ pending' \in Seq(Task)
          /\ Len(pending') = Len(pending) + 1
          /\ \A i \in 1..Len(pending) : pending'[i] = pending[i]
          /\ pending'[Len(pending) + 1].by = "setup"
      BY <3>1, ActorFacts, PushProperties
    <3>3. UNCHANGED <<loopPc, wakefd, posterPc>>
      <4>1. ~WakeNeeded(TRUE)
        BY <2>1 DEF WakeNeeded, PhaseOK
      <4>2. QED
        BY <1>11, <4>1 DEF QueueFromLoop
    <3>4. ASSUME NEW i \in 1..Len(pending'), pending'[i].by # "setup"
          PROVE  Signalled'
      <4>1. i \in 1..Len(pending)
        BY <3>2, <3>4 DEF VarTypes
      <4>2. pending[i].by # "setup"
        BY <3>2, <3>4, <4>1
      <4>3. Signalled
        BY <2>1, <4>1, <4>2
      <4>4. QED
        BY <3>3, <4>3
    <3>5. QED
      BY <2>1, <3>3, <3>4
  <2>2. CASE loopPc = "callback"
    BY <1>11, <2>2 DEF QueueFromLoop
  <2>3. CASE loopPc = "task"
    <3>1. wakefd' > 0 /\ UNCHANGED loopPc
      BY <1>11, <2>3 DEF QueueFromLoop, WakeNeeded, PhaseOK, VarTypes
    <3>2. QED
      BY <2>3, <3>1
  <2>4. QED
    BY <1>11, <2>1, <2>2, <2>3 DEF QueueFromLoop, InUserCode
<1>12. CASE QuitFromLoop
  BY <1>12 DEF QuitFromLoop, InUserCode
<1>13. ASSUME NEW p \in Poster, QueueFrom(p)
       PROVE  NoLostWakeup' /\ QuitWakesLoop'
  <2>1. posterPc'[p] = "wake"
    BY <1>13 DEF QueueFrom, WakeNeeded, VarTypes
  <2>2. QED
    BY <2>1
<1>14. ASSUME NEW p \in Poster, QuitFrom(p)
       PROVE  NoLostWakeup' /\ QuitWakesLoop'
  <2>1. posterPc'[p] = "quit"
    BY <1>14 DEF QuitFrom, VarTypes
  <2>2. QED
    BY <2>1
<1>15. ASSUME NEW p \in Poster, Wakeup(p)
       PROVE  NoLostWakeup' /\ QuitWakesLoop'
  BY <1>15 DEF Wakeup, VarTypes
<1>16. CASE UNCHANGED vars
  BY <1>16 DEF vars
<1>17. QED
  BY <1>1, <1>2, <1>3, <1>4, <1>5, <1>6, <1>7, <1>8, <1>9, <1>10, <1>11,
     <1>12, <1>13, <1>14, <1>15, <1>16 DEF Next, LoopStep

LEMMA Invariance == Spec => []IInv
<1>1. IInv /\ [Next]_vars => IInv'
  BY NextType, NextWakeup DEF IInv
<1>2. QED
  BY InitInv, <1>1, PTL DEF Spec

-----------------------------------------------------------------------------
(* The variables of the loop keep their types, and doingPendingTasks_, the *)
(* local task vector and the active list agree with where the loop is.     *)
THEOREM TypeCorrect == Spec => []TypeOK
<1>1. IInv => TypeOK
  BY DEF IInv, TypeOK
<1>2. QED
  BY Invariance, <1>1, PTL

(* queueInLoop never leaves a task behind a sleeping loop.                 *)
THEOREM WakeupNotLost == Spec => []NoLostWakeup
<1>1. IInv => NoLostWakeup
  BY DEF IInv
<1>2. QED
  BY Invariance, <1>1, PTL

(* quit() never leaves the loop asleep with the flag up.                   *)
THEOREM QuitWakes == Spec => []QuitWakesLoop
<1>1. IInv => QuitWakesLoop
  BY DEF IInv
<1>2. QED
  BY Invariance, <1>1, PTL

-----------------------------------------------------------------------------
(* A step that queues a task appends it to the abstract queue.             *)
LEMMA PushPosts ==
  ASSUME NEW a \in Actor, VarTypes, Push(a), UNCHANGED <<tasks, ran>>
  PROVE  \E t \in Task : TQ!Post(t)
<1>1. PICK t \in Task : pending' = Append(pending, t)
  BY PushProperties
<1>2. tasks \o Append(pending, t) = Append(tasks \o pending, t)
  BY DEF VarTypes
<1>3. QED
  BY <1>1, <1>2 DEF TQ!Post

(* The loop runs the tasks it is given once each and in order: every step  *)
(* of the loop or of a posting thread is a step of TaskQueue or a stutter. *)
THEOREM RunsTasksInOrder == Spec => RunsInOrder
<1>1. Init => TQ!Init
  BY DEF Init, TQ!Init
<1>2. IInv /\ [Next]_vars => [TQ!Next]_(TQ!vars)
  <2> SUFFICES ASSUME IInv, [Next]_vars
               PROVE  [TQ!Next]_(TQ!vars)
    OBVIOUS
  <2> USE DEF IInv, TQ!vars
  <2>1. CASE TakeTasks
    <3>1. tasks = <<>>
      BY <2>1 DEF TakeTasks, PhaseOK
    <3>2. tasks' \o pending' = tasks \o pending
      BY <2>1, <3>1 DEF TakeTasks, VarTypes
    <3>3. QED
      BY <2>1, <3>2 DEF TakeTasks
  <2>2. CASE RunTask
    <3>1. /\ tasks \o pending # <<>>
          /\ Head(tasks \o pending) = Head(tasks)
          /\ Tail(tasks \o pending) = Tail(tasks) \o pending
      BY <2>2 DEF RunTask, VarTypes
    <3>2. TQ!Run
      BY <2>2, <3>1 DEF RunTask, TQ!Run
    <3>3. QED
      BY <3>2 DEF TQ!Next
  <2>3. CASE QueueFromLoop
    <3>1. PICK a \in {"setup", "loop"} : Push(a)
      BY <2>3 DEF QueueFromLoop
    <3>2. \E t \in Task : TQ!Post(t)
      BY <2>3, <3>1, ActorFacts, PushPosts DEF QueueFromLoop
    <3>3. QED
      BY <3>2 DEF TQ!Next
  <2>4. ASSUME NEW p \in Poster, QueueFrom(p)
        PROVE  [TQ!Next]_(TQ!vars)
    <3>1. \E t \in Task : TQ!Post(t)
      BY <2>4, ActorFacts, PushPosts DEF QueueFrom
    <3>2. QED
      BY <3>1 DEF TQ!Next
  <2>5. CASE \/ BeginLoop \/ CheckQuit \/ PollWakeup \/ PollOther
             \/ HandleRead \/ HandleIo \/ DoneTasks \/ ReturnToLoop
             \/ QuitFromLoop \/ UNCHANGED vars
    BY <2>5 DEF BeginLoop, CheckQuit, PollWakeup, PollOther, HandleRead,
                HandleIo, DoneTasks, ReturnToLoop, QuitFromLoop, vars
  <2>6. ASSUME NEW p \in Poster, QuitFrom(p) \/ Wakeup(p)
        PROVE  [TQ!Next]_(TQ!vars)
    BY <2>6 DEF QuitFrom, Wakeup
  <2>7. QED
    BY <2>1, <2>2, <2>3, <2>4, <2>5, <2>6 DEF Next, LoopStep
<1>3. QED
  BY Invariance, <1>1, <1>2, PTL DEF Spec, RunsInOrder, TQ!Spec
=============================================================================
