----------------------------- MODULE EventLoop -----------------------------
(***************************************************************************)
(* One EventLoop (EventLoop.cc) with its poller and its wakeup eventfd:    *)
(* the thread that runs loop(), and the other threads that hand it work    *)
(* with queueInLoop/runInLoop or ask it to stop with quit().               *)
(*                                                                         *)
(* Code that the loop calls back (channel callbacks, queued tasks) is user *)
(* code; while it runs (loopPc \in InUserCode) it may queue further tasks  *)
(* or call quit().  runInLoop called by the loop thread calls the task at  *)
(* once, so it is part of the user code; called by another thread it is    *)
(* queueInLoop.                                                            *)
(***************************************************************************)
EXTENDS Naturals, Sequences

CONSTANTS Poster,   \* the threads other than the loop's own
          MaxPost   \* bound: tasks queued by each actor

(* "setup" is the loop's thread before it calls loop(), "loop" after. *)
Actor == Poster \cup {"setup", "loop"}
Task == [by : Actor, n : 1..MaxPost]

ASSUME PosterAssumption == Poster \cap {"setup", "loop"} = {}
ASSUME MaxPostAssumption == MaxPost \in Nat

VARIABLES
  loopPc,    \* where the loop's thread is
  quit,      \* quit_
  wakefd,    \* counter of the eventfd wakeupFd_
  active,    \* activeChannels_ still to be handled
  pending,   \* pendingTasks_, guarded by mutex_
  tasks,     \* doPendingTasks' local vector: what is left of it
  doing,     \* doingPendingTasks_
  posterPc,  \* whether a poster still has to write wakeupFd_, and for what
  posted,    \* history: number of tasks queued by each actor
  ran        \* history: the tasks started, in order

vars == <<loopPc, quit, wakefd, active, pending, tasks, doing, posterPc,
          posted, ran>>

InUserCode == {"setup", "callback", "task"}
LoopPc == InUserCode \cup {"check", "poll", "handle", "run", "exited"}

-----------------------------------------------------------------------------
(* EventLoop::EventLoop: nothing queued, the wakeup channel registered. *)
Init ==
  /\ loopPc = "setup"
  /\ quit = FALSE
  /\ wakefd = 0
  /\ active = {}
  /\ pending = <<>>
  /\ tasks = <<>>
  /\ doing = FALSE
  /\ posterPc = [p \in Poster |-> "idle"]
  /\ posted = [a \in Actor |-> 0]
  /\ ran = <<>>

(* The push_back under mutex_ in queueInLoop. *)
Push(a) ==
  /\ posted[a] < MaxPost
  /\ posted' = [posted EXCEPT ![a] = @ + 1]
  /\ pending' = Append(pending, [by |-> a, n |-> posted[a] + 1])

(* Mutant: tasks queued by a running task are not announced. *)
WakeNeededForeignOnly(inLoopThread) == ~inLoopThread

(* Whether queueInLoop has to call wakeup(). *)
WakeNeeded(inLoopThread) == ~inLoopThread \/ doing

-----------------------------------------------------------------------------
(* The loop's thread. *)

BeginLoop ==
  /\ loopPc = "setup"
  /\ quit' = FALSE
  /\ loopPc' = "check"
  /\ UNCHANGED <<wakefd, active, pending, tasks, doing, posterPc, posted, ran>>

CheckQuit ==
  /\ loopPc = "check"
  /\ loopPc' = IF quit THEN "exited" ELSE "poll"
  /\ UNCHANGED <<quit, wakefd, active, pending, tasks, doing, posterPc,
                 posted, ran>>

(* epoll_wait returns because the eventfd is readable, perhaps with events *)
(* of other channels ("io") as well.                                       *)
PollWakeup ==
  /\ loopPc = "poll"
  /\ wakefd > 0
  /\ active' \in {{"wakeup"}, {"wakeup", "io"}}
  /\ loopPc' = "handle"
  /\ UNCHANGED <<quit, wakefd, pending, tasks, doing, posterPc, posted, ran>>

(* epoll_wait returns with events of other channels only, or with none at  *)
(* all: after its timeout of 1000 ms or on EINTR.                          *)
PollOther ==
  /\ loopPc = "poll"
  /\ wakefd = 0
  /\ active' \in {{}, {"io"}}
  /\ loopPc' = "handle"
  /\ UNCHANGED <<quit, wakefd, pending, tasks, doing, posterPc, posted, ran>>

(* EventLoop::handleRead: reading an eventfd resets it. *)
HandleRead ==
  /\ loopPc = "handle"
  /\ "wakeup" \in active
  /\ active' = active \ {"wakeup"}
  /\ wakefd' = 0
  /\ UNCHANGED <<loopPc, quit, pending, tasks, doing, posterPc, posted, ran>>

HandleIo ==
  /\ loopPc = "handle"
  /\ "io" \in active
  /\ active' = active \ {"io"}
  /\ loopPc' = "callback"
  /\ UNCHANGED <<quit, wakefd, pending, tasks, doing, posterPc, posted, ran>>

(* Mutant: pendingTasks_ is copied, not swapped. *)
TakeTasksByCopy ==
  /\ loopPc = "handle"
  /\ active = {}
  /\ tasks' = pending
  /\ doing' = TRUE
  /\ loopPc' = "run"
  /\ UNCHANGED <<quit, wakefd, active, pending, posterPc, posted, ran>>

(* The swap under mutex_ at the start of doPendingTasks. *)
TakeTasks ==
  /\ loopPc = "handle"
  /\ active = {}
  /\ tasks' = pending
  /\ pending' = <<>>
  /\ doing' = TRUE
  /\ loopPc' = "run"
  /\ UNCHANGED <<quit, wakefd, active, posterPc, posted, ran>>

RunTask ==
  /\ loopPc = "run"
  /\ tasks # <<>>
  /\ tasks' = Tail(tasks)
  /\ ran' = Append(ran, Head(tasks))
  /\ loopPc' = "task"
  /\ UNCHANGED <<quit, wakefd, active, pending, doing, posterPc, posted>>

(* Mutant: the flag is not reset. *)
DoneTasksKeepFlag ==
  /\ loopPc = "run"
  /\ tasks = <<>>
  /\ loopPc' = "check"
  /\ UNCHANGED <<quit, wakefd, active, pending, tasks, doing, posterPc,
                 posted, ran>>

DoneTasks ==
  /\ loopPc = "run"
  /\ tasks = <<>>
  /\ doing' = FALSE
  /\ loopPc' = "check"
  /\ UNCHANGED <<quit, wakefd, active, pending, tasks, posterPc, posted, ran>>

(* User code returns to the loop. *)
ReturnToLoop ==
  /\ \/ loopPc = "callback" /\ loopPc' = "handle"
     \/ loopPc = "task" /\ loopPc' = "run"
  /\ UNCHANGED <<quit, wakefd, active, pending, tasks, doing, posterPc,
                 posted, ran>>

(* queueInLoop called by user code in the loop's thread. *)
QueueFromLoop ==
  /\ loopPc \in InUserCode
  /\ Push(IF loopPc = "setup" THEN "setup" ELSE "loop")
  /\ wakefd' = IF WakeNeeded(TRUE) THEN wakefd + 1 ELSE wakefd
  /\ UNCHANGED <<loopPc, quit, active, tasks, doing, posterPc, ran>>

(* quit() called by user code in the loop's thread. *)
QuitFromLoop ==
  /\ loopPc \in InUserCode
  /\ quit' = TRUE
  /\ UNCHANGED <<loopPc, wakefd, active, pending, tasks, doing, posterPc,
                 posted, ran>>

-----------------------------------------------------------------------------
(* The other threads. *)

(* queueInLoop up to the unlock ... *)
QueueFrom(p) ==
  /\ posterPc[p] = "idle"
  /\ Push(p)
  /\ posterPc' = [posterPc EXCEPT ![p] = IF WakeNeeded(FALSE) THEN "wake" ELSE "idle"]
  /\ UNCHANGED <<loopPc, quit, wakefd, active, tasks, doing, ran>>

(* Mutant: quit() does not wake the loop. *)
QuitFromSilent(p) ==
  /\ posterPc[p] = "idle"
  /\ ~quit
  /\ quit' = TRUE
  /\ UNCHANGED <<loopPc, wakefd, active, pending, tasks, doing, posterPc,
                 posted, ran>>

(* ... and quit() up to the wakeup.  A repeated quit() changes nothing but *)
(* the counter, so only a call that finds the flag down is a step.         *)
QuitFrom(p) ==
  /\ posterPc[p] = "idle"
  /\ ~quit
  /\ quit' = TRUE
  /\ posterPc' = [posterPc EXCEPT ![p] = "quit"]
  /\ UNCHANGED <<loopPc, wakefd, active, pending, tasks, doing, posted, ran>>

(* wakeup() in the calling thread. *)
Wakeup(p) ==
  /\ posterPc[p] # "idle"
  /\ posterPc' = [posterPc EXCEPT ![p] = "idle"]
  /\ wakefd' = wakefd + 1
  /\ UNCHANGED <<loopPc, quit, active, pending, tasks, doing, posted, ran>>

-----------------------------------------------------------------------------
(* What the loop's thread does on its own once it is not blocked. *)
LoopStep ==
  \/ BeginLoop \/ CheckQuit \/ PollWakeup \/ HandleRead \/ HandleIo
  \/ TakeTasks \/ RunTask \/ DoneTasks \/ ReturnToLoop

Next ==
  \/ LoopStep
  \/ PollOther
  \/ QueueFromLoop
  \/ QuitFromLoop
  \/ \E p \in Poster : QueueFrom(p) \/ QuitFrom(p) \/ Wakeup(p)

Spec == Init /\ [][Next]_vars

(* The loop's thread and a thread inside queueInLoop or quit() are         *)
(* scheduled, and user code returns.  No fairness for PollOther: work      *)
(* handed to the loop must not depend on unrelated events or on the        *)
(* timeout to be noticed.                                                  *)
FairSpec ==
  /\ Spec
  /\ WF_vars(LoopStep)
  /\ \A p \in Poster : WF_vars(Wakeup(p))

-----------------------------------------------------------------------------
VarTypes ==
  /\ loopPc \in LoopPc
  /\ quit \in BOOLEAN
  /\ wakefd \in Nat
  /\ active \subseteq {"wakeup", "io"}
  /\ pending \in Seq(Task)
  /\ tasks \in Seq(Task)
  /\ doing \in BOOLEAN
  /\ posterPc \in [Poster -> {"idle", "wake", "quit"}]
  /\ posted \in [Actor -> 0..MaxPost]
  /\ ran \in Seq(Task)

PhaseOK ==
  /\ doing <=> loopPc \in {"run", "task"}
  /\ tasks # <<>> => loopPc \in {"run", "task"}
  /\ active # {} => loopPc \in {"handle", "callback"}

(* The type invariant: every variable has its type, and the loop's locals  *)
(* and doingPendingTasks_ agree with where the loop is.  A batch is left   *)
(* over only inside doPendingTasks, and the flag is up exactly there       *)
(* (EventLoop.cc:131-144).                                                 *)
TypeOK == VarTypes /\ PhaseOK

(* The eventfd is readable, or a thread is about to make it so. *)
Signalled == wakefd > 0 \/ \E p \in Poster : posterPc[p] # "idle"

(* A task that queueInLoop must announce: any but those queued by the      *)
(* loop's thread before loop(), which the first poll may delay by its      *)
(* timeout.                                                                *)
Announced(t) == t.by # "setup"

(* Safety of the wakeup protocol: the loop is never blocked in epoll_wait, *)
(* or anywhere else but between epoll_wait and doPendingTasks, with an     *)
(* announced task in pendingTasks_ and no wakeup present or under way      *)
(* (queueInLoop, EventLoop.cc:92-109).                                     *)
NoLostWakeup ==
  loopPc \notin {"handle", "callback"}
    => \A i \in 1..Len(pending) : Announced(pending[i]) => Signalled

(* The loop is never blocked in epoll_wait with quit_ set and no wakeup    *)
(* present or under way (quit, EventLoop.cc:64-69).                        *)
QuitWakesLoop == loopPc = "poll" /\ quit => Signalled

(* Tasks run once each and in the order in which they were queued, across  *)
(* threads and across batches: the loop implements TaskQueue.              *)
TQ == INSTANCE TaskQueue WITH queue <- tasks \o pending
RunsInOrder == TQ!Spec

(* Every announced task is run unless the loop ends first.                 *)
AnnouncedTasksRun ==
  \A t \in Task : Announced(t) =>
    ((\E i \in 1..Len(pending) : pending[i] = t)
       ~> \/ \E i \in 1..Len(ran) : ran[i] = t
          \/ loopPc = "exited")

(* Once loop() is running, quit() from any thread ends it. *)
QuitEndsLoop == (quit /\ loopPc # "setup") ~> (loopPc = "exited")

(* What "thread-safe" (EventLoop.h:26) says of quit(): another thread that *)
(* has raised the flag sees the loop end, wherever the loop's thread was.  *)
QuitIsHonoured ==
  \A p \in Poster : (posterPc[p] = "quit") ~> (loopPc = "exited")
=============================================================================
