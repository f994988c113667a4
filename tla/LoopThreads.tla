---------------------------- MODULE LoopThreads ----------------------------
(***************************************************************************)
(* Threads that run an EventLoop of their own, how they are started and    *)
(* how they are ended: EventLoopThread with its CountDownLatch, and the    *)
(* threads 1 .. threadNum_-1 of a TcpServer.                               *)
(*                                                                         *)
(* The main thread owns one EventLoopThread and one TcpServer whose base   *)
(* loop is its own: startLoop(), start(), perhaps baseLoop->loop(),        *)
(* ~TcpServer, ~EventLoopThread.  An EventLoop is what module EventLoop    *)
(* shows it to be: it leaves loop() after a quit_ that it sees, and        *)
(* loop() begins by clearing quit_.  Every epoll_wait ends, at the latest  *)
(* after a second, so the test of quit_ comes again and again.             *)
(***************************************************************************)
EXTENDS Naturals

CONSTANT ThreadNum       \* threadNum_

ASSUME ThreadNumAssumption == ThreadNum \in Nat \ {0}

Helper == 0                            \* the thread of the EventLoopThread
Worker == 1..(ThreadNum - 1)           \* those of the TcpServer
Thread == Worker \cup {Helper}

VARIABLES
  mainPc,     \* where the main thread is
  cur,        \* the index of its for loop
  threadPc,   \* where each other thread is
  quit,       \* quit_ of each thread's loop
  published,  \* those t with loop_ # nullptr, or eventloops_[t] # nullptr
  threads,    \* threads_: what ~TcpServer joins
  count,      \* count_ of the latch
  selfQuit    \* history: user code has ended the helper's loop

threadVars == <<mainPc, cur, threadPc, quit, published, threads, count, selfQuit>>

(* The EventLoop is a local variable of the thread's function.             *)
LoopExists(t) == threadPc[t] \in {"built", "count", "init", "enter", "looping", "clear"}

HasEnded(t) == threadPc[t] = "ended"
Goto(t, pc) == threadPc' = [threadPc EXCEPT ![t] = pc]

ThreadInit ==
  /\ mainPc = "create" /\ cur = 0
  /\ threadPc = [t \in Thread |-> "none"]
  /\ quit = [t \in Thread |-> FALSE]
  /\ published = {} /\ threads = {} /\ count = 1
  /\ selfQuit = FALSE

-----------------------------------------------------------------------------
(* The main thread. *)

(* EventLoopThread::startLoop and CountDownLatch::wait.  A test under the  *)
(* mutex and the start of the wait are one step.                           *)
CreateHelper ==
  /\ mainPc = "create" /\ mainPc' = "latch"
  /\ Goto(Helper, "begin")
  /\ UNCHANGED <<cur, quit, published, threads, count, selfQuit>>

LatchWait ==
  /\ mainPc = "latch"
  /\ mainPc' = IF count > 0 THEN "latchAsleep" ELSE "server"
  /\ UNCHANGED <<cur, threadPc, quit, published, threads, count, selfQuit>>

(* TcpServer::start, in the base loop's thread: startInLoop runs at once.  *)
StartServer ==
  /\ mainPc = "server" /\ mainPc' = "spawn"
  /\ cur' = 1
  /\ UNCHANGED <<threadPc, quit, published, threads, count, selfQuit>>

Spawn ==
  /\ mainPc = "spawn" /\ cur < ThreadNum
  /\ mainPc' = "await"
  /\ Goto(cur, "begin")
  /\ UNCHANGED <<cur, quit, published, threads, count, selfQuit>>

(* Mutant: does not wait for the thread's loop. *)
AwaitNothing ==
  /\ mainPc = "await"
  /\ mainPc' = "spawn" /\ threads' = threads \cup {cur} /\ cur' = cur + 1
  /\ UNCHANGED <<threadPc, quit, published, count, selfQuit>>

(* Mutant: the new thread is not kept. *)
AwaitForgets ==
  /\ mainPc = "await"
  /\ IF cur \in published
     THEN mainPc' = "spawn" /\ cur' = cur + 1
     ELSE mainPc' = "awaitAsleep" /\ UNCHANGED cur
  /\ UNCHANGED <<threadPc, quit, published, threads, count, selfQuit>>

(* Waits for eventloops_[i], then keeps the thread. *)
Await ==
  /\ mainPc = "await"
  /\ IF cur \in published
     THEN mainPc' = "spawn" /\ threads' = threads \cup {cur} /\ cur' = cur + 1
     ELSE mainPc' = "awaitAsleep" /\ UNCHANGED <<cur, threads>>
  /\ UNCHANGED <<threadPc, quit, published, count, selfQuit>>

(* A wait on a condition variable may end for no reason. *)
SpuriousWakeup ==
  /\ \/ mainPc = "latchAsleep" /\ mainPc' = "latch"
     \/ mainPc = "awaitAsleep" /\ mainPc' = "await"
  /\ UNCHANGED <<cur, threadPc, quit, published, threads, count, selfQuit>>

Started ==
  /\ mainPc = "spawn" /\ cur = ThreadNum
  /\ mainPc' = "loop"
  /\ UNCHANGED <<cur, threadPc, quit, published, threads, count, selfQuit>>

(* The base loop has ended, or was never entered, and ~TcpServer begins.   *)
Destroy ==
  /\ mainPc = "loop" /\ mainPc' = "test"
  /\ cur' = 0
  /\ UNCHANGED <<threadPc, quit, published, threads, count, selfQuit>>

(* Mutant: the last loop is forgotten. *)
TestLoopButLast ==
  /\ mainPc = "test" /\ cur < ThreadNum
  /\ IF cur \in published \cap Worker /\ cur + 1 < ThreadNum
     THEN mainPc' = "set" /\ UNCHANGED cur
     ELSE cur' = cur + 1 /\ UNCHANGED mainPc
  /\ UNCHANGED <<threadPc, quit, published, threads, count, selfQuit>>

(* for(auto& loop : eventloops_) if(loop != nullptr) loop->quit();         *)
(* eventloops_[0] stays nullptr.                                           *)
TestLoop ==
  /\ mainPc = "test" /\ cur < ThreadNum
  /\ IF cur \in published \cap Worker
     THEN mainPc' = "set" /\ UNCHANGED cur
     ELSE cur' = cur + 1 /\ UNCHANGED mainPc
  /\ UNCHANGED <<threadPc, quit, published, threads, count, selfQuit>>

(* quit(): the flag, then the wakeup; the latter changes nothing here,     *)
(* but a thread can come between.                                          *)
SetQuit ==
  /\ mainPc = "set" /\ mainPc' = "wake"
  /\ quit' = [quit EXCEPT ![cur] = TRUE]
  /\ UNCHANGED <<cur, threadPc, published, threads, count, selfQuit>>

WakeLoop ==
  /\ mainPc = "wake" /\ mainPc' = "test"
  /\ cur' = cur + 1
  /\ UNCHANGED <<threadPc, quit, published, threads, count, selfQuit>>

AllQuit ==
  /\ mainPc = "test" /\ cur = ThreadNum
  /\ mainPc' = "join"
  /\ UNCHANGED <<cur, threadPc, quit, published, threads, count, selfQuit>>

(* for(auto& thread : threads_) thread->join(): past it when all of them   *)
(* have ended, in whatever order.                                          *)
JoinWorkers ==
  /\ mainPc = "join" /\ \A t \in threads : HasEnded(t)
  /\ mainPc' = "helperTest"
  /\ UNCHANGED <<cur, threadPc, quit, published, threads, count, selfQuit>>

(* ~EventLoopThread; started_ is set. *)
HelperTest ==
  /\ mainPc = "helperTest"
  /\ mainPc' = IF Helper \in published THEN "helperSet" ELSE "helperJoin"
  /\ UNCHANGED <<cur, threadPc, quit, published, threads, count, selfQuit>>

HelperSetQuit ==
  /\ mainPc = "helperSet" /\ mainPc' = "helperJoin"
  /\ quit' = [quit EXCEPT ![Helper] = TRUE]
  /\ UNCHANGED <<cur, threadPc, published, threads, count, selfQuit>>

HelperJoin ==
  /\ mainPc = "helperJoin" /\ HasEnded(Helper)
  /\ mainPc' = "end"
  /\ UNCHANGED <<cur, threadPc, quit, published, threads, count, selfQuit>>

-----------------------------------------------------------------------------
(* The other threads: EventLoopThread::threadFunc, TcpServer::runInThread. *)

BuildLoop(t) ==
  /\ threadPc[t] = "begin" /\ Goto(t, "built")
  /\ quit' = [quit EXCEPT ![t] = FALSE]
  /\ UNCHANGED <<mainPc, cur, published, threads, count, selfQuit>>

(* Mutant: nobody is notified. *)
PublishSilently(t) ==
  /\ t \in Worker /\ threadPc[t] = "built"
  /\ published' = published \cup {t}
  /\ Goto(t, "init")
  /\ UNCHANGED <<mainPc, cur, quit, threads, count, selfQuit>>

(* Under mutex_, with notify_one; only startInLoop ever waits. *)
Publish(t) ==
  /\ t \in Worker /\ threadPc[t] = "built"
  /\ published' = published \cup {t}
  /\ mainPc' = IF mainPc = "awaitAsleep" THEN "await" ELSE mainPc
  /\ Goto(t, "init")
  /\ UNCHANGED <<cur, quit, threads, count, selfQuit>>

PublishHelper ==
  /\ threadPc[Helper] = "built"
  /\ published' = published \cup {Helper}
  /\ Goto(Helper, "count")
  /\ UNCHANGED <<mainPc, cur, quit, threads, count, selfQuit>>

(* CountDownLatch::count *)
CountDown ==
  /\ threadPc[Helper] = "count"
  /\ count' = count - 1
  /\ mainPc' = IF mainPc = "latchAsleep" /\ count' <= 0 THEN "latch" ELSE mainPc
  /\ Goto(Helper, "enter")
  /\ UNCHANGED <<cur, quit, published, threads, selfQuit>>

(* threadInitCallback_ and TcpServerSingle::start *)
StartListening(t) ==
  /\ threadPc[t] = "init" /\ Goto(t, "enter")
  /\ UNCHANGED <<mainPc, cur, quit, published, threads, count, selfQuit>>

(* loop() begins with quit_ = false. *)
EnterLoop(t) ==
  /\ threadPc[t] = "enter" /\ Goto(t, "looping")
  /\ quit' = [quit EXCEPT ![t] = FALSE]
  /\ UNCHANGED <<mainPc, cur, published, threads, count, selfQuit>>

LeaveLoop(t) ==
  /\ threadPc[t] = "looping" /\ quit[t]
  /\ Goto(t, "clear")
  /\ UNCHANGED <<mainPc, cur, quit, published, threads, count, selfQuit>>

(* loop_ = nullptr, eventloops_[index] = nullptr *)
ClearPointer(t) ==
  /\ threadPc[t] = "clear" /\ Goto(t, "exit")
  /\ published' = published \ {t}
  /\ UNCHANGED <<mainPc, cur, quit, threads, count, selfQuit>>

(* The locals of the thread's function, the loop among them, are gone.     *)
EndThread(t) ==
  /\ threadPc[t] = "exit" /\ Goto(t, "ended")
  /\ UNCHANGED <<mainPc, cur, quit, published, threads, count, selfQuit>>

(* User code in the helper's loop calls quit() on the pointer that         *)
(* startLoop returned.                                                     *)
UserQuits ==
  /\ threadPc[Helper] = "looping" /\ mainPc \notin {"create", "latch", "latchAsleep"}
  /\ quit' = [quit EXCEPT ![Helper] = TRUE]
  /\ selfQuit' = TRUE
  /\ UNCHANGED <<mainPc, cur, threadPc, published, threads, count>>

-----------------------------------------------------------------------------
MainStep ==
  \/ CreateHelper \/ LatchWait \/ StartServer \/ Spawn \/ Await \/ Started
  \/ TestLoop \/ SetQuit \/ WakeLoop \/ AllQuit \/ JoinWorkers
  \/ HelperTest \/ HelperSetQuit \/ HelperJoin

ThreadType ==
  /\ mainPc \in {"create", "latch", "latchAsleep", "server", "spawn", "await",
                 "awaitAsleep", "loop", "test", "set", "wake", "join",
                 "helperTest", "helperSet", "helperJoin", "end"}
  /\ cur \in 0..ThreadNum
  /\ threadPc \in [Thread -> {"none", "begin", "built", "count", "init", "enter",
                              "looping", "clear", "exit", "ended"}]
  /\ quit \in [Thread -> BOOLEAN]
  /\ published \subseteq Thread /\ threads \subseteq Worker
  /\ count \in 0..1 /\ selfQuit \in BOOLEAN
=============================================================================
