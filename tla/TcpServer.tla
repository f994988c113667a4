----------------------------- MODULE TcpServer -----------------------------
(***************************************************************************)
(* A TcpServer, whole: its threads (LoopThreads) and, in the first of      *)
(* them, a TcpServerSingle with its connections.  Every other thread runs  *)
(* one like it.                                                            *)
(***************************************************************************)
EXTENDS LoopThreads, TcpServerSingle

Home == 1          \* the thread whose TcpServerSingle is modelled

ASSUME HomeAssumption == Home \in Worker

vars == <<threadVars, serverVars>>

Init == ThreadInit /\ ServerInit

-----------------------------------------------------------------------------
IfHome(t, A) == IF t = Home THEN A ELSE UNCHANGED serverVars

Looping == threadPc[Home] = "looping"

(* A thread outside loop(). *)
ThreadStep(t) ==
  \/ /\ BuildLoop(t) \/ Publish(t) \/ EnterLoop(t) \/ ClearPointer(t)
     /\ UNCHANGED serverVars
  \/ StartListening(t) /\ IfHome(t, Listen)
  \/ LeaveLoop(t) /\ (t = Home => phase = "test") /\ UNCHANGED serverVars
  \/ EndThread(t) /\ IfHome(t, DestroyServer)

HelperStep == (PublishHelper \/ CountDown) /\ UNCHANGED serverVars

(* The loop of Home.  It tests quit_ between two rounds, and epoll_wait    *)
(* returns at the latest after a second.                                   *)
LoopStep ==
  /\ Looping
  /\ (Test /\ ~quit[Home]) \/ BusyStep \/ \E some \in SUBSET Polled : Poll(some)
  /\ UNCHANGED threadVars

OwnerStep == MainStep /\ UNCHANGED serverVars

Environment ==
  \/ (SpuriousWakeup \/ Destroy \/ UserQuits) /\ UNCHANGED serverVars
  \/ Looping /\ UserStep /\ UNCHANGED threadVars
  \/ /\ ~HasEnded(Home)
     /\ PeerStep \/ \E c \in Conn : Drop(c)
     /\ UNCHANGED threadVars

Next ==
  \/ OwnerStep \/ HelperStep \/ LoopStep \/ Environment
  \/ \E t \in Thread : ThreadStep(t)

Spec == Init /\ [][Next]_vars

(* Every thread runs. *)
FairSpec ==
  /\ Spec
  /\ WF_vars(OwnerStep)
  /\ WF_vars(HelperStep \/ ThreadStep(Helper))
  /\ \A t \in Worker : WF_vars(ThreadStep(t) \/ (t = Home /\ LoopStep))

-----------------------------------------------------------------------------
TypeOK == ThreadType /\ ServerType

(* startLoop() and start() return only when every thread has built its     *)
(* loop and made it known (EventLoopThread.cc:36, TcpServer.cc:95-99).     *)
StartWaitsForLoops ==
  mainPc = "loop" =>
    /\ \A t \in Worker : t \in published /\ LoopExists(t)
    /\ Helper \in published \/ selfQuit

(* They do return: neither the latch nor the condition variable loses the  *)
(* notification (CountDownLatch.h, TcpServer.cc:95-98, 112-116).           *)
StartReturns == <>(mainPc = "loop")

(* ~TcpServer returns when no thread runs that uses it; and so             *)
(* ~EventLoopThread.                                                       *)
ServerOutlivesWorkers ==
  /\ mainPc \in {"helperTest", "helperSet", "helperJoin", "end"} =>
       \A t \in Worker : HasEnded(t)
  /\ mainPc = "end" => HasEnded(Helper)

(* connections_ holds exactly the connections announced as up and not yet  *)
(* as down: none is dropped unannounced, and whatever happens to a closed  *)
(* one does not bring it back there.  Announced more than twice, as up and *)
(* as down, is only a connection that came back to life after its close:   *)
(* by a forceClose of another thread that raced with it, a startRead after *)
(* it, or because reading had been stopped (TcpServerSingle.cc:20-38,      *)
(* TcpConnection.cc:195-227, 281-286, EPoller.cc:29-46).                   *)
ListedUntilClosed ==
  /\ ~HasEnded(Home) => connections = {c \in Conn : told[c] = 1}
  /\ \A c \in Conn : told[c] > 2 => c \in revived

(* A channel that the loop is handling belongs to a connection that exists,*)
(* and so does one that it is about to handle, but for a connection that   *)
(* came back to life after its close, which connections_ no longer keeps   *)
(* (Channel.cc:24, 26-36).                                                 *)
ActiveIsAlive ==
  /\ handling # None => Alive(handling)
  /\ \A c \in active \ {Acceptor} : Alive(c) \/ c \in revived

(* A peer that waits is accepted, and one that ends its connection, if it  *)
(* is read from, is announced as down, as long as the loop runs and does   *)
(* not come to a channel that exists no more.                              *)
Unserved(p) == p \in Range(backlog) \/ (p \in gone \cap reading /\ told[p] = 1)
PeersAreServed ==
  \A p \in Peer : Unserved(p) ~> (~Unserved(p) \/ ~Looping \/ Stale)

(* Begun when every thread has entered its loop, the destructors return,   *)
(* unless the loop comes to a channel that exists no more                  *)
(* (TcpServer.cc:45-57, EventLoopThread.cc:13-23).                         *)
Entered(t) == threadPc[t] \in {"looping", "clear", "exit", "ended"}
JoinReturns ==
  (mainPc = "test" /\ cur = 0 /\ \A t \in Thread : Entered(t))
    ~> (mainPc = "end" \/ Stale)
=============================================================================
