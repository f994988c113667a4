--------------------------- MODULE TcpServer_proofs ---------------------------
(***************************************************************************)
(* What TcpServer promises, for any number of threads, peers, failing      *)
(* calls of accept and calls of user code.                                 *)
(***************************************************************************)
EXTENDS TcpServer, TLAPS

Early == {"create", "latch", "latchAsleep", "server"}
Spawning == {"spawn", "await", "awaitAsleep"}
Joined == {"helperTest", "helperSet", "helperJoin", "end"}

HelperPc == {"none", "begin", "built", "count", "enter", "looping", "clear", "exit", "ended"}
WorkerPc == {"none", "begin", "built", "init", "enter", "looping", "clear", "exit", "ended"}

(* The helper: the latch is open once its loop is known, and its loop ends *)
(* early only when user code ends it.                                      *)
HelperInv ==
  LET pc == threadPc[Helper] IN
  /\ pc \in HelperPc
  /\ pc = "none" <=> mainPc = "create"
  /\ count = IF pc \in {"none", "begin", "built", "count"} THEN 1 ELSE 0
  /\ Helper \in published <=> pc \in {"count", "enter", "looping", "clear"}
  /\ mainPc \notin {"create", "latch", "latchAsleep"} => count = 0
  /\ mainPc \notin {"helperJoin", "end"} =>
       /\ quit[Helper] => selfQuit
       /\ pc \in {"clear", "exit", "ended"} => selfQuit
  /\ mainPc = "end" => pc = "ended"

(* The workers: known while they run, and ended by ~TcpServer only.        *)
WorkerInv ==
  \A t \in Worker :
    /\ threadPc[t] \in WorkerPc
    /\ t \in published <=> threadPc[t] \in {"init", "enter", "looping", "clear"}
    /\ mainPc \in Early => threadPc[t] = "none"
    /\ mainPc \in Spawning =>
         /\ t < cur => t \in published
         /\ t > cur \/ (t = cur /\ mainPc = "spawn") => threadPc[t] = "none"
    /\ mainPc \in Early \cup Spawning \cup {"loop"} =>
         ~quit[t] /\ threadPc[t] \notin {"clear", "exit", "ended"}
    /\ mainPc = "loop" => t \in published
    /\ mainPc \in Joined => threadPc[t] = "ended"

(* threads_ holds the threads that have been spawned. *)
JoinInv ==
  /\ mainPc \in Early => threads = {}
  /\ mainPc \in Spawning => threads = 1..(cur - 1) /\ cur \in 1..ThreadNum
  /\ mainPc \in {"await", "awaitAsleep"} => cur < ThreadNum
  /\ mainPc \in {"set", "wake"} => cur \in Worker
  /\ mainPc \notin Early \cup Spawning => threads = Worker

ThreadInv == ThreadType /\ HelperInv /\ WorkerInv /\ JoinInv

-----------------------------------------------------------------------------
(* The steps of the threads, whatever the server does meanwhile. *)
OneThread(t) ==
  BuildLoop(t) \/ Publish(t) \/ StartListening(t) \/ EnterLoop(t) \/ LeaveLoop(t)
    \/ ClearPointer(t) \/ EndThread(t)

ThreadNext ==
  \/ MainStep \/ PublishHelper \/ CountDown \/ SpuriousWakeup \/ Destroy \/ UserQuits
  \/ \E t \in Thread : OneThread(t)

LEMMA ThreadsOnly == [Next]_vars => ThreadNext \/ UNCHANGED threadVars
BY DEF Next, vars, OwnerStep, HelperStep, LoopStep, Environment, ThreadStep,
       ThreadNext, OneThread

LEMMA ThreadFacts ==
  /\ Helper \in Thread /\ Helper \notin Worker
  /\ \A t \in Worker : t \in Thread /\ t \in Nat /\ 0 < t /\ t < ThreadNum
  /\ \A t \in Thread : t = Helper \/ t \in Worker
BY ThreadNumAssumption DEF Thread, Worker, Helper

LEMMA ThreadInitInv == Init => ThreadInv
<1> SUFFICES ASSUME Init PROVE ThreadInv
  OBVIOUS
<1> USE ThreadFacts, ThreadNumAssumption DEF Init, ThreadInit
<1>1. ThreadType
  <2>1. cur \in 0..ThreadNum /\ count \in 0..1
    OBVIOUS
  <2>2. QED
    BY <2>1 DEF ThreadType
<1>2. HelperInv
  BY DEF HelperInv, HelperPc
<1>3. WorkerInv
  BY DEF WorkerInv, WorkerPc, Early, Spawning, Joined
<1>4. JoinInv
  BY DEF JoinInv, Early, Spawning
<1>5. QED
  BY <1>1, <1>2, <1>3, <1>4 DEF ThreadInv

LEMMA MainStepInv == ThreadInv /\ (MainStep \/ Destroy \/ SpuriousWakeup) => ThreadInv'
<1> SUFFICES ASSUME ThreadInv, MainStep \/ Destroy \/ SpuriousWakeup PROVE ThreadInv'
  OBVIOUS
<1> USE ThreadFacts, ThreadNumAssumption
    DEF ThreadInv, ThreadType, HelperInv, WorkerInv, JoinInv, HelperPc, WorkerPc,
        Early, Spawning, Joined, Goto, HasEnded
<1>1. CASE CreateHelper
  BY <1>1 DEF CreateHelper
<1>2. CASE LatchWait
  BY <1>2 DEF LatchWait
<1>3. CASE StartServer
  BY <1>3 DEF StartServer
<1>4. CASE Spawn
  <2> USE <1>4 DEF Spawn
  <2>0. cur \in Worker /\ cur # Helper
    BY DEF Worker, Helper
  <2>1. ThreadType'
    BY <2>0
  <2>2. HelperInv'
    BY <2>0
  <2>3. WorkerInv'
    BY <2>0
  <2>4. JoinInv'
    OBVIOUS
  <2>5. QED
    BY <2>1, <2>2, <2>3, <2>4
<1>5. CASE Await
  <2> USE <1>5 DEF Await
  <2>0. cur \in Worker /\ cur + 1 \in 0..ThreadNum /\ cur \in Nat
    BY DEF Worker
  <2>1. ThreadType'
    BY <2>0
  <2>2. HelperInv'
    OBVIOUS
  <2>3. WorkerInv'
    OBVIOUS
  <2>4. JoinInv'
    <3>1. (1..(cur - 1)) \cup {cur} = 1..((cur + 1) - 1)
      BY <2>0
    <3>2. cur + 1 \in 1..ThreadNum
      BY <2>0
    <3>3. QED
      BY <2>0, <3>1, <3>2
  <2>5. QED
    BY <2>1, <2>2, <2>3, <2>4
<1>6. CASE Started
  <2> USE <1>6 DEF Started
  <2>1. ThreadType'
    OBVIOUS
  <2>2. HelperInv'
    OBVIOUS
  <2>3. WorkerInv'
    OBVIOUS
  <2>4. JoinInv'
    BY DEF Worker
  <2>5. QED
    BY <2>1, <2>2, <2>3, <2>4
<1>7. CASE TestLoop
  BY <1>7 DEF TestLoop
<1>8. CASE SetQuit
  BY <1>8 DEF SetQuit
<1>9. CASE WakeLoop
  BY <1>9 DEF WakeLoop
<1>10. CASE AllQuit
  BY <1>10 DEF AllQuit
<1>11. CASE JoinWorkers
  BY <1>11 DEF JoinWorkers
<1>12. CASE HelperTest
  BY <1>12 DEF HelperTest
<1>13. CASE HelperSetQuit
  BY <1>13 DEF HelperSetQuit
<1>14. CASE HelperJoin
  BY <1>14 DEF HelperJoin
<1>15. CASE Destroy
  BY <1>15 DEF Destroy
<1>16. CASE SpuriousWakeup
  BY <1>16 DEF SpuriousWakeup
<1>17. QED
  BY <1>1, <1>2, <1>3, <1>4, <1>5, <1>6, <1>7, <1>8, <1>9, <1>10, <1>11, <1>12, <1>13, <1>14, <1>15, <1>16 DEF MainStep

LEMMA HelperStepInv == ThreadInv /\ (PublishHelper \/ CountDown \/ UserQuits) => ThreadInv'
<1> SUFFICES ASSUME ThreadInv, PublishHelper \/ CountDown \/ UserQuits PROVE ThreadInv'
  OBVIOUS
<1> USE ThreadFacts, ThreadNumAssumption
    DEF ThreadInv, ThreadType, HelperInv, WorkerInv, JoinInv, HelperPc, WorkerPc,
        Early, Spawning, Joined, Goto, HasEnded
<1>1. CASE PublishHelper
  BY <1>1 DEF PublishHelper
<1>2. CASE CountDown
  BY <1>2 DEF CountDown
<1>3. CASE UserQuits
  BY <1>3 DEF UserQuits
<1>4. QED
  BY <1>1, <1>2, <1>3

LEMMA OneThreadInv ==
  ASSUME ThreadInv, NEW t \in Thread, OneThread(t)
  PROVE  ThreadInv'
<1> USE ThreadFacts, ThreadNumAssumption
    DEF ThreadInv, ThreadType, HelperInv, WorkerInv, JoinInv, HelperPc, WorkerPc,
        Early, Spawning, Joined, Goto, HasEnded
<1>1. CASE BuildLoop(t)
  BY <1>1 DEF BuildLoop
<1>2. CASE Publish(t)
  BY <1>2 DEF Publish
<1>3. CASE StartListening(t)
  BY <1>3 DEF StartListening
<1>4. CASE EnterLoop(t)
  BY <1>4 DEF EnterLoop
<1>5. CASE LeaveLoop(t)
  BY <1>5 DEF LeaveLoop
<1>6. CASE ClearPointer(t)
  BY <1>6 DEF ClearPointer
<1>7. CASE EndThread(t)
  BY <1>7 DEF EndThread
<1>8. QED
  BY <1>1, <1>2, <1>3, <1>4, <1>5, <1>6, <1>7 DEF OneThread

LEMMA ThreadInvariant == Spec => []ThreadInv
<1>1. ThreadInv /\ [Next]_vars => ThreadInv'
  <2> SUFFICES ASSUME ThreadInv, [Next]_vars PROVE ThreadInv'
    OBVIOUS
  <2>1. CASE ThreadNext
    BY <2>1, MainStepInv, HelperStepInv, OneThreadInv DEF ThreadNext
  <2>2. CASE UNCHANGED threadVars
    BY <2>2 DEF threadVars, ThreadInv, ThreadType, HelperInv, WorkerInv, JoinInv
  <2>3. QED
    BY <2>1, <2>2, ThreadsOnly
<1>2. QED
  BY <1>1, ThreadInitInv, PTL DEF Spec

(* startLoop() and start() return only when every loop has been built and  *)
(* made known (EventLoopThread.cc:36, TcpServer.cc:95-99).                 *)
THEOREM StartHasWaited == Spec => []StartWaitsForLoops
<1>1. ThreadInv => StartWaitsForLoops
  BY ThreadFacts
     DEF ThreadInv, HelperInv, WorkerInv, StartWaitsForLoops, LoopExists, HelperPc
<1>2. QED
  BY <1>1, ThreadInvariant, PTL

(* A thread that uses the server has ended before ~TcpServer, or           *)
(* ~EventLoopThread, is done (TcpServer.cc:45-57, EventLoopThread.cc:13).  *)
THEOREM ServerOutlives == Spec => []ServerOutlivesWorkers
<1>1. ThreadInv => ServerOutlivesWorkers
  BY DEF ThreadInv, HelperInv, WorkerInv, ServerOutlivesWorkers, HasEnded, Joined
<1>2. QED
  BY <1>1, ThreadInvariant, PTL

-----------------------------------------------------------------------------
(* The connections. *)

Up == {"connected", "disconnecting"}

(* What belongs to a round is there while the round is. *)
RoundInv ==
  /\ threadPc[Home] # "looping" => phase = "test"
  /\ phase \in {"test", "poll", "tasks"} => active = {}
  /\ IF phase \in {"handle", "handled"}
     THEN handling # None /\ guard = {handling} /\ handling \notin active
     ELSE handling = None /\ guard = {}
  /\ phase \in {"test", "poll"} => arg = None
  /\ phase # "tasks" => tasks = <<>>

(* Only connections announced as up and not as down are listed, and they   *)
(* are up; a closed one that is up, is registered or has been announced a  *)
(* third time came back to life; pointers are to connections that have     *)
(* been made.                                                              *)
MadeInv ==
  /\ \A c \in Conn :
       /\ state[c] = "none" <=> told[c] = 0
       /\ told[c] = 1 => state[c] \in Up
       /\ (state[c] \in Up /\ told[c] # 1) \/ told[c] > 2 => c \in revived
  /\ stray \subseteq revived /\ revived \subseteq Made
  /\ threadPc[Home] # "ended" => connections = {c \in Conn : told[c] = 1}
  /\ arg # None => arg \in Made
  /\ held \subseteq Made /\ testing \subseteq Made
  /\ \A i \in 1..Len(pending) : pending[i] \in Made
  /\ \A i \in 1..Len(tasks) : tasks[i] \in Made

(* Peers that wait are distinct and have no connection yet, nor has a      *)
(* failure that is to come.                                                *)
BacklogInv ==
  /\ \A i \in 1..Len(backlog) : state[backlog[i]] = "none"
  /\ \A i, j \in 1..Len(backlog) : backlog[i] = backlog[j] => i = j
  /\ \A c \in Phantom : c > MaxPeer + failures => state[c] = "none"

(* From epoll_wait until its events are handled, a connection stays open,  *)
(* or is one that came back to life; and the acceptor still has a peer to  *)
(* accept.                                                                 *)
ActiveInv ==
  /\ \A c \in active : c # Acceptor => told[c] = 1 \/ c \in revived
  /\ phase = "handle" => told[handling] = 1 \/ handling \in revived
  /\ Acceptor \in active => backlog # <<>>

ServerInv == ServerType /\ RoundInv /\ MadeInv /\ BacklogInv /\ ActiveInv

LEMMA ConnFacts ==
  /\ \A c \in Conn : c \in Nat /\ c # None /\ c # Acceptor /\ (c \in Peer \/ c \in Phantom)
  /\ None \notin Conn /\ Acceptor \notin Conn
  /\ \A p \in Peer : p \in Conn /\ p \notin Phantom
  /\ \A c \in Phantom : c \in Conn
  /\ \A f \in Nat : f < MaxFail => MaxPeer + (f + 1) \in Phantom /\ f + 1 \in 0..MaxFail
BY ServerAssumption DEF Conn, Peer, Phantom, None, Acceptor

LEMMA ServerInitInv == Init => ServerInv
<1> SUFFICES ASSUME Init PROVE ServerInv
  OBVIOUS
<1> USE ConnFacts, ThreadFacts, HomeAssumption, ServerAssumption
    DEF Init, ServerInit, ThreadInit
<1>1. ServerType
  <2>1. failures \in 0..MaxFail /\ due \in 0..Len(tasks) /\ calls \in 0..MaxCall
    OBVIOUS
  <2>2. backlog \in Seq(Peer) /\ pending \in Seq(Conn) /\ tasks \in Seq(Conn)
    OBVIOUS
  <2>3. told \in [Conn -> Nat]
    OBVIOUS
  <2>4. state \in [Conn -> {"none", "connected", "disconnecting", "disconnected"}]
    OBVIOUS
  <2>5. QED
    BY <2>1, <2>2, <2>3, <2>4 DEF ServerType
<1>2. RoundInv
  BY DEF RoundInv
<1>3. MadeInv
  BY DEF MadeInv, Up, Made
<1>4. BacklogInv
  BY DEF BacklogInv
<1>5. ActiveInv
  BY DEF ActiveInv
<1>6. QED
  BY <1>1, <1>2, <1>3, <1>4, <1>5 DEF ServerInv

(* A step that neither makes, closes nor drops a connection keeps the      *)
(* invariant when its own variables are right.                             *)
PointersMade ==
  /\ arg # None => arg \in Made
  /\ held \subseteq Made /\ testing \subseteq Made
  /\ \A i \in 1..Len(pending) : pending[i] \in Made
  /\ \A i \in 1..Len(tasks) : tasks[i] \in Made

LEMMA CalmInv ==
  ASSUME ServerInv, UNCHANGED <<threadPc, backlog, failures, connVars>>,
         ServerType', RoundInv', PointersMade', ActiveInv'
  PROVE  ServerInv'
<1>1. MadeInv'
  BY DEF ServerInv, MadeInv, PointersMade, connVars, channelVars, Made
<1>2. BacklogInv'
  BY DEF ServerInv, BacklogInv, connVars
<1>3. QED
  BY <1>1, <1>2 DEF ServerInv

(* The steps of the loop that runs, and of user code.                      *)
LEMMA QueueSteps ==
  ASSUME ServerInv, UNCHANGED threadPc,
         \/ threadPc[Home] = "looping" /\ (Test \/ TakeTasks \/ DoneTasks \/ Return \/ Keep)
         \/ threadPc[Home] = "looping" /\ (OnMessage \/ Handled)
         \/ \E c \in Conn : Drop(c)
  PROVE  ServerInv'
<1> USE ConnFacts DEF ServerInv, netVars, connVars, channelVars, roundVars, taskVars, userVars
<1>0. PointersMade
  BY DEF MadeInv, PointersMade
<1>1. CASE threadPc[Home] = "looping" /\ Test
  <2> USE <1>1 DEF Test
  <2>1. UNCHANGED <<backlog, failures, connVars>>
    OBVIOUS
  <2>2. ServerType'
    BY DEF ServerType
  <2>3. RoundInv'
    BY DEF RoundInv
  <2>4. PointersMade'
    BY <1>0 DEF PointersMade, Made
  <2>5. ActiveInv'
    BY DEF ActiveInv, RoundInv
  <2>6. QED
    BY <2>1, <2>2, <2>3, <2>4, <2>5, CalmInv
<1>2. CASE threadPc[Home] = "looping" /\ TakeTasks
  <2> USE <1>2 DEF TakeTasks
  <2>1. UNCHANGED <<backlog, failures, connVars>>
    OBVIOUS
  <2>2. ServerType'
    BY DEF ServerType
  <2>3. RoundInv'
    BY DEF RoundInv
  <2>4. PointersMade'
    BY <1>0 DEF PointersMade, Made
  <2>5. ActiveInv'
    BY DEF ActiveInv, RoundInv
  <2>6. QED
    BY <2>1, <2>2, <2>3, <2>4, <2>5, CalmInv
<1>3. CASE threadPc[Home] = "looping" /\ DoneTasks
  <2> USE <1>3 DEF DoneTasks
  <2>1. UNCHANGED <<backlog, failures, connVars>>
    OBVIOUS
  <2>2. ServerType'
    BY DEF ServerType
  <2>3. RoundInv'
    BY DEF RoundInv
  <2>4. PointersMade'
    BY <1>0 DEF PointersMade, Made
  <2>5. ActiveInv'
    BY DEF ActiveInv, RoundInv
  <2>6. QED
    BY <2>1, <2>2, <2>3, <2>4, <2>5, CalmInv
<1>4. CASE threadPc[Home] = "looping" /\ Return
  <2> USE <1>4 DEF Return
  <2>1. UNCHANGED <<backlog, failures, connVars>>
    OBVIOUS
  <2>2. ServerType'
    BY DEF ServerType
  <2>3. RoundInv'
    BY DEF RoundInv
  <2>4. PointersMade'
    BY <1>0 DEF PointersMade, Made
  <2>5. ActiveInv'
    BY DEF ActiveInv, RoundInv
  <2>6. QED
    BY <2>1, <2>2, <2>3, <2>4, <2>5, CalmInv
<1>5. CASE threadPc[Home] = "looping" /\ Keep
  <2> USE <1>5 DEF Keep
  <2>0. arg # None
    BY ServerAssumption DEF None
  <2>1. UNCHANGED <<backlog, failures, connVars>>
    OBVIOUS
  <2>2. ServerType'
    BY <2>0 DEF ServerType
  <2>3. RoundInv'
    BY DEF RoundInv
  <2>4. PointersMade'
    BY <1>0, <2>0 DEF PointersMade, Made
  <2>5. ActiveInv'
    BY DEF ActiveInv, RoundInv
  <2>6. QED
    BY <2>1, <2>2, <2>3, <2>4, <2>5, CalmInv
<1>6. CASE threadPc[Home] = "looping" /\ OnMessage
  <2> USE <1>6 DEF OnMessage
  <2>1. UNCHANGED <<backlog, failures, connVars>>
    OBVIOUS
  <2>2. ServerType'
    BY DEF ServerType
  <2>3. RoundInv'
    BY DEF RoundInv
  <2>4. PointersMade'
    BY <1>0 DEF PointersMade, Made, MadeInv, RoundInv, ActiveInv, ServerType
  <2>5. ActiveInv'
    BY DEF ActiveInv, RoundInv
  <2>6. QED
    BY <2>1, <2>2, <2>3, <2>4, <2>5, CalmInv
<1>7. CASE threadPc[Home] = "looping" /\ Handled
  <2> USE <1>7 DEF Handled
  <2>1. UNCHANGED <<backlog, failures, connVars>>
    OBVIOUS
  <2>2. ServerType'
    BY DEF ServerType
  <2>3. RoundInv'
    BY DEF RoundInv
  <2>4. PointersMade'
    BY <1>0 DEF PointersMade, Made
  <2>5. ActiveInv'
    BY DEF ActiveInv, RoundInv
  <2>6. QED
    BY <2>1, <2>2, <2>3, <2>4, <2>5, CalmInv
<1>8. CASE \E c \in Conn : Drop(c)
  <2> USE <1>8 DEF Drop
  <2>1. UNCHANGED <<backlog, failures, connVars>>
    OBVIOUS
  <2>2. ServerType'
    BY DEF ServerType
  <2>3. RoundInv'
    BY DEF RoundInv
  <2>4. PointersMade'
    BY <1>0 DEF PointersMade, Made
  <2>5. ActiveInv'
    BY DEF ActiveInv, RoundInv
  <2>6. QED
    BY <2>1, <2>2, <2>3, <2>4, <2>5, CalmInv
<1>9. QED
  BY <1>1, <1>2, <1>3, <1>4, <1>5, <1>6, <1>7, <1>8

LEMMA PollInv ==
  ASSUME ServerInv, UNCHANGED threadPc, threadPc[Home] = "looping", NEW some, Poll(some)
  PROVE  ServerInv'
<1> USE ConnFacts DEF Poll, ServerInv, netVars, connVars, channelVars, roundVars, taskVars, userVars
<1>1. active' \subseteq Conn \cup {Acceptor}
  BY DEF Polled, Ready
<1>2. \A c \in active' : c # Acceptor => told[c] = 1 \/ c \in revived
  BY DEF Polled, Ready, Open, MadeInv
<1>3. Acceptor \in active' => backlog # <<>>
  BY DEF Polled, Ready
<1>4. ServerType'
  BY <1>1 DEF ServerType
<1>5. RoundInv'
  BY DEF RoundInv
<1>6. PointersMade'
  BY DEF MadeInv, PointersMade, Made
<1>7. ActiveInv'
  BY <1>2, <1>3 DEF ActiveInv
<1>8. UNCHANGED <<backlog, failures, connVars>>
  OBVIOUS
<1>9. QED
  BY <1>4, <1>5, <1>6, <1>7, <1>8, CalmInv

LEMMA HandleInv ==
  ASSUME ServerInv, UNCHANGED threadPc, threadPc[Home] = "looping", NEW c \in Conn, Handle(c)
  PROVE  ServerInv'
<1> USE ConnFacts DEF Handle, ServerInv, netVars, connVars, channelVars, roundVars, taskVars, userVars
<1>1. ServerType'
  BY DEF ServerType
<1>2. RoundInv'
  BY DEF RoundInv
<1>3. PointersMade'
  BY DEF MadeInv, PointersMade, Made
<1>4. ActiveInv'
  BY DEF ActiveInv
<1>5. UNCHANGED <<backlog, failures, connVars>>
  OBVIOUS
<1>6. QED
  BY <1>1, <1>2, <1>3, <1>4, <1>5, CalmInv

(* What handleClose does, of a connection that is open or came back to life. *)
Closed(c) ==
  /\ state' \in [Conn -> {"none", "connected", "disconnecting", "disconnected"}]
  /\ told' \in [Conn -> Nat] /\ connections' \subseteq Conn /\ arg' = c
  /\ reading' \subseteq Conn /\ stray' \subseteq Conn /\ revived' \subseteq Conn
  /\ state'[c] = "disconnected" /\ told'[c] >= 2
  /\ told'[c] > 2 => c \in revived'
  /\ stray' \subseteq revived' /\ revived \subseteq revived'
  /\ revived' \subseteq revived \cup {c}
  /\ \A d \in Conn : d # c => state'[d] = state[d] /\ told'[d] = told[d]
  /\ threadPc[Home] # "ended" => connections' = {d \in Conn : told'[d] = 1}

LEMMA CloseInv ==
  ASSUME ServerInv, NEW c \in Made, told[c] = 1 \/ c \in revived, Close(c)
  PROVE  Closed(c)
<1> USE ConnFacts DEF Close, ServerInv, ServerType, MadeInv, Made
<1>1. told[c] \in Nat /\ told[c] >= 1
  OBVIOUS
<1>2. \A d \in Conn : d # c => state'[d] = state[d] /\ told'[d] = told[d]
  OBVIOUS
<1>3. told'[c] = told[c] + 1 /\ state'[c] = "disconnected"
  OBVIOUS
<1>4. threadPc[Home] # "ended" => connections' = {d \in Conn : told'[d] = 1}
  BY <1>1, <1>2, <1>3
<1>5. /\ reading' \subseteq Conn /\ stray' \subseteq Conn /\ revived' \subseteq Conn
      /\ stray' \subseteq revived' /\ revived \subseteq revived'
      /\ revived' \subseteq revived \cup {c}
  BY DEF RemoveChannel
<1>6. told'[c] > 2 => c \in revived'
  BY <1>1, <1>3, <1>5
<1>7. /\ state' \in [Conn -> {"none", "connected", "disconnecting", "disconnected"}]
      /\ told' \in [Conn -> Nat] /\ connections' \subseteq Conn /\ arg' = c
  BY <1>1
<1> HIDE DEF Close, ServerInv, ServerType, MadeInv, Made
<1>8. told'[c] >= 2
  BY <1>1, <1>3
<1>9. QED
  BY <1>2, <1>3, <1>4, <1>5, <1>6, <1>7, <1>8 DEF Closed

(* The parts of the invariant that do not depend on why it is called.      *)
LEMMA ClosedInv ==
  ASSUME ServerInv, UNCHANGED <<threadPc, backlog, failures, held, testing>>,
         NEW c \in Made, Closed(c),
         \A i \in 1..Len(pending') : pending'[i] \in Made,
         \A i \in 1..Len(tasks') : tasks'[i] \in Made
  PROVE  MadeInv' /\ BacklogInv'
<1> USE ConnFacts DEF ServerInv, Closed
<1>1. Made' = Made
  BY DEF Made
<1>2. MadeInv'
  <2>1. \A d \in Conn :
          /\ state'[d] = "none" <=> told'[d] = 0
          /\ told'[d] = 1 => state'[d] \in Up
          /\ (state'[d] \in Up /\ told'[d] # 1) \/ told'[d] > 2 => d \in revived'
    BY DEF MadeInv, Up, Made
  <2>2. QED
    BY <1>1, <2>1 DEF MadeInv
<1>3. BacklogInv'
  <2>1. \A d \in Conn : state'[d] = "none" <=> state[d] = "none"
    BY DEF Made
  <2>2. \A i \in 1..Len(backlog) : backlog[i] \in Conn
    BY DEF ServerType
  <2>3. QED
    BY <2>1, <2>2 DEF BacklogInv
<1>4. QED
  BY <1>2, <1>3

LEMMA OnEndInv ==
  ASSUME ServerInv, UNCHANGED threadPc, threadPc[Home] = "looping", OnEnd
  PROVE  ServerInv'
<1> USE ConnFacts DEF OnEnd, ServerInv
<1>1. /\ handling \in Conn /\ handling \in Made
      /\ told[handling] = 1 \/ handling \in revived
  BY DEF ServerType, RoundInv, ActiveInv, MadeInv, Made
<1>2. Closed(handling)
  BY <1>1, CloseInv
<1> USE DEF netVars, roundVars, taskVars, userVars
<1>3. ServerType'
  BY <1>1, <1>2 DEF ServerType, Closed
<1>4. RoundInv'
  BY <1>1, <1>2 DEF ServerType, RoundInv, Closed
<1>5. MadeInv' /\ BacklogInv'
  BY <1>1, <1>2, ClosedInv DEF MadeInv
<1>6. ActiveInv'
  BY <1>1, <1>2 DEF ServerType, RoundInv, ActiveInv, Closed
<1>7. QED
  BY <1>3, <1>4, <1>5, <1>6

LEMMA RunTaskInv ==
  ASSUME ServerInv, UNCHANGED threadPc, threadPc[Home] = "looping", RunTask
  PROVE  ServerInv'
<1> DEFINE c == tasks[Len(tasks) - due + 1]
<1> USE ConnFacts DEF ServerInv, netVars, roundVars, taskVars, userVars
<1>1. /\ phase = "tasks" /\ due > 0 /\ due' = due - 1
      /\ IF ClosesNow(c) THEN Close(c) ELSE UNCHANGED <<connVars, arg>>
      /\ UNCHANGED <<phase, netVars, roundVars, pending, tasks, userVars>>
  BY DEF RunTask
<1>2. c \in Conn /\ c \in Made /\ due' \in 0..Len(tasks)
  <2>0. Len(tasks) \in Nat /\ due \in 0..Len(tasks)
    BY DEF ServerType
  <2>1. Len(tasks) - due + 1 \in 1..Len(tasks)
    BY <1>1, <2>0
  <2>2. \A i \in 1..Len(tasks) : tasks[i] \in Conn /\ tasks[i] \in Made
    BY DEF ServerType, MadeInv
  <2>3. due' \in 0..Len(tasks)
    BY <1>1 DEF ServerType
  <2>4. QED
    BY <2>1, <2>2, <2>3
<1>3. CASE ~ClosesNow(c)
  <2>1. UNCHANGED <<phase, netVars, connVars, roundVars, arg, pending, tasks, userVars>>
    BY <1>1, <1>3
  <2> HIDE DEF c
  <2> USE DEF connVars, channelVars
  <2>2. ServerType'
    BY <1>2, <2>1 DEF ServerType
  <2>3. RoundInv'
    BY <2>1 DEF RoundInv
  <2>4. PointersMade'
    BY <2>1 DEF MadeInv, PointersMade, Made
  <2>5. ActiveInv'
    BY <2>1 DEF ActiveInv
  <2>6. QED
    BY <2>1, <2>2, <2>3, <2>4, <2>5, CalmInv
<1>4. CASE ClosesNow(c)
  <2>1. (told[c] = 1 \/ c \in revived) /\ Close(c)
    BY <1>1, <1>2, <1>4 DEF ClosesNow, Made, MadeInv, Up, ServerType
  <2> HIDE DEF c
  <2>2. Closed(c)
    BY <1>2, <2>1, CloseInv
  <2>3. ServerType'
    BY <1>1, <1>2, <2>2 DEF ServerType, Closed
  <2>4. RoundInv'
    BY <1>1, <1>2, <2>2 DEF RoundInv, Closed
  <2>5. MadeInv' /\ BacklogInv'
    BY <1>1, <1>2, <2>2, ClosedInv DEF MadeInv
  <2>6. ActiveInv'
    BY <1>1, <2>2 DEF ServerType, RoundInv, ActiveInv, Closed
  <2>7. QED
    BY <2>3, <2>4, <2>5, <2>6
<1>5. QED
  BY <1>3, <1>4

(* The assignment of forceClose revives a connection that was closed.      *)
LEMMA SetDisconnectingInv ==
  ASSUME ServerInv, UNCHANGED threadPc, NEW c \in Made, SetDisconnecting(c),
         testing' \subseteq testing, calls' \in 0..MaxCall
  PROVE  ServerInv'
<1> USE ConnFacts DEF ServerInv, SetDisconnecting, netVars, roundVars, taskVars
<1>1. c \in Conn /\ state[c] # "none"
  BY DEF Made
<1>2. /\ state' \in [Conn -> {"none", "connected", "disconnecting", "disconnected"}]
      /\ state'[c] = "disconnecting"
      /\ \A d \in Conn : d # c => state'[d] = state[d]
  BY <1>1 DEF ServerType
<1>3. Made' = Made
  BY <1>1, <1>2 DEF Made
<1>4. revived \subseteq revived' /\ revived' \subseteq revived \cup {c}
  OBVIOUS
<1>5. /\ pending' \in Seq(Conn)
      /\ \A i \in 1..Len(pending') : pending'[i] \in Made
  BY <1>1 DEF ServerType, MadeInv
<1>6. ServerType'
  <2>1. testing' \subseteq Conn /\ revived' \subseteq Conn
    BY <1>1, <1>4 DEF ServerType
  <2>2. UNCHANGED <<phase, listening, backlog, gone, failures, connections, told, reading,
                    stray, active, handling, guard, arg, tasks, due, held>>
    OBVIOUS
  <2> HIDE DEF SetDisconnecting, netVars, roundVars, taskVars
  <2>3. QED
    BY <1>2, <1>5, <2>1, <2>2 DEF ServerType
<1>7. RoundInv'
  BY DEF RoundInv
<1>8. MadeInv'
  <2>1. told[c] # 1 => c \in revived'
    BY <1>1 DEF MadeInv, ServerType, Up
  <2>2. \A d \in Conn :
          /\ state'[d] = "none" <=> told[d] = 0
          /\ told[d] = 1 => state'[d] \in Up
          /\ (state'[d] \in Up /\ told[d] # 1) \/ told[d] > 2 => d \in revived'
    BY <1>1, <1>2, <1>4, <2>1 DEF MadeInv, Up
  <2>3. stray' \subseteq revived' /\ revived' \subseteq Made'
    BY <1>3, <1>4 DEF MadeInv
  <2>4. QED
    BY <1>3, <1>5, <2>2, <2>3 DEF MadeInv
<1>9. BacklogInv'
  <2>1. \A d \in Conn : state'[d] = "none" <=> state[d] = "none"
    BY <1>1, <1>2
  <2>2. \A i \in 1..Len(backlog) : backlog[i] \in Conn
    BY DEF ServerType
  <2>3. QED
    BY <2>1, <2>2 DEF BacklogInv
<1>10. ActiveInv'
  BY <1>4 DEF ServerType, RoundInv, ActiveInv
<1>11. QED
  BY <1>6, <1>7, <1>8, <1>9, <1>10

LEMMA ForceCloseInv ==
  ASSUME ServerInv, UNCHANGED threadPc, NEW c \in Kept,
         ForceClose(c) \/ ForceCloseTest(c) \/ ForceCloseSet(c)
  PROVE  ServerInv'
<1> USE ConnFacts, ServerAssumption DEF ServerInv
<1>1. CASE ForceClose(c)
  <2>1. c \in Made /\ calls' \in 0..MaxCall
    BY <1>1 DEF ForceClose, Call, MadeInv, ServerType
  <2>2. QED
    BY <1>1, <2>1, SetDisconnectingInv DEF ForceClose
<1>2. CASE ForceCloseSet(c)
  <2>1. c \in Made /\ calls' \in 0..MaxCall
    BY <1>2 DEF ForceCloseSet, MadeInv, ServerType
  <2>2. QED
    BY <1>2, <2>1, SetDisconnectingInv DEF ForceCloseSet
<1>3. CASE ForceCloseTest(c)
  <2> USE <1>3 DEF ForceCloseTest, Call, netVars, connVars, channelVars, roundVars, taskVars
  <2>1. c \in Made
    BY DEF MadeInv
  <2>2. ServerType'
    <3>1. calls' \in 0..MaxCall
      BY DEF ServerType
    <3>2. testing' \subseteq Conn
      BY <2>1 DEF ServerType, Made
    <3>3. QED
      BY <3>1, <3>2 DEF ServerType
  <2>3. RoundInv'
    BY DEF RoundInv
  <2>4. PointersMade'
    BY <2>1 DEF MadeInv, PointersMade, Made
  <2>5. ActiveInv'
    BY DEF ActiveInv
  <2>6. UNCHANGED <<backlog, failures, connVars>>
    OBVIOUS
  <2>7. QED
    BY <2>2, <2>3, <2>4, <2>5, <2>6, CalmInv
<1>4. QED
  BY <1>1, <1>2, <1>3

(* A closed connection that is read again is revived. *)
LEMMA ReadInv ==
  ASSUME ServerInv, UNCHANGED threadPc, NEW c \in Kept, StopRead(c) \/ StartRead(c)
  PROVE  ServerInv'
<1> USE ConnFacts, ServerAssumption
    DEF ServerInv, StopRead, StartRead, Call, netVars, roundVars, taskVars
<1>1. /\ UNCHANGED <<phase, backlog, gone, failures, listening, connections, state, told,
                     active, handling, guard, arg, pending, tasks, due, held, testing>>
      /\ calls' = calls + 1 /\ calls < MaxCall
      /\ c \in held \cup {arg} /\ arg # None
  OBVIOUS
<1>2. c \in Made /\ c \in Conn
  BY <1>1 DEF MadeInv, Made
<1>3. /\ reading' \subseteq Conn /\ stray' \subseteq revived'
      /\ revived \subseteq revived' /\ revived' \subseteq revived \cup {c}
  BY <1>2 DEF MadeInv, ServerType
<1>4. Made' = Made
  BY <1>1 DEF Made
<1>5. ServerType'
  <2> HIDE DEF StopRead, StartRead, Call, netVars, roundVars, taskVars
  <2>1. calls' \in 0..MaxCall
    BY <1>1 DEF ServerType
  <2>2. stray' \subseteq Conn /\ revived' \subseteq Conn
    BY <1>2, <1>3 DEF ServerType
  <2>3. QED
    BY <1>1, <1>3, <2>1, <2>2 DEF ServerType
<1>6. RoundInv'
  BY <1>1 DEF RoundInv
<1>7. MadeInv'
  BY <1>1, <1>2, <1>3, <1>4 DEF MadeInv
<1>8. BacklogInv'
  BY <1>1 DEF BacklogInv
<1>9. ActiveInv'
  BY <1>1, <1>3 DEF ActiveInv
<1>10. QED
  BY <1>5, <1>6, <1>7, <1>8, <1>9

(* newConnection of a peer that waited, or of a failure. *)
LEMMA NewConnectionInv ==
  ASSUME ServerInv, threadPc[Home] = "looping",
         NEW c \in Conn, state[c] = "none", NewConnection(c)
  PROVE  /\ state' \in [Conn -> {"none", "connected", "disconnecting", "disconnected"}]
         /\ reading' \subseteq Conn /\ UNCHANGED <<stray, revived>>
         /\ told' \in [Conn -> Nat] /\ connections' \subseteq Conn /\ arg' = c
         /\ state'[c] \in Up /\ told'[c] = 1
         /\ \A d \in Conn : d # c => state'[d] = state[d] /\ told'[d] = told[d]
         /\ connections' = {d \in Conn : told'[d] = 1}
<1> USE ConnFacts DEF NewConnection, ServerInv, ServerType, MadeInv
<1>1. told[c] = 0
  OBVIOUS
<1>2. \A d \in Conn : d # c => state'[d] = state[d] /\ told'[d] = told[d]
  OBVIOUS
<1>3. told'[c] = 1 /\ state'[c] \in Up
  BY <1>1 DEF Up
<1>4. connections' = {d \in Conn : told'[d] = 1}
  BY <1>1, <1>2, <1>3
<1>5. QED
  BY <1>2, <1>3, <1>4

LEMMA HandleAcceptorInv ==
  ASSUME ServerInv, UNCHANGED threadPc, threadPc[Home] = "looping", HandleAcceptor
  PROVE  ServerInv'
<1> USE ConnFacts DEF ServerInv, HandleAcceptor, netVars, roundVars, taskVars, userVars
<1>1. backlog \in Seq(Peer) /\ backlog # <<>>
  BY DEF ServerType, ActiveInv
<1>2. /\ Head(backlog) = backlog[1] /\ Head(backlog) \in Peer
      /\ Tail(backlog) \in Seq(Peer) /\ Len(Tail(backlog)) = Len(backlog) - 1
      /\ \A i \in 1..Len(Tail(backlog)) : Tail(backlog)[i] = backlog[i + 1]
      /\ Len(backlog) \in Nat /\ Len(backlog) > 0
  BY <1>1
(* A connection is made of c, which is not in the backlog any more.        *)
<1>3. PICK c \in Conn :
        /\ state[c] = "none" /\ NewConnection(c)
        /\ \A i \in 1..Len(backlog') : backlog'[i] \in Peer /\ backlog'[i] # c
        /\ c \in Phantom => c <= MaxPeer + failures'
  <2>1. CASE Accept
    <3>1. state[Head(backlog)] = "none" /\ NewConnection(Head(backlog))
      BY <1>2, <2>1 DEF Accept, BacklogInv
    <3>2. \A i \in 1..Len(backlog') : backlog'[i] \in Peer /\ backlog'[i] # Head(backlog)
      BY <1>2, <2>1 DEF Accept, BacklogInv
    <3>3. QED
      BY <1>2, <3>1, <3>2
  <2>2. CASE AcceptFails
    <3>1. failures \in Nat /\ failures' = failures + 1 /\ failures < MaxFail
      <4>1. failures \in 0..MaxFail
        BY DEF ServerType
      <4>2. QED
        BY <2>2, <4>1, ServerAssumption DEF AcceptFails
    <3>2. MaxPeer + failures' \in Phantom /\ MaxPeer + failures' > MaxPeer + failures
      BY <3>1, ServerAssumption
    <3>3. state[MaxPeer + failures'] = "none" /\ NewConnection(MaxPeer + failures')
      BY <2>2, <3>2 DEF AcceptFails, BacklogInv
    <3>4. \A i \in 1..Len(backlog') : backlog'[i] \in Peer /\ backlog'[i] # MaxPeer + failures'
      <4>1. backlog' = backlog \/ backlog' = Tail(backlog)
        BY <2>2 DEF AcceptFails
      <4>2. \A i \in 1..Len(backlog') : backlog'[i] \in Peer
        <5>1. backlog' \in Seq(Peer)
          BY <1>1, <1>2, <4>1
        <5> HIDE DEF Peer
        <5>2. QED
          BY <5>1
      <4>3. QED
        BY <3>2, <4>2
    <3>5. MaxPeer + failures' \in Conn /\ MaxPeer + failures' <= MaxPeer + failures'
      BY <3>1, <3>2, ServerAssumption
    <3>6. QED
      BY <3>3, <3>4, <3>5
  <2>3. QED
    BY <2>1, <2>2
<1>4. /\ backlog' \in Seq(Peer)
      /\ \A i \in 1..Len(backlog') : \E j \in 1..Len(backlog) : backlog'[i] = backlog[j]
      /\ \A i, j \in 1..Len(backlog') : backlog'[i] = backlog'[j] => i = j
  <2>1. backlog' = backlog \/ backlog' = Tail(backlog)
    BY DEF Accept, AcceptFails
  <2>2. CASE backlog' = backlog
    BY <1>1, <2>2 DEF BacklogInv
  <2>3. CASE backlog' = Tail(backlog)
    BY <1>1, <1>2, <2>3 DEF BacklogInv
  <2>4. QED
    BY <2>1, <2>2, <2>3
<1>5. failures' \in 0..MaxFail /\ failures <= failures'
  <2>1. CASE Accept
    BY <2>1, ServerAssumption DEF Accept, ServerType
  <2>2. CASE AcceptFails
    BY <2>2, ServerAssumption DEF AcceptFails, ServerType
  <2>3. QED
    BY <2>1, <2>2
<1>6. /\ state' \in [Conn -> {"none", "connected", "disconnecting", "disconnected"}]
      /\ reading' \subseteq Conn /\ UNCHANGED <<stray, revived>>
      /\ told' \in [Conn -> Nat] /\ connections' \subseteq Conn /\ arg' = c
      /\ state'[c] \in Up /\ told'[c] = 1
      /\ \A d \in Conn : d # c => state'[d] = state[d] /\ told'[d] = told[d]
      /\ connections' = {d \in Conn : told'[d] = 1}
  BY <1>3, NewConnectionInv
<1>7. Made' = Made \cup {c}
  BY <1>6 DEF Made, Up
<1>8. ServerType'
  BY <1>4, <1>5, <1>6 DEF ServerType
<1>9. RoundInv'
  BY DEF RoundInv
<1>10. MadeInv'
  <2>1. \A d \in Conn :
          /\ state'[d] = "none" <=> told'[d] = 0
          /\ told'[d] = 1 => state'[d] \in Up
          /\ (state'[d] \in Up /\ told'[d] # 1) \/ told'[d] > 2 => d \in revived'
    BY <1>6 DEF MadeInv, Up
  <2>2. QED
    BY <1>6, <1>7, <2>1 DEF MadeInv
<1>11. BacklogInv'
  <2>1. \A i \in 1..Len(backlog') : state'[backlog'[i]] = "none"
    <3>1. \A i \in 1..Len(backlog') : state[backlog'[i]] = "none"
      BY <1>4 DEF BacklogInv
    <3>2. \A i \in 1..Len(backlog') : backlog'[i] \in Conn /\ backlog'[i] # c
      BY <1>3
    <3>3. QED
      BY <1>6, <3>1, <3>2
  <2>2. \A d \in Phantom : d > MaxPeer + failures' => state'[d] = "none"
    <3>1. \A d \in Phantom : d > MaxPeer + failures' => d # c /\ d > MaxPeer + failures /\ d \in Conn
      BY <1>3, <1>5, ServerAssumption DEF ServerType
    <3>2. QED
      BY <1>6, <3>1 DEF BacklogInv
  <2>3. QED
    BY <1>4, <2>1, <2>2 DEF BacklogInv
<1>12. ActiveInv'
  BY <1>6 DEF ServerType, ActiveInv
<1>13. QED
  BY <1>8, <1>9, <1>10, <1>11, <1>12

(* Peers come and go, also when the loop does not run. *)
LEMMA PeerInv ==
  ASSUME ServerInv, UNCHANGED threadPc, NEW p \in Peer, PeerConnects(p) \/ PeerEnds(p)
  PROVE  ServerInv'
<1> USE ConnFacts DEF ServerInv, netVars, connVars, channelVars, roundVars, taskVars, userVars
<1>1. CASE PeerConnects(p)
  <2> USE <1>1 DEF PeerConnects
  <2>1. state[p] = "none" /\ \A i \in 1..Len(backlog) : backlog[i] # p
    <3>1. state[p] = "none"
      BY DEF Arrived, Made
    <3>2. \A i \in 1..Len(backlog) : backlog[i] \in Range(backlog)
      BY DEF Range
    <3>3. p \notin Range(backlog)
      BY DEF Arrived
    <3>4. QED
      BY <3>1, <3>2, <3>3
  <2>2. /\ backlog' \in Seq(Peer) /\ Len(backlog') = Len(backlog) + 1
        /\ \A i \in 1..Len(backlog) : backlog'[i] = backlog[i]
        /\ backlog'[Len(backlog) + 1] = p
        /\ Len(backlog) \in Nat
    BY DEF ServerType
  <2>3. BacklogInv'
    BY <2>1, <2>2 DEF BacklogInv
  <2>4. ServerType'
    BY <2>2 DEF ServerType
  <2>5. RoundInv' /\ MadeInv'
    BY DEF RoundInv, MadeInv, Made
  <2>6. backlog' # <<>>
    BY <2>2
  <2>7. ActiveInv'
    BY <2>6 DEF ActiveInv
  <2>8. QED
    BY <2>3, <2>4, <2>5, <2>7
<1>2. CASE PeerEnds(p)
  <2> USE <1>2 DEF PeerEnds
  <2>1. UNCHANGED <<backlog, failures, connVars>>
    OBVIOUS
  <2>2. ServerType'
    BY DEF ServerType
  <2>3. RoundInv'
    BY DEF RoundInv
  <2>4. PointersMade'
    BY DEF MadeInv, PointersMade, Made
  <2>5. ActiveInv'
    BY DEF ActiveInv
  <2>6. QED
    BY <2>1, <2>2, <2>3, <2>4, <2>5, CalmInv
<1>3. QED
  BY <1>1, <1>2

(* While the server does nothing, only the place of its thread matters.    *)
LEMMA PlaceInv ==
  ASSUME ServerInv, UNCHANGED serverVars,
         threadPc'[Home] # "looping" => phase = "test",
         threadPc'[Home] # "ended" => threadPc[Home] # "ended"
  PROVE  ServerInv'
BY DEF ServerInv, ServerType, RoundInv, MadeInv, BacklogInv, ActiveInv, Made,
       serverVars, netVars, connVars, channelVars, roundVars, taskVars, userVars

LEMMA OtherThreadsInv ==
  ASSUME ThreadInv, ServerInv, UNCHANGED serverVars,
         MainStep \/ PublishHelper \/ CountDown \/ SpuriousWakeup \/ Destroy \/ UserQuits
  PROVE  ServerInv'
<1>1. \/ threadPc'[Home] = threadPc[Home]
      \/ threadPc[Home] = "none" /\ threadPc'[Home] = "begin"
  <2> USE ThreadFacts, HomeAssumption DEF ThreadInv, ThreadType, Goto
  <2>1. CASE CreateHelper
    BY <2>1 DEF CreateHelper
  <2>2. CASE Spawn
    <3>1. cur \in Worker /\ threadPc[cur] = "none"
      BY <2>2, ThreadNumAssumption DEF Spawn, JoinInv, WorkerInv, Spawning, Worker
    <3>2. QED
      BY <2>2, <3>1 DEF Spawn
  <2>3. CASE PublishHelper \/ CountDown
    BY <2>3 DEF PublishHelper, CountDown
  <2>4. CASE UNCHANGED threadPc
    BY <2>4
  <2>5. QED
    BY <2>1, <2>2, <2>3, <2>4
       DEF MainStep, LatchWait, StartServer, Await, Started, TestLoop, SetQuit, WakeLoop,
           AllQuit, JoinWorkers, HelperTest, HelperSetQuit, HelperJoin, SpuriousWakeup,
           Destroy, UserQuits
<1>2. QED
  BY <1>1, PlaceInv DEF ServerInv, RoundInv

(* The steps of the threads: Home's listens before its loop and destroys   *)
(* the server after it.                                                    *)
LEMMA ThreadStepInv ==
  ASSUME ThreadInv, ServerInv, NEW t \in Thread, ThreadStep(t)
  PROVE  ServerInv'
<1> USE ThreadFacts, HomeAssumption DEF ThreadInv, ThreadType, Goto
<1>1. CASE (BuildLoop(t) \/ Publish(t) \/ EnterLoop(t) \/ ClearPointer(t)) /\ UNCHANGED serverVars
  <2>1. \/ threadPc'[Home] = threadPc[Home]
        \/ threadPc'[Home] # "ended" /\ threadPc[Home] \notin {"looping", "ended"}
    BY <1>1 DEF BuildLoop, Publish, EnterLoop, ClearPointer
  <2>2. QED
    BY <1>1, <2>1, PlaceInv DEF ServerInv, RoundInv
<1>2. CASE LeaveLoop(t) /\ (t = Home => phase = "test") /\ UNCHANGED serverVars
  <2>1. threadPc'[Home] = threadPc[Home] \/ (phase = "test" /\ threadPc[Home] = "looping")
    BY <1>2 DEF LeaveLoop
  <2>2. QED
    BY <1>2, <2>1, PlaceInv DEF ServerInv, RoundInv
<1>3. CASE StartListening(t) /\ IfHome(t, Listen)
  <2>1. CASE t = Home
    BY <1>3, <2>1
       DEF StartListening, IfHome, Listen, ServerInv, ServerType, RoundInv, MadeInv,
           BacklogInv, ActiveInv, Made, connVars, channelVars, roundVars, taskVars, userVars
  <2>2. CASE t # Home
    BY <1>3, <2>2, PlaceInv DEF StartListening, IfHome, ServerInv, RoundInv
  <2>3. QED
    BY <2>1, <2>2
<1>4. CASE EndThread(t) /\ IfHome(t, DestroyServer)
  <2>1. CASE t = Home
    <3>1. phase = "test" /\ threadPc'[Home] = "ended"
      BY <1>4, <2>1 DEF EndThread, ServerInv, RoundInv
    <3>2. ServerType'
      <4>1. backlog' \in Seq(Peer) /\ pending' \in Seq(Conn) /\ connections' \subseteq Conn
        BY <1>4, <2>1 DEF IfHome, DestroyServer
      <4>2. /\ listening' = FALSE
            /\ UNCHANGED <<phase, gone, failures, state, told, channelVars, roundVars,
                           arg, taskVars, userVars>>
        BY <1>4, <2>1 DEF IfHome, DestroyServer
      <4>3. ServerType
        BY DEF ServerInv
      <4>4. QED
        BY <4>1, <4>2, <4>3 DEF ServerType, channelVars, roundVars, taskVars, userVars
    <3>3. RoundInv' /\ MadeInv' /\ BacklogInv' /\ ActiveInv'
      <4>1. /\ backlog' = <<>> /\ pending' = <<>>
            /\ UNCHANGED <<phase, failures, state, told, channelVars, roundVars,
                           arg, taskVars, userVars>>
        BY <1>4, <2>1 DEF IfHome, DestroyServer
      <4> USE <3>1, <4>1 DEF ServerInv, channelVars, roundVars, taskVars, userVars
      <4>2. RoundInv'
        BY DEF RoundInv
      <4>3. MadeInv'
        BY DEF MadeInv, Made
      <4>4. BacklogInv'
        BY DEF BacklogInv
      <4>5. ActiveInv'
        BY DEF ActiveInv, RoundInv
      <4>6. QED
        BY <4>2, <4>3, <4>4, <4>5
    <3>4. QED
      BY <3>2, <3>3 DEF ServerInv
  <2>2. CASE t # Home
    BY <1>4, <2>2, PlaceInv DEF EndThread, IfHome, ServerInv, RoundInv
  <2>3. QED
    BY <2>1, <2>2
<1>5. QED
  BY <1>1, <1>2, <1>3, <1>4 DEF ThreadStep

LEMMA ServerNextInv == ThreadInv /\ ServerInv /\ [Next]_vars => ServerInv'
<1> SUFFICES ASSUME ThreadInv, ServerInv, [Next]_vars PROVE ServerInv'
  OBVIOUS
<1>1. CASE OwnerStep \/ HelperStep
  BY <1>1, OtherThreadsInv DEF OwnerStep, HelperStep
<1>2. CASE LoopStep
  <2> UNCHANGED threadPc /\ threadPc[Home] = "looping"
    BY <1>2 DEF LoopStep, Looping, threadVars
  <2>1. CASE Test \/ OnMessage \/ Handled \/ TakeTasks \/ DoneTasks \/ Return
    BY <2>1, QueueSteps
  <2>2. CASE HandleAcceptor
    BY <2>2, HandleAcceptorInv
  <2>3. CASE OnEnd
    BY <2>3, OnEndInv
  <2>4. CASE RunTask
    BY <2>4, RunTaskInv
  <2>5. CASE \E c \in Conn : Handle(c)
    BY <2>5, HandleInv
  <2>6. CASE \E some \in SUBSET Polled : Poll(some)
    BY <2>6, PollInv
  <2>7. QED
    BY <1>2, <2>1, <2>2, <2>3, <2>4, <2>5, <2>6 DEF LoopStep, BusyStep
<1>3. CASE Environment
  <2>1. CASE (SpuriousWakeup \/ Destroy \/ UserQuits) /\ UNCHANGED serverVars
    BY <2>1, OtherThreadsInv
  <2>2. CASE Looping /\ UserStep /\ UNCHANGED threadVars
    BY <2>2, QueueSteps, ForceCloseInv, ReadInv DEF Looping, UserStep, threadVars
  <2>3. CASE PeerStep /\ UNCHANGED threadVars
    BY <2>3, PeerInv DEF PeerStep, threadVars
  <2>4. CASE (\E c \in Conn : Drop(c)) /\ UNCHANGED threadVars
    BY <2>4, QueueSteps DEF threadVars
  <2>5. QED
    BY <1>3, <2>1, <2>2, <2>3, <2>4 DEF Environment
<1>4. CASE \E t \in Thread : ThreadStep(t)
  BY <1>4, ThreadStepInv
<1>5. CASE UNCHANGED vars
  BY <1>5, PlaceInv DEF vars, threadVars, ServerInv, RoundInv
<1>6. QED
  BY <1>1, <1>2, <1>3, <1>4, <1>5 DEF Next

LEMMA ServerInvariant == Spec => []ServerInv
<1>1. QED
  BY ServerInitInv, ServerNextInv, ThreadInvariant, PTL DEF Spec

(* Types of the threads' and the server's variables (TcpServer.cc,         *)
(* TcpServerSingle.cc, Channel.cc).                                        *)
THEOREM TypeCorrect == Spec => []TypeOK
<1>1. ThreadInv /\ ServerInv => TypeOK
  BY DEF ThreadInv, ServerInv, TypeOK
<1>2. QED
  BY <1>1, ThreadInvariant, ServerInvariant, PTL

(* connections_ holds a connection from its first announcement to its      *)
(* second, whatever user code and the poller do to it afterwards; a third  *)
(* one is made only of a connection that came back to life, through a      *)
(* racing forceClose or by being registered again (TcpServerSingle.cc:     *)
(* 20-38, TcpConnection.cc:195-227, 281-286, EPoller.cc:29-46).            *)
THEOREM ListedWhileUp == Spec => []ListedUntilClosed
<1>1. ServerInv => ListedUntilClosed
  BY DEF ServerInv, MadeInv, ListedUntilClosed, HasEnded
<1>2. QED
  BY <1>1, ServerInvariant, PTL

(* A channel is not handled once its connection is gone, and is not about  *)
(* to be, unless the connection came back to life (Channel.cc:24, 26-36):  *)
(* connections_ holds those still to be handled, the guard the one that is *)
(* being handled.                                                          *)
THEOREM HandledAreAlive == Spec => []ActiveIsAlive
<1>1. ServerInv => ActiveIsAlive
  <2> SUFFICES ASSUME ServerInv PROVE ActiveIsAlive
    OBVIOUS
  <2>1. handling # None => Alive(handling)
    BY DEF ServerInv, RoundInv, Alive
  <2>2. ASSUME NEW c \in active \ {Acceptor} PROVE Alive(c) \/ c \in revived
    <3>1. c \in Conn /\ (told[c] = 1 \/ c \in revived)
      BY DEF ServerInv, ServerType, ActiveInv
    <3>2. threadPc[Home] # "ended"
      BY DEF ServerInv, RoundInv
    <3>3. told[c] = 1 => c \in connections
      BY <3>1, <3>2 DEF ServerInv, MadeInv
    <3>4. QED
      BY <3>1, <3>3 DEF Alive
  <2>3. QED
    BY <2>1, <2>2 DEF ActiveIsAlive
<1>2. QED
  BY <1>1, ServerInvariant, PTL
===============================================================================
