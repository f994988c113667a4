----------------------------- MODULE TcpClient -----------------------------
(***************************************************************************)
(* A TcpClient with the Connector that tries to connect, the timer that    *)
(* replaces the Connector every three seconds, and the connection that     *)
(* comes of it, in the thread of their loop.                               *)
(*                                                                         *)
(* Objects are created and destroyed as in the code, and descriptors are   *)
(* used again.  A step that uses an object which does not exist sets       *)
(* fault, and there the model ends: the code's behaviour is undefined.     *)
(* The client may be destroyed in whatever callback user code runs in,     *)
(* those that the client, its timer or its connector are in the midst of   *)
(* included.                                                               *)
(***************************************************************************)
EXTENDS Naturals

CONSTANT MaxFd       \* bound: descriptors

ASSUME FdAssumption == MaxFd \in Nat \ {0}

Fd == 1..MaxFd
None == 0

VARIABLES
  phase,      \* where loop() is: "poll", "round" (of active channels),
              \* "tasks"; "timers", before handleRead runs retry();
              \* "answered", in a start() whose connect() is done at once;
              \* "retried", in connectionCallback_ at the end of such a retry();
              \* "announcing", in that of the connector's handleWrite
  client,     \* "new", "started" or "destroyed"
  connected,  \* TcpClient::connected_
  retryTimer, \* whether retryTimer_ is set
  timer,      \* the Timer: "none", "armed" (in timers_), "batch" (in
              \* handleRead's entries) or "deleted"
  expired,    \* the timerfd is readable
  connector,  \* *connector_
  outcome,    \* what has become of its connect(): "wait", "ok" or "error"
  connection, \* the TcpConnection's descriptor, and whether it is open
  refs,       \* who has a shared_ptr to it
  peerGone,   \* its peer has ended it
  active,     \* channels in activeChannels_ still to be handled
  forced,     \* its forceClose task: "none", "pending" or "taken"
  open,       \* open descriptors
  told,       \* history: calls of connectionCallback_
  odd,        \* history: the circumstances that lead to faults
  fault       \* the object whose absence went unnoticed

clientVars == <<client, connected, retryTimer>>
timerVars == <<timer, expired>>
connectorVars == <<connector, outcome>>
connVars == <<connection, refs, peerGone>>
faultVars == <<odd, fault>>
vars == <<phase, clientVars, timerVars, connectorVars, connVars, active, forced,
          open, told, faultVars>>

(* Where a callback, or a task, of user code may be running. *)
InUserCode == phase \in {"round", "tasks", "timers", "retried", "announcing"}

(* at: "idle" before start(), "polled" while its channel is registered, or *)
(* "answered" when it need not be, then "removed"; "gone" when the         *)
(* Connector is destroyed.                                                 *)
Fresh(fd, place) == [fd |-> fd, at |-> place, connected |-> FALSE]

NoConnection == [fd |-> None, open |-> FALSE]

(* Mutant: closes what has been handed over, too. *)
FreedAlways == {connector.fd}

(* What ~Connector closes. *)
Freed == IF connector.connected THEN {} ELSE {connector.fd}

(* A destroyed Connector's channel stays in activeChannels_.               *)
Orphaned(chans) ==
  IF "connector" \in chans THEN (chans \ {"connector"}) \cup {"dead"} ELSE chans

(* c is left with the references rest; it goes with the last of them.      *)
LeaveTo(c, rest) ==
  /\ refs' = rest
  /\ connection' = IF rest = {} THEN NoConnection ELSE c
  /\ open' = IF rest = {} THEN open \ {c.fd} ELSE open

-----------------------------------------------------------------------------
Init ==
  /\ phase = "tasks"
  /\ client = "new" /\ connected = FALSE /\ retryTimer = FALSE
  /\ timer = "none" /\ expired = FALSE
  /\ connector = Fresh(1, "idle") /\ outcome = "wait"
  /\ connection = NoConnection /\ refs = {} /\ peerGone = FALSE
  /\ active = {} /\ forced = "none"
  /\ open = {1}
  /\ told = 0 /\ odd = {} /\ fault = "none"

(* Connector::start when connect() is to be answered later (EINPROGRESS).  *)
ConnectLater(fd) ==
  /\ connector' = Fresh(fd, "polled")
  /\ outcome' = "wait"

(* When connect() succeeds or fails at once, SO_ERROR is 0 and handleWrite *)
(* takes either for success.                                               *)
ConnectAtOnce(fd) ==
  /\ connector' = Fresh(fd, "answered")
  /\ outcome' = "ok"
  /\ phase' = "answered"
  /\ odd' = odd \cup {"immediate"}

(* TcpClient::start, called in the loop's thread, up to handleWrite when   *)
(* the answer is there at once.                                            *)
Start ==
  /\ phase \in {"round", "tasks"} /\ client = "new" /\ connector.at = "idle"
  /\ \/ /\ ConnectAtOnce(connector.fd)
        /\ UNCHANGED <<client, retryTimer, timer>>
     \/ /\ ConnectLater(connector.fd)
        /\ client' = "started" /\ timer' = "armed" /\ retryTimer' = TRUE
        /\ UNCHANGED <<phase, odd>>
  /\ UNCHANGED <<connected, expired, connVars, active, forced, open, told, fault>>

(* cancelTimer(retryTimer_), in the loop's thread, which uses the Timer    *)
(* before it deletes it.                                                   *)
CancelTimer ==
  /\ timer' = "deleted"
  /\ fault' = IF ~retryTimer THEN "nullTimer"
              ELSE IF timer = "deleted" THEN "deadTimer" ELSE fault

(* Mutant: the pointer is not reset. *)
CancelRetryOnly == CancelTimer /\ UNCHANGED retryTimer

CancelRetry == CancelTimer /\ retryTimer' = FALSE

(* newConnection, up to connectionCallback_, where user code may keep the  *)
(* pointer.                                                                *)
NewConnection ==
  /\ connected' = TRUE
  /\ CancelRetry
  /\ connection' = [fd |-> connector.fd, open |-> TRUE]
  /\ refs' \in {{"client"}, {"client", "user"}}
  /\ peerGone' = FALSE
  /\ told' = told + 1

(* Mutant: the channel stays registered. *)
PlaceUnremoved == "polled"

(* removeChannel *)
PlaceRemoved == "removed"

(* Connector::handleWrite, which marks the descriptor as handed over before*)
(* it hands it over.                                                       *)
Connected(yes) ==
  connector' = [connector EXCEPT !.at = PlaceRemoved, !.connected = yes]

(* handleWrite in a start() that was answered at once, in retry() or in    *)
(* TcpClient::start.                                                       *)
AnswerAtOnce ==
  /\ phase = "answered" /\ phase' = "retried"
  /\ Connected(TRUE)
  /\ NewConnection
  /\ UNCHANGED <<client, expired, outcome, active, forced, open, odd>>

-----------------------------------------------------------------------------
(* The loop *)

Poll ==
  /\ phase = "poll" /\ phase' = "round"
  /\ active' = {ch \in {"timer", "connector", "connection"} :
       \/ ch = "timer" /\ expired
       \/ ch = "connector" /\ connector.at = "polled" /\ outcome # "wait"
       \/ ch = "connection" /\ connection.open /\ peerGone}
  /\ UNCHANGED <<clientVars, timerVars, connectorVars, connVars, forced, open,
                 told, faultVars>>

(* TimerQueue::handleRead up to the client's Timer, which getExpired has   *)
(* taken out of timers_; or all of it when the Timer is not there.         *)
TakeTimer ==
  /\ phase = "round" /\ "timer" \in active
  /\ expired' = FALSE
  /\ active' = active \ {"timer"}
  /\ IF timer = "armed"
     THEN phase' = "timers" /\ timer' = "batch"
     ELSE UNCHANGED <<phase, timer>>
  /\ UNCHANGED <<clientVars, connectorVars, connVars, forced, open, told, faultVars>>

(* Mutant: the timer does not repeat. *)
RearmNot == timer' = "deleted"

(* The Timer repeats: it is put back into timers_. *)
Rearm == timer' = "armed"

(* retry(): the new Connector is made before the old one is destroyed.     *)
(* When connect() is answered later, the Timer is then put back.           *)
Retry ==
  \E fd \in Fd \ open :
    /\ open' = (open \cup {fd}) \ Freed
    /\ active' = Orphaned(active)
    /\ \/ /\ ConnectLater(fd)
          /\ phase' = "round" /\ Rearm
          /\ odd' = IF "dead" \in active' THEN odd \cup {"sameRound"} ELSE odd
       \/ ConnectAtOnce(fd) /\ UNCHANGED timer

(* handleRead comes to the Timer; its entries still hold it, whatever the  *)
(* callbacks of other timers before it have done.  retry() does nothing    *)
(* once there is a connection.                                             *)
RunTimer ==
  /\ phase = "timers"
  /\ CASE timer = "deleted" ->
              fault' = "deadTimer"
                /\ UNCHANGED <<phase, timer, connectorVars, active, open, odd>>
       [] timer # "deleted" /\ connected ->
              phase' = "round" /\ Rearm
                /\ UNCHANGED <<connectorVars, active, open, faultVars>>
       [] OTHER -> Retry /\ UNCHANGED fault
  /\ UNCHANGED <<clientVars, expired, connVars, forced, told>>

(* handleRead goes on after a retry() that has made the connection.        *)
EndTimer ==
  /\ phase = "retried"
  /\ IF timer = "deleted"
     THEN fault' = "deadTimer" /\ UNCHANGED <<phase, timer>>
     ELSE phase' = "round" /\ Rearm /\ UNCHANGED fault
  /\ UNCHANGED <<clientVars, expired, connectorVars, connVars, active, forced,
                 open, told, odd>>

(* Connector::handleWrite after EINPROGRESS; an error goes nowhere:        *)
(* TcpClient sets no errorCallback_.                                       *)
HandleConnector ==
  /\ phase = "round" /\ "connector" \in active
  /\ active' = active \ {"connector"}
  /\ Connected(outcome = "ok")
  /\ IF outcome = "ok"
     THEN phase' = "announcing" /\ NewConnection
     ELSE UNCHANGED <<phase, connected, retryTimer, timer, connVars, told, fault>>
  /\ UNCHANGED <<client, expired, outcome, forced, open, odd>>

(* handleEventWithGuard goes on with the connector's channel, which is not *)
(* tied.  Built with assertions, ~Channel has ended the program before, if *)
(* the channel has been destroyed meanwhile.                               *)
EndAnnouncing ==
  /\ phase = "announcing"
  /\ IF connector.at = "gone"
     THEN fault' = "deadChannel" /\ UNCHANGED phase
     ELSE phase' = "round" /\ UNCHANGED fault
  /\ UNCHANGED <<clientVars, timerVars, connectorVars, connVars, active, forced,
                 open, told, odd>>

HandleDead ==
  /\ phase = "round" /\ "dead" \in active
  /\ fault' = "deadChannel"
  /\ UNCHANGED <<phase, clientVars, timerVars, connectorVars, connVars, active,
                 forced, open, told, odd>>

(* TcpConnection::handleClose; closeCallback_ is bound to the client.  who *)
(* gives up its pointer besides the client.                                *)
Close(who) ==
  IF client = "destroyed"
  THEN fault' = "deadClient" /\ UNCHANGED <<connection, refs, open, told>>
  ELSE /\ LeaveTo([connection EXCEPT !.open = FALSE], refs \ ({"client"} \cup who))
       /\ told' = told + 1
       /\ UNCHANGED fault

HandleConnection ==
  /\ phase = "round" /\ "connection" \in active
  /\ active' = active \ {"connection"}
  /\ Close({})
  /\ UNCHANGED <<phase, clientVars, timerVars, connectorVars, peerGone, forced, odd>>

TakeTasks ==
  /\ phase = "round" /\ active = {}
  /\ phase' = "tasks"
  /\ forced' = IF forced = "pending" THEN "taken" ELSE forced
  /\ UNCHANGED <<clientVars, timerVars, connectorVars, connVars, active, open,
                 told, faultVars>>

(* forceCloseInLoop *)
RunForceClose ==
  /\ phase = "tasks" /\ forced = "taken"
  /\ forced' = "none"
  /\ IF connection.open
     THEN Close({"task"})
     ELSE LeaveTo(connection, refs \ {"task"}) /\ UNCHANGED <<told, fault>>
  /\ UNCHANGED <<phase, clientVars, timerVars, connectorVars, peerGone, active, odd>>

DoneTasks ==
  /\ phase = "tasks" /\ forced # "taken"
  /\ phase' = "poll"
  /\ UNCHANGED <<clientVars, timerVars, connectorVars, connVars, active, forced,
                 open, told, faultVars>>

-----------------------------------------------------------------------------
(* User code, in callbacks and in tasks. *)

ForceClose ==
  /\ InUserCode /\ "user" \in refs /\ connection.open
  /\ forced = "none" /\ forced' = "pending"
  /\ refs' = refs \cup {"task"}
  /\ UNCHANGED <<phase, clientVars, timerVars, connectorVars, connection, peerGone,
                 active, open, told, faultVars>>

Drop ==
  /\ "user" \in refs
  /\ LeaveTo(connection, refs \ {"user"})
  /\ UNCHANGED <<phase, clientVars, timerVars, connectorVars, peerGone, active,
                 forced, told, faultVars>>

(* The forceClose of ~TcpClient; a task that is queued already will do.    *)
CloseFromClient ==
  IF connection.open
  THEN /\ forced' = IF forced = "none" THEN "pending" ELSE forced
       /\ refs' = (refs \ {"client"}) \cup {"task"}
  ELSE UNCHANGED <<forced, refs>>

(* ~TcpClient.  The connector goes with it, but its channel may be in      *)
(* activeChannels_, or in the midst of a callback.                         *)
DestroyClient ==
  /\ InUserCode /\ client # "destroyed"
  /\ client' = "destroyed"
  /\ CloseFromClient
  /\ IF retryTimer THEN CancelRetry ELSE UNCHANGED <<timer, retryTimer, fault>>
  /\ connector' = [connector EXCEPT !.at = "gone"]
  /\ open' = open \ Freed
  /\ active' = Orphaned(active)
  /\ odd' = odd \cup (IF "dead" \in active' THEN {"sameRound"} ELSE {})
                \cup (IF connection.open THEN {"destroyedOpen"} ELSE {})
                \cup (IF phase = "timers" THEN {"inBatch"} ELSE {})
                \cup (IF phase = "announcing" THEN {"inCallback"} ELSE {})
  /\ UNCHANGED <<phase, connected, expired, outcome, connection, peerGone, told>>

-----------------------------------------------------------------------------
(* Time, the network and the peer. *)

EnvUnchanged ==
  UNCHANGED <<phase, clientVars, timer, connector, connection, refs, active,
              forced, open, told, faultVars>>

(* Three seconds have passed; the timerfd knows nothing of cancelling.     *)
(* Nothing looks at it until the loop polls, so it may expire just before. *)
Expire ==
  /\ phase = "poll"
  /\ timer # "none" /\ expired' = TRUE
  /\ UNCHANGED <<outcome, peerGone>> /\ EnvUnchanged

Answer(r) ==
  /\ connector.at = "polled" /\ outcome = "wait"
  /\ outcome' = r
  /\ UNCHANGED <<expired, peerGone>> /\ EnvUnchanged

PeerEnds ==
  /\ connection.open /\ peerGone' = TRUE
  /\ UNCHANGED <<expired, outcome>> /\ EnvUnchanged

-----------------------------------------------------------------------------
LoopStep ==
  \/ Poll \/ TakeTimer \/ RunTimer \/ AnswerAtOnce \/ EndTimer
  \/ HandleConnector \/ EndAnnouncing \/ HandleDead \/ HandleConnection
  \/ TakeTasks \/ RunForceClose \/ DoneTasks

Next ==
  /\ fault = "none"
  /\ \/ LoopStep
     \/ Start \/ ForceClose \/ Drop \/ DestroyClient
     \/ Expire \/ PeerEnds \/ \E r \in {"ok", "error"} : Answer(r)

Spec == Init /\ [][Next]_vars

(* The loop runs, time passes, and a peer that is asked again and again    *)
(* accepts once before the three seconds are over.                         *)
FairSpec ==
  /\ Spec
  /\ WF_vars(fault = "none" /\ LoopStep)
  /\ SF_vars(fault = "none" /\ Expire)
  /\ SF_vars(fault = "none" /\ ~expired /\ timer = "armed" /\ Answer("ok"))

-----------------------------------------------------------------------------
ConnectorType ==
  [fd : Fd, at : {"idle", "polled", "answered", "removed", "gone"}, connected : BOOLEAN]
ConnectionType == [fd : Fd \cup {None}, open : BOOLEAN]

(* Types. *)
TypeOK ==
  /\ phase \in {"poll", "round", "tasks", "timers", "answered", "retried", "announcing"}
  /\ client \in {"new", "started", "destroyed"}
  /\ connected \in BOOLEAN /\ retryTimer \in BOOLEAN /\ expired \in BOOLEAN
  /\ timer \in {"none", "armed", "batch", "deleted"}
  /\ connector \in ConnectorType
  /\ outcome \in {"wait", "ok", "error"}
  /\ connection \in ConnectionType
  /\ refs \subseteq {"client", "user", "task"}
  /\ peerGone \in BOOLEAN
  /\ active \subseteq {"timer", "connector", "connection", "dead"}
  /\ forced \in {"none", "pending", "taken"}
  /\ open \subseteq Fd
  /\ told \in Nat
  /\ odd \subseteq {"immediate", "inBatch", "sameRound", "inCallback", "destroyedOpen"}
  /\ fault \in {"none", "nullTimer", "deadTimer", "deadChannel", "deadClient"}

(* The timer, the connector and the client are used only while they exist, *)
(* except in these circumstances: connect() is answered at once; the       *)
(* client is destroyed in another timer's callback while handleRead has    *)
(* yet to run the retry timer; the connector is replaced or destroyed in   *)
(* the round in which connect() is answered; the client is destroyed in    *)
(* the callback that announces the connection, or over a connection that   *)
(* is open (TcpClient.cc:22-27, 42, 52, 63, TimerQueue.cc:86-113,          *)
(* Channel.cc:22-62).                                                      *)
NoStaleUse ==
  /\ fault = "nullTimer" => "immediate" \in odd
  /\ fault = "deadTimer" => "immediate" \in odd \/ "inBatch" \in odd
  /\ fault = "deadChannel" => "sameRound" \in odd \/ "inCallback" \in odd
  /\ fault = "deadClient" => "destroyedOpen" \in odd

(* Every open descriptor has one owner, the connector or the connection,   *)
(* that will close it: none leaks, none is closed twice                    *)
(* (Connector.cc:30-36, 79-81, TcpConnection.cc:51-55).                    *)
FdOwnedOnce ==
  fault = "none" =>
    LET byConnector == IF connector.at = "gone" THEN {} ELSE Freed
        byConnection == IF refs = {} THEN {} ELSE {connection.fd}
    IN  open = byConnector \cup byConnection /\ byConnector \cap byConnection = {}

(* There is one connection, announced once as up and once as down          *)
(* (TcpClient.cc:49-69).                                                   *)
ToldBothEnds ==
  /\ told <= 2
  /\ client # "destroyed" => (told = 1 <=> connection.open)

(* A client that is started goes on trying until it is connected.          *)
RetriesUntilConnected ==
  client = "started" ~> (connected \/ client = "destroyed" \/ fault # "none")
=============================================================================
