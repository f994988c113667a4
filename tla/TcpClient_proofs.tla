--------------------------- MODULE TcpClient_proofs ---------------------------
(***************************************************************************)
(* What TcpClient promises, for any number of descriptors.                 *)
(***************************************************************************)
EXTENDS TcpClient, TLAPS

(* The client's part: its timer runs from start() to the first connection, *)
(* and connected_ is what the connector says.                              *)
ClientInv ==
  /\ retryTimer <=> timer \in {"armed", "batch"}
  /\ retryTimer => client = "started" /\ ~connected
  /\ connector.connected <=> connected
  /\ connector.at = "polled" => retryTimer
  /\ connector.at = "gone" <=> client = "destroyed"
  /\ client = "new" => connector.at \in {"idle", "answered"} /\ ~connected
  /\ connector.at = "answered" => phase = "answered"

(* Where the loop is in the midst of a callback: what that callback still  *)
(* uses is there, or its absence has been explained.                       *)
CallbackInv ==
  /\ phase = "timers" => timer = "batch" \/ (timer = "deleted" /\ "inBatch" \in odd)
  /\ phase = "answered" =>
       "immediate" \in odd /\ connector.at = "answered" /\ ~connected
  /\ phase = "retried" => "immediate" \in odd /\ timer = "deleted"
  /\ phase = "announcing" => connector.at # "gone" \/ "inCallback" \in odd
  /\ timer = "batch" => phase \in {"timers", "answered"}

(* The connection's part: who must still refer to it. *)
ConnectionInv ==
  /\ connected <=> told # 0
  /\ ~connected => refs = {}
  /\ refs = {} <=> connection.fd = None
  /\ connection.open /\ client # "destroyed" => "client" \in refs
  /\ connection.open /\ client = "destroyed" =>
       "task" \in refs /\ "destroyedOpen" \in odd
  /\ "task" \in refs <=> forced # "none"

(* What is about to be handled is there. *)
ActiveInv ==
  /\ phase \in {"poll", "tasks"} => active = {}
  /\ "connector" \in active => connector.at = "polled" /\ outcome # "wait"
  /\ "connection" \in active => connection.open
  /\ "dead" \in active => "sameRound" \in odd \/ phase \in {"answered", "retried"}

(* The inductive invariant. *)
IInv ==
  /\ TypeOK /\ NoStaleUse /\ FdOwnedOnce
  /\ told <= 2 /\ (told = 1 <=> connection.open)
  /\ fault = "none" => ClientInv /\ CallbackInv /\ ConnectionInv /\ ActiveInv

LEMMA InitInv == Init => IInv
<1> SUFFICES ASSUME Init PROVE IInv
  OBVIOUS
<1> USE FdAssumption DEF Init, Fresh, NoConnection, Fd, None
<1>1. TypeOK
  <2>1. 1 \in Fd
    OBVIOUS
  <2>2. QED
    BY <2>1 DEF TypeOK, ConnectorType, ConnectionType
<1>2. NoStaleUse /\ FdOwnedOnce
  BY DEF NoStaleUse, FdOwnedOnce, Freed
<1>3. ClientInv /\ CallbackInv /\ ConnectionInv /\ ActiveInv
  BY DEF ClientInv, CallbackInv, ConnectionInv, ActiveInv
<1>4. QED
  BY <1>1, <1>2, <1>3 DEF IInv

LEMMA FdFacts == None \notin Fd
BY DEF None, Fd

(* What becomes of the two objects, in terms of their fields. *)
LEMMA ConnectorFacts ==
  /\ \A fd \in Fd, p \in {"polled", "answered"} :
       /\ Fresh(fd, p) \in ConnectorType
       /\ Fresh(fd, p).fd = fd /\ Fresh(fd, p).at = p
       /\ Fresh(fd, p).connected = FALSE
  /\ \A c \in ConnectorType, b \in BOOLEAN,
       p \in {"idle", "polled", "answered", "removed", "gone"} :
       /\ c.fd \in Fd /\ c.at \in {"idle", "polled", "answered", "removed", "gone"}
       /\ c.connected \in BOOLEAN
       /\ [c EXCEPT !.at = p] \in ConnectorType
       /\ [c EXCEPT !.at = p, !.connected = b] \in ConnectorType
BY DEF Fresh, ConnectorType

LEMMA ConnectionFacts ==
  /\ NoConnection \in ConnectionType /\ NoConnection.fd = None /\ NoConnection.open = FALSE
  /\ \A fd \in Fd : /\ [fd |-> fd, open |-> TRUE] \in ConnectionType
                     /\ [fd |-> fd, open |-> TRUE].fd = fd
                     /\ [fd |-> fd, open |-> TRUE].open = TRUE
  /\ \A c \in ConnectionType :
       /\ [c EXCEPT !.open = FALSE] \in ConnectionType
       /\ [c EXCEPT !.open = FALSE].fd = c.fd
       /\ [c EXCEPT !.open = FALSE].open = FALSE
BY DEF NoConnection, ConnectionType

LEMMA ConnectType ==
  ASSUME TypeOK, NEW fd \in Fd, ConnectLater(fd) \/ ConnectAtOnce(fd)
  PROVE  connector' \in ConnectorType /\ outcome' \in {"wait", "ok", "error"}
<1>1. Fresh(fd, "polled") \in ConnectorType /\ Fresh(fd, "answered") \in ConnectorType
  BY ConnectorFacts
<1>2. QED
  BY <1>1 DEF ConnectLater, ConnectAtOnce

LEMMA GoneType == TypeOK => [connector EXCEPT !.at = "gone"] \in ConnectorType
BY ConnectorFacts DEF TypeOK

LEMMA RunTimerType == TypeOK /\ RunTimer => TypeOK'
<1> SUFFICES ASSUME TypeOK, RunTimer PROVE TypeOK'
  OBVIOUS
<1>0. UNCHANGED <<client, connected, retryTimer, expired, connection, refs, peerGone,
                  forced, told>>
  BY DEF RunTimer, clientVars, connVars
<1>1. CASE Retry /\ UNCHANGED fault
  <2>1. PICK fd \in Fd \ open :
          /\ open' = (open \cup {fd}) \ Freed
          /\ active' = Orphaned(active)
          /\ \/ /\ ConnectLater(fd)
                /\ phase' = "round" /\ Rearm
                /\ odd' = IF "dead" \in active' THEN odd \cup {"sameRound"} ELSE odd
             \/ ConnectAtOnce(fd) /\ UNCHANGED timer
    BY <1>1 DEF Retry
  <2>2. connector' \in ConnectorType /\ outcome' \in {"wait", "ok", "error"}
    BY <2>1, ConnectType
  <2>3. active' \subseteq {"timer", "connector", "connection", "dead"} /\ open' \subseteq Fd
    BY <2>1 DEF TypeOK, Orphaned
  <2>4. /\ odd' \subseteq {"immediate", "inBatch", "sameRound", "inCallback", "destroyedOpen"}
        /\ phase' \in {"round", "answered"} /\ timer' \in {"none", "armed", "batch", "deleted"}
    BY <2>1 DEF TypeOK, ConnectAtOnce, Rearm
  <2>5. QED
    BY <1>0, <1>1, <2>2, <2>3, <2>4 DEF TypeOK
<1>2. CASE fault' = "deadTimer" /\ UNCHANGED <<phase, timer, connectorVars, active, open, odd>>
  BY <1>0, <1>2 DEF TypeOK, connectorVars
<1>3. CASE phase' = "round" /\ Rearm /\ UNCHANGED <<connectorVars, active, open, faultVars>>
  BY <1>0, <1>3 DEF TypeOK, connectorVars, faultVars, Rearm
<1>4. QED
  BY <1>1, <1>2, <1>3 DEF RunTimer

LEMMA NewConnectionType ==
  ASSUME TypeOK, NewConnection
  PROVE  /\ connection' \in ConnectionType /\ connected' \in BOOLEAN
         /\ refs' \subseteq {"client", "user", "task"} /\ told' \in Nat
         /\ timer' \in {"none", "armed", "batch", "deleted"}
         /\ retryTimer' \in BOOLEAN /\ peerGone' \in BOOLEAN
         /\ fault' \in {"none", "nullTimer", "deadTimer", "deadChannel", "deadClient"}
<1>1. connection' = [fd |-> connector.fd, open |-> TRUE] /\ connector.fd \in Fd
  BY ConnectorFacts DEF TypeOK, NewConnection
<1>2. connection' \in ConnectionType
  BY <1>1, ConnectionFacts
<1>3. /\ connected' = TRUE /\ refs' \subseteq {"client", "user", "task"}
      /\ peerGone' = FALSE /\ told' = told + 1
      /\ timer' = "deleted" /\ retryTimer' = FALSE
      /\ fault' \in {"nullTimer", "deadTimer", fault}
  BY DEF NewConnection, CancelRetry, CancelTimer
<1>4. told' \in Nat
  BY <1>3 DEF TypeOK
<1>5. fault' \in {"none", "nullTimer", "deadTimer", "deadChannel", "deadClient"}
  BY <1>3 DEF TypeOK
<1>6. QED
  BY <1>2, <1>3, <1>4, <1>5

LEMMA AnswerAtOnceType == TypeOK /\ AnswerAtOnce => TypeOK'
<1> SUFFICES ASSUME TypeOK, AnswerAtOnce PROVE TypeOK'
  OBVIOUS
<1>1. connector' \in ConnectorType
  BY ConnectorFacts DEF TypeOK, AnswerAtOnce, Connected, PlaceRemoved
<1>2. NewConnection
  BY DEF AnswerAtOnce
<1>3. UNCHANGED <<client, expired, outcome, active, forced, open, odd>> /\ phase' = "retried"
  BY DEF AnswerAtOnce
<1>4. QED
  BY <1>1, <1>2, <1>3, NewConnectionType DEF TypeOK

LEMMA HandleConnectorType == TypeOK /\ HandleConnector => TypeOK'
<1> SUFFICES ASSUME TypeOK, HandleConnector PROVE TypeOK'
  OBVIOUS
<1>1. connector' \in ConnectorType
  BY ConnectorFacts DEF TypeOK, HandleConnector, Connected, PlaceRemoved
<1>2. /\ UNCHANGED <<client, expired, outcome, forced, open, odd>>
      /\ active' = active \ {"connector"}
  BY DEF HandleConnector
<1>3. CASE phase' = "announcing" /\ NewConnection
  BY <1>1, <1>2, <1>3, NewConnectionType DEF TypeOK
<1>4. CASE UNCHANGED <<phase, connected, retryTimer, timer, connVars, told, fault>>
  BY <1>1, <1>2, <1>4 DEF TypeOK, connVars
<1>5. QED
  BY <1>3, <1>4 DEF HandleConnector

LEMMA CloseType ==
  ASSUME TypeOK, NEW who \in SUBSET {"client", "user", "task"}, Close(who)
  PROVE  /\ connection' \in ConnectionType /\ open' \subseteq Fd
         /\ refs' \subseteq {"client", "user", "task"} /\ told' \in Nat
         /\ fault' \in {"none", "nullTimer", "deadTimer", "deadChannel", "deadClient"}
BY ConnectionFacts DEF TypeOK, Close, LeaveTo

LEMMA HandleConnectionType == TypeOK /\ HandleConnection => TypeOK'
<1> SUFFICES ASSUME TypeOK, HandleConnection PROVE TypeOK'
  OBVIOUS
<1>1. Close({})
  BY DEF HandleConnection
<1>2. QED
  BY <1>1, CloseType
     DEF TypeOK, HandleConnection, clientVars, timerVars, connectorVars

LEMMA RunForceCloseType == TypeOK /\ RunForceClose => TypeOK'
<1> SUFFICES ASSUME TypeOK, RunForceClose PROVE TypeOK'
  OBVIOUS
<1>1. /\ connection' \in ConnectionType /\ open' \subseteq Fd
      /\ refs' \subseteq {"client", "user", "task"} /\ told' \in Nat
      /\ fault' \in {"none", "nullTimer", "deadTimer", "deadChannel", "deadClient"}
  <2>1. CASE Close({"task"})
    BY <2>1, CloseType
  <2>2. CASE LeaveTo(connection, refs \ {"task"}) /\ UNCHANGED <<told, fault>>
    BY <2>2, ConnectionFacts DEF TypeOK, LeaveTo
  <2>3. QED
    BY <2>1, <2>2 DEF RunForceClose
<1>2. QED
  BY <1>1 DEF TypeOK, RunForceClose, clientVars, timerVars, connectorVars

LEMMA StartType == TypeOK /\ Start => TypeOK'
<1> SUFFICES ASSUME TypeOK, Start PROVE TypeOK'
  OBVIOUS
<1>1. connector' \in ConnectorType /\ outcome' \in {"wait", "ok", "error"}
  BY ConnectType, ConnectorFacts DEF TypeOK, Start
<1>2. CASE ConnectAtOnce(connector.fd) /\ UNCHANGED <<client, retryTimer, timer>>
  <2>1. /\ UNCHANGED <<client, connected, retryTimer, timer, expired, connVars, active,
                       forced, open, told, fault>>
        /\ phase' = "answered" /\ odd' = odd \cup {"immediate"}
    BY <1>2 DEF Start, ConnectAtOnce
  <2>2. QED
    BY <1>1, <2>1 DEF TypeOK, connVars
<1>3. CASE /\ client' = "started" /\ timer' = "armed" /\ retryTimer' = TRUE
           /\ UNCHANGED <<phase, odd>>
  <2>1. UNCHANGED <<connected, expired, connVars, active, forced, open, told, fault>>
    BY DEF Start
  <2>2. QED
    BY <1>1, <1>3, <2>1 DEF TypeOK, connVars
<1>4. QED
  BY <1>2, <1>3 DEF Start

LEMMA TakeTimerType == TypeOK /\ TakeTimer => TypeOK'
<1> SUFFICES ASSUME TypeOK, TakeTimer PROVE TypeOK'
  OBVIOUS
<1>1. UNCHANGED <<client, connected, retryTimer, connector, outcome, connection, refs,
                  peerGone, forced, open, told, odd, fault>>
  BY DEF TakeTimer, clientVars, connectorVars, connVars, faultVars
<1>2. expired' \in BOOLEAN
  BY DEF TakeTimer
<1>3. active' \subseteq {"timer", "connector", "connection", "dead"}
  BY DEF TakeTimer, TypeOK
<1>4. /\ phase' \in {"poll", "round", "tasks", "timers", "answered", "retried", "announcing"}
      /\ timer' \in {"none", "armed", "batch", "deleted"}
  BY DEF TakeTimer, TypeOK
<1>5. QED
  BY <1>1, <1>2, <1>3, <1>4 DEF TypeOK

LEMMA NextInv == IInv /\ [Next]_vars => IInv'
<1> SUFFICES ASSUME IInv, [Next]_vars PROVE IInv'
  OBVIOUS
<1> USE FdFacts DEF ConnectorType, ConnectionType, TypeOK, NoStaleUse, FdOwnedOnce, ClientInv, CallbackInv,
        ConnectionInv, ActiveInv, IInv, clientVars, timerVars, connectorVars, connVars,
        faultVars, vars
<1>0. CASE UNCHANGED vars
  BY <1>0 DEF Freed
<1> SUFFICES ASSUME fault = "none", Next PROVE IInv'
  BY <1>0 DEF Next
<1>1. CASE Poll
  BY <1>1 DEF Poll, Freed
<1>2. CASE RunTimer
  <2> USE <1>2 DEF RunTimer, Retry, ConnectLater, ConnectAtOnce, Rearm, Freed, Fresh, Orphaned
  <2>1. TypeOK'
    BY RunTimerType
  <2>2. NoStaleUse'
    OBVIOUS
  <2>3. FdOwnedOnce'
    OBVIOUS
  <2>4. told' <= 2 /\ (told' = 1 <=> connection'.open)
    OBVIOUS
  <2>5. fault' = "none" => ClientInv'
    OBVIOUS
  <2>6. fault' = "none" => ConnectionInv'
    OBVIOUS
  <2>7. fault' = "none" => ActiveInv'
    OBVIOUS
  <2>8. fault' = "none" => CallbackInv'
    OBVIOUS
  <2>9. QED
    BY <2>1, <2>2, <2>3, <2>4, <2>5, <2>6, <2>7, <2>8
<1>3. CASE HandleConnector
  <2> USE <1>3 DEF HandleConnector, Connected, NewConnection, CancelRetry, CancelTimer, PlaceRemoved,
             Freed
  <2>1. TypeOK'
    BY HandleConnectorType
  <2>2. NoStaleUse'
    OBVIOUS
  <2>3. FdOwnedOnce'
    <3>1. CASE outcome = "ok"
      <4>0. connection' = [fd |-> connector.fd, open |-> TRUE] /\ refs' # {} /\ open' = open
        BY <3>1
      <4>1. connection'.fd = connector.fd
        BY <4>0
      <4>2. open = {connector.fd}
        OBVIOUS
      <4>3. connector' = [connector EXCEPT !.at = "removed", !.connected = TRUE]
        BY <3>1
      <4>4. connector'.connected = TRUE /\ connector'.at = "removed"
        BY <4>3
      <4>5. QED
        BY <4>0, <4>1, <4>2, <4>4
    <3>2. CASE outcome # "ok"
      BY <3>2
    <3>3. QED
      BY <3>1, <3>2
  <2>4. told' <= 2 /\ (told' = 1 <=> connection'.open)
    <3>1. CASE outcome = "ok"
      BY <3>1
    <3>2. CASE outcome # "ok"
      BY <3>2
    <3>3. QED
      BY <3>1, <3>2
  <2>5. fault' = "none" => ClientInv'
    OBVIOUS
  <2>6. fault' = "none" => ConnectionInv'
    <3>1. CASE outcome = "ok"
      BY <3>1
    <3>2. CASE outcome # "ok"
      BY <3>2
    <3>3. QED
      BY <3>1, <3>2
  <2>7. fault' = "none" => ActiveInv'
    OBVIOUS
  <2>8. fault' = "none" => CallbackInv'
    OBVIOUS
  <2>9. QED
    BY <2>1, <2>2, <2>3, <2>4, <2>5, <2>6, <2>7, <2>8
<1>4. CASE HandleDead
  BY <1>4 DEF HandleDead, Freed
<1>5. CASE HandleConnection
  <2> USE <1>5 DEF HandleConnection, Close, LeaveTo, NoConnection, Freed
  <2>1. TypeOK'
    BY HandleConnectionType
  <2>2. NoStaleUse'
    OBVIOUS
  <2>3. FdOwnedOnce'
    OBVIOUS
  <2>4. told' <= 2 /\ (told' = 1 <=> connection'.open)
    OBVIOUS
  <2>5. fault' = "none" => ClientInv'
    OBVIOUS
  <2>6. fault' = "none" => ConnectionInv'
    OBVIOUS
  <2>7. fault' = "none" => ActiveInv'
    OBVIOUS
  <2>8. fault' = "none" => CallbackInv'
    OBVIOUS
  <2>9. QED
    BY <2>1, <2>2, <2>3, <2>4, <2>5, <2>6, <2>7, <2>8
<1>6. CASE TakeTasks
  BY <1>6 DEF TakeTasks, Freed
<1>7. CASE RunForceClose
  <2> USE <1>7 DEF RunForceClose, Close, LeaveTo, NoConnection, Freed
  <2>1. TypeOK'
    BY RunForceCloseType
  <2>2. NoStaleUse'
    OBVIOUS
  <2>3. FdOwnedOnce'
    OBVIOUS
  <2>4. told' <= 2 /\ (told' = 1 <=> connection'.open)
    OBVIOUS
  <2>5. fault' = "none" => ClientInv'
    OBVIOUS
  <2>6. fault' = "none" => ConnectionInv'
    OBVIOUS
  <2>7. fault' = "none" => ActiveInv'
    OBVIOUS
  <2>8. fault' = "none" => CallbackInv'
    OBVIOUS
  <2>9. QED
    BY <2>1, <2>2, <2>3, <2>4, <2>5, <2>6, <2>7, <2>8
<1>8. CASE DoneTasks
  BY <1>8 DEF DoneTasks, Freed
<1>9. CASE Start
  <2> USE <1>9 DEF Start, ConnectLater, ConnectAtOnce, Fresh, Freed
  <2>1. TypeOK'
    BY StartType
  <2>2. NoStaleUse'
    OBVIOUS
  <2>3. FdOwnedOnce'
    OBVIOUS
  <2>4. told' <= 2 /\ (told' = 1 <=> connection'.open)
    OBVIOUS
  <2>5. fault' = "none" => ClientInv'
    OBVIOUS
  <2>6. fault' = "none" => ConnectionInv'
    OBVIOUS
  <2>7. fault' = "none" => ActiveInv'
    OBVIOUS
  <2>8. fault' = "none" => CallbackInv'
    OBVIOUS
  <2>9. QED
    BY <2>1, <2>2, <2>3, <2>4, <2>5, <2>6, <2>7, <2>8
<1>10. CASE ForceClose
  BY <1>10 DEF ForceClose, Freed
<1>11. CASE Drop
  BY <1>11 DEF Drop, LeaveTo, NoConnection, Freed
<1>12. CASE DestroyClient
  <2> USE <1>12 DEF DestroyClient, CloseFromClient, CancelRetry, CancelTimer, Orphaned, Freed, InUserCode
  <2>1. TypeOK'
    <3>1. connector' \in ConnectorType
      <4>1. connector' = [connector EXCEPT !.at = "gone"]
        OBVIOUS
      <4>2. TypeOK
        OBVIOUS
      <4> HIDE DEF ConnectorType, TypeOK, DestroyClient, ClientInv, CallbackInv,
               ConnectionInv, ActiveInv, IInv
      <4>3. QED
        BY <4>1, <4>2, GoneType
    <3>2. UNCHANGED <<phase, connected, expired, outcome, connection, peerGone, told>>
      OBVIOUS
    <3>3. /\ client' = "destroyed" /\ retryTimer' = FALSE
          /\ timer' \in {"none", "armed", "batch", "deleted"} /\ forced' \in {"none", "pending", "taken"}
          /\ refs' \subseteq {"client", "user", "task"} /\ open' \subseteq Fd
      OBVIOUS
    <3>4. /\ active' \subseteq {"timer", "connector", "connection", "dead"}
          /\ odd' \subseteq {"immediate", "inBatch", "sameRound", "inCallback", "destroyedOpen"}
          /\ fault' \in {"none", "nullTimer", "deadTimer", "deadChannel", "deadClient"}
      OBVIOUS
    <3> HIDE DEF DestroyClient, ClientInv, CallbackInv, ConnectionInv, ActiveInv, FdOwnedOnce, NoStaleUse
    <3>5. QED
      BY <3>1, <3>2, <3>3, <3>4
  <2>2. NoStaleUse'
    OBVIOUS
  <2>3. FdOwnedOnce'
    OBVIOUS
  <2>4. told' <= 2 /\ (told' = 1 <=> connection'.open)
    OBVIOUS
  <2>5. fault' = "none" => ClientInv'
    OBVIOUS
  <2>6. fault' = "none" => ConnectionInv'
    OBVIOUS
  <2>7. fault' = "none" => ActiveInv'
    OBVIOUS
  <2>8. fault' = "none" => CallbackInv'
    OBVIOUS
  <2>9. QED
    BY <2>1, <2>2, <2>3, <2>4, <2>5, <2>6, <2>7, <2>8
<1>13. CASE Expire
  BY <1>13 DEF Expire, EnvUnchanged, Freed
<1>14. CASE PeerEnds
  BY <1>14 DEF PeerEnds, EnvUnchanged, Freed
<1>15. CASE \E r \in {"ok", "error"} : Answer(r)
  BY <1>15 DEF Answer, EnvUnchanged, Freed
<1>16. CASE TakeTimer
  <2> USE <1>16 DEF TakeTimer, Freed
  <2>1. TypeOK'
    BY TakeTimerType
  <2>2. NoStaleUse'
    OBVIOUS
  <2>3. FdOwnedOnce'
    OBVIOUS
  <2>4. told' <= 2 /\ (told' = 1 <=> connection'.open)
    OBVIOUS
  <2>5. fault' = "none" => ClientInv'
    OBVIOUS
  <2>6. fault' = "none" => ConnectionInv'
    OBVIOUS
  <2>7. fault' = "none" => ActiveInv'
    OBVIOUS
  <2>8. fault' = "none" => CallbackInv'
    OBVIOUS
  <2>9. QED
    BY <2>1, <2>2, <2>3, <2>4, <2>5, <2>6, <2>7, <2>8
<1>17. CASE AnswerAtOnce
  <2> USE <1>17 DEF AnswerAtOnce, Connected, NewConnection, CancelRetry, CancelTimer,
             PlaceRemoved, Freed
  <2>1. TypeOK'
    BY AnswerAtOnceType
  <2>2. NoStaleUse'
    OBVIOUS
  <2>3. FdOwnedOnce'
    OBVIOUS
  <2>4. told' <= 2 /\ (told' = 1 <=> connection'.open)
    OBVIOUS
  <2>5. fault' = "none" => ClientInv'
    OBVIOUS
  <2>6. fault' = "none" => ConnectionInv'
    OBVIOUS
  <2>7. fault' = "none" => ActiveInv'
    OBVIOUS
  <2>8. fault' = "none" => CallbackInv'
    OBVIOUS
  <2>9. QED
    BY <2>1, <2>2, <2>3, <2>4, <2>5, <2>6, <2>7, <2>8
<1>18. CASE EndTimer
  BY <1>18 DEF EndTimer, Rearm, Freed
<1>19. CASE EndAnnouncing
  BY <1>19 DEF EndAnnouncing, Freed
<1>20. QED
  BY <1>1, <1>2, <1>3, <1>4, <1>5, <1>6, <1>7, <1>8, <1>9, <1>10, <1>11, <1>12, <1>13,
     <1>14, <1>15, <1>16, <1>17, <1>18, <1>19
     DEF Next, LoopStep

LEMMA Invariance == Spec => []IInv
<1>1. QED
  BY InitInv, NextInv, PTL DEF Spec

(* Types of the client's variables (TcpClient.h, Connector.h). *)
THEOREM TypeCorrect == Spec => []TypeOK
<1>1. IInv => TypeOK
  BY DEF IInv
<1>2. QED
  BY <1>1, Invariance, PTL

(* The timer, the connector and the client are used only while they exist, *)
(* but for the circumstances that NoStaleUse names, although the client    *)
(* may be destroyed in any callback, those of its own timer's batch and of *)
(* its connector's channel included (TcpClient.cc:22-27, 42, 52, 63,       *)
(* TimerQueue.cc:86-113, Channel.cc:22-62).                                *)
THEOREM StaleOnlyThen == Spec => []NoStaleUse
<1>1. IInv => NoStaleUse
  BY DEF IInv
<1>2. QED
  BY <1>1, Invariance, PTL

(* No descriptor leaks, and none is closed twice (Connector.cc:30-36,      *)
(* 79-81, TcpConnection.cc:51-55).                                         *)
THEOREM DescriptorsOwned == Spec => []FdOwnedOnce
<1>1. IInv => FdOwnedOnce
  BY DEF IInv
<1>2. QED
  BY <1>1, Invariance, PTL

(* The connection is announced as up when it opens and as down when it     *)
(* closes, once each (TcpClient.cc:49-69).                                 *)
THEOREM AnnouncedTwice == Spec => []ToldBothEnds
<1>1. IInv => ToldBothEnds
  BY DEF IInv, ToldBothEnds
<1>2. QED
  BY <1>1, Invariance, PTL
===============================================================================
