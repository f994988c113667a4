-------------------------- MODULE TcpServerSingle --------------------------
(***************************************************************************)
(* One TcpServerSingle with its Acceptor and its connections, in the       *)
(* thread of its loop: how connections come into being, who refers to      *)
(* them, and when they cease to exist.  What a connection does in between  *)
(* is module TcpConnection.                                                *)
(*                                                                         *)
(* A TcpConnection exists as long as a shared_ptr to it does (Alive): in   *)
(* connections_, in a queued task, in the guard that Channel::handleEvents *)
(* takes from tie_, as the argument of a callback, or with user code.      *)
(* User code runs inside callbacks (arg # None) and calls forceClose,      *)
(* stopRead and startRead there; with a pointer it has kept it calls       *)
(* forceClose in any thread, and drops the pointer there, at any time.     *)
(*                                                                         *)
(* A connection that is closed can come back to life.  Two ways lead to    *)
(* it: another thread's forceClose tests state_ before the close and       *)
(* assigns it afterwards (TcpConnection.cc:197, 199); and a channel that   *)
(* is not registered any more is registered again when it is updated       *)
(* (EPoller.cc:32-36), by disableAll when reading had been stopped, or by  *)
(* a startRead after the close.                                            *)
(***************************************************************************)
EXTENDS Naturals, Sequences, FiniteSets, Functions

CONSTANTS MaxPeer,    \* bound: peers that connect
          MaxFail,    \* bound: failing calls of accept
          MaxConn,    \* bound: both together
          MaxCall,    \* bound: calls of forceClose, stopRead and startRead
          Kept        \* bound: connections that user code calls or keeps

ASSUME ServerAssumption ==
  /\ MaxPeer \in Nat /\ MaxFail \in Nat /\ MaxConn \in Nat /\ MaxCall \in Nat
  /\ Kept \subseteq Nat \ {0}

(* Peers are numbered in the order in which they come.  The connection     *)
(* made of peer p is p; those made of a failed accept, with the descriptor *)
(* -1, follow.                                                             *)
Peer == 1..MaxPeer
Phantom == (MaxPeer + 1)..(MaxPeer + MaxFail)
Conn == Peer \cup Phantom
Acceptor == 0      \* acceptChannel_, among channels
None == 0          \* no connection

VARIABLES
  phase,       \* where loop() is
  listening,   \* the acceptor's socket listens and is polled
  backlog,     \* peers that wait to be accepted
  gone,        \* peers that have ended their connection
  failures,    \* failed calls of accept
  connections, \* connections_
  state,       \* state_ of each connection, "none" before it is made
  told,        \* history: calls of connectionCallback_ for each connection
  reading,     \* whose channel has read events
  stray,       \* closed, and registered with epoll again
  revived,     \* history: came back to life after its close
  active,      \* activeChannels_ still to be handled, in any order
  handling,    \* whose handleEventWithGuard is running
  guard,       \* what its guard refers to
  arg,         \* the argument of the user's callback that is running
  pending,     \* forceClose tasks queued in the loop
  tasks,       \* the local vector of doPendingTasks ...
  due,         \* ... and how many of it are still to run
  held,        \* connections that user code has a pointer to
  testing,     \* in forceClose of another thread, between test and assignment
  calls        \* calls made so far

channelVars == <<reading, stray, revived>>
connVars == <<connections, state, told, channelVars>>
netVars == <<listening, backlog, gone, failures>>
roundVars == <<active, handling, guard>>
taskVars == <<tasks, due>>
userVars == <<held, testing, calls>>
serverVars == <<phase, netVars, connVars, roundVars, arg, pending, taskVars,
                userVars>>

Made == {c \in Conn : state[c] # "none"}

Arrived == Range(backlog) \cup (Made \cap Peer) \cup gone
RoomForMore == Cardinality(Made \cup Arrived) < MaxConn

Alive(c) == c \in connections \cup guard \cup held \cup testing \cup {arg}
                    \cup Range(pending) \cup Range(tasks)

(* Announced as up and not yet as down. *)
Open(c) == told[c] = 1

(* What epoll can report: an open connection, which reads, or writes; and  *)
(* a closed one that is registered again, until its destructor closes the  *)
(* descriptor.  Never the descriptor -1.                                   *)
Polled == {c \in Peer : Open(c) \/ (c \in stray /\ Alive(c))}

(* What it does report.  Without read events it need not: a hang-up is of  *)
(* both directions.                                                        *)
Ready == (Polled \cap reading \cap gone) \cup
         (IF listening /\ backlog # <<>> THEN {Acceptor} ELSE {})

(* An epoll_wait has returned the channel of a connection that exists no   *)
(* more: what handleEvents does with it is undefined, the model ends there.*)
Stale == \E c \in active \ {Acceptor} : ~Alive(c)

ServerInit ==
  /\ phase = "test"
  /\ listening = FALSE /\ backlog = <<>> /\ gone = {} /\ failures = 0
  /\ connections = {}
  /\ state = [c \in Conn |-> "none"]
  /\ told = [c \in Conn |-> 0]
  /\ reading = {} /\ stray = {} /\ revived = {}
  /\ active = {} /\ handling = None /\ guard = {}
  /\ arg = None
  /\ pending = <<>> /\ tasks = <<>> /\ due = 0
  /\ held = {} /\ testing = {} /\ calls = 0

-----------------------------------------------------------------------------
(* Acceptor::listen, through TcpServerSingle::start *)
Listen ==
  /\ listening' = TRUE
  /\ UNCHANGED <<phase, backlog, gone, failures, connVars, roundVars, arg,
                 pending, taskVars, userVars>>

(* quit_ is down, so the loop goes on. *)
Test ==
  /\ phase = "test" /\ phase' = "poll"
  /\ UNCHANGED <<netVars, connVars, roundVars, arg, pending, taskVars, userVars>>

(* epoll_wait returns what is ready, and connections with data or room;    *)
(* or nothing, at a wakeup or when its time is over.                       *)
Poll(some) ==
  /\ phase = "poll" /\ phase' = "round"
  /\ some \subseteq Polled
  /\ active' = Ready \cup some
  /\ UNCHANGED <<netVars, connVars, handling, guard, arg, pending, taskVars, userVars>>

(* newConnection: connectionCallback_ is called at its end. *)
NewConnection(c) ==
  /\ connections' = connections \cup {c}
  /\ state' = [state EXCEPT ![c] = "connected"]
  /\ told' = [told EXCEPT ![c] = @ + 1]
  /\ reading' = reading \cup {c}
  /\ arg' = c
  /\ UNCHANGED <<stray, revived>>

Accept ==
  /\ backlog # <<>>
  /\ NewConnection(Head(backlog))
  /\ backlog' = Tail(backlog)
  /\ UNCHANGED failures

(* accept4 returns -1: the peer has given up (ECONNABORTED), or there are  *)
(* no descriptors (EMFILE).  The callback is made all the same.            *)
AcceptFails ==
  /\ failures < MaxFail /\ RoomForMore
  /\ failures' = failures + 1
  /\ NewConnection(MaxPeer + failures')
  /\ backlog' \in {backlog, Tail(backlog)}

(* Acceptor::handleRead *)
HandleAcceptor ==
  /\ phase = "round" /\ arg = None /\ Acceptor \in active
  /\ active' = active \ {Acceptor}
  /\ Accept \/ AcceptFails
  /\ UNCHANGED <<phase, listening, gone, handling, guard, pending, taskVars, userVars>>

(* Mutant: the channel is not tied to its connection. *)
HandleUntied(c) ==
  /\ phase = "round" /\ arg = None /\ c \in active \ {Acceptor}
  /\ phase' = "handle"
  /\ active' = active \ {c} /\ handling' = c
  /\ UNCHANGED <<netVars, connVars, guard, arg, pending, taskVars, userVars>>

(* Channel::handleEvents.  tie_.lock() cannot fail where the channel, a    *)
(* part of the connection, exists to call it.                              *)
Handle(c) ==
  /\ phase = "round" /\ arg = None /\ c \in active \ {Acceptor}
  /\ Alive(c)
  /\ phase' = "handle"
  /\ active' = active \ {c} /\ handling' = c /\ guard' = {c}
  /\ UNCHANGED <<netVars, connVars, arg, pending, taskVars, userVars>>

(* EventLoop::removeChannel, which is disableAll: what is registered is    *)
(* deleted; what is not, being without events (it does not read, and has   *)
(* nothing to write), is added.                                            *)
RemoveChannel(c) ==
  /\ reading' = reading \ {c}
  /\ \/ /\ Open(c) \/ c \in stray
        /\ stray' = stray \ {c} /\ UNCHANGED revived
     \/ /\ c \notin reading \cup stray
        /\ stray' = stray \cup {c} /\ revived' = revived \cup {c}

(* Mutant: the server keeps what is closed. *)
CloseKeeps(c) ==
  /\ state' = [state EXCEPT ![c] = "disconnected"]
  /\ told' = [told EXCEPT ![c] = @ + 1]
  /\ RemoveChannel(c)
  /\ arg' = c
  /\ UNCHANGED connections

(* TcpConnection::handleClose and closeConnection, which makes the         *)
(* callback at its end.                                                    *)
Close(c) ==
  /\ state' = [state EXCEPT ![c] = "disconnected"]
  /\ RemoveChannel(c)
  /\ connections' = connections \ {c}
  /\ told' = [told EXCEPT ![c] = @ + 1]
  /\ arg' = c

(* Mutant: the end of the peer is only logged. *)
OnEndIgnored ==
  /\ phase = "handle" /\ handling \in gone
  /\ phase' = "handled"
  /\ UNCHANGED <<netVars, connVars, arg, roundVars, pending, taskVars, userVars>>

(* Hung up, or at the end of what the peer has sent. *)
OnEnd ==
  /\ phase = "handle" /\ handling \in gone
  /\ phase' = "handled"
  /\ Close(handling)
  /\ UNCHANGED <<netVars, roundVars, pending, taskVars, userVars>>

(* Other events: user code gets the message; or there is only room, or an  *)
(* error that is only logged.  An end that is not read may go unnoticed.   *)
OnMessage ==
  /\ phase = "handle" /\ handling \notin gone \cap reading
  /\ phase' = "handled"
  /\ arg' \in {handling, None}
  /\ UNCHANGED <<netVars, connVars, roundVars, pending, taskVars, userVars>>

(* The rest of handleEventWithGuard, and the guard is released.            *)
Handled ==
  /\ phase = "handled" /\ arg = None
  /\ phase' = "round"
  /\ handling' = None /\ guard' = {}
  /\ UNCHANGED <<netVars, connVars, active, arg, pending, taskVars, userVars>>

TakeTasks ==
  /\ phase = "round" /\ arg = None /\ active = {}
  /\ phase' = "tasks"
  /\ tasks' = pending /\ due' = Len(pending)
  /\ pending' = <<>>
  /\ UNCHANGED <<netVars, connVars, roundVars, arg, userVars>>

(* Mutant: forceCloseInLoop does not test state_. *)
ClosesAlways(c) == TRUE

ClosesNow(c) == state[c] # "disconnected"

(* forceCloseInLoop.  The vector keeps the task and its pointer.           *)
RunTask ==
  LET c == tasks[Len(tasks) - due + 1]
  IN  /\ phase = "tasks" /\ arg = None /\ due > 0
      /\ due' = due - 1
      /\ IF ClosesNow(c) THEN Close(c) ELSE UNCHANGED <<connVars, arg>>
      /\ UNCHANGED <<phase, netVars, roundVars, pending, tasks, userVars>>

DoneTasks ==
  /\ phase = "tasks" /\ arg = None /\ due = 0
  /\ phase' = "test"
  /\ tasks' = <<>>
  /\ UNCHANGED <<netVars, connVars, roundVars, arg, pending, due, userVars>>

-----------------------------------------------------------------------------
(* User code *)

Keep ==
  /\ arg \in Kept /\ held' = held \cup {arg}
  /\ UNCHANGED <<phase, netVars, connVars, roundVars, arg, pending, taskVars,
                 testing, calls>>

Drop(c) ==
  /\ c \in held /\ held' = held \ {c}
  /\ UNCHANGED <<phase, netVars, connVars, roundVars, arg, pending, taskVars,
                 testing, calls>>

Call == calls < MaxCall /\ calls' = calls + 1

(* The assignment of forceClose, and its task. *)
SetDisconnecting(c) ==
  /\ state' = [state EXCEPT ![c] = "disconnecting"]
  /\ revived' = IF state[c] = "disconnected" THEN revived \cup {c} ELSE revived
  /\ pending' = Append(pending, c)
  /\ UNCHANGED <<phase, netVars, connections, told, reading, stray, roundVars,
                 arg, taskVars, held>>

(* forceClose in a callback: nothing of the loop comes between.            *)
ForceClose(c) ==
  /\ arg # None /\ c \in held \cup {arg}
  /\ state[c] # "disconnected"
  /\ Call /\ SetDisconnecting(c)
  /\ UNCHANGED testing

(* forceClose in another thread: the test, and what follows it.            *)
ForceCloseTest(c) ==
  /\ c \in held \ testing
  /\ state[c] # "disconnected"
  /\ Call /\ testing' = testing \cup {c}
  /\ UNCHANGED <<phase, netVars, connVars, roundVars, arg, pending, taskVars, held>>

ForceCloseSet(c) ==
  /\ c \in testing /\ testing' = testing \ {c}
  /\ SetDisconnecting(c)
  /\ UNCHANGED calls

(* stopRead and startRead in a callback. *)
StopRead(c) ==
  /\ arg # None /\ c \in (held \cup {arg}) \cap reading
  /\ Call
  /\ reading' = reading \ {c} /\ stray' = stray \ {c}
  /\ UNCHANGED <<phase, netVars, connections, state, told, revived, roundVars,
                 arg, pending, taskVars, held, testing>>

StartRead(c) ==
  /\ arg # None /\ c \in (held \cup {arg}) \ reading
  /\ Call
  /\ reading' = reading \cup {c}
  /\ IF Open(c) THEN UNCHANGED <<stray, revived>>
     ELSE stray' = stray \cup {c} /\ revived' = revived \cup {c}
  /\ UNCHANGED <<phase, netVars, connections, state, told, roundVars,
                 arg, pending, taskVars, held, testing>>

Return ==
  /\ arg # None /\ arg' = None
  /\ UNCHANGED <<phase, netVars, connVars, roundVars, pending, taskVars, userVars>>

-----------------------------------------------------------------------------
(* Peers *)

PeerConnects(p) ==
  /\ listening /\ RoomForMore
  /\ p \notin Arrived /\ \A q \in 1..(p - 1) : q \in Arrived
  /\ backlog' = Append(backlog, p)
  /\ UNCHANGED <<phase, listening, gone, failures, connVars, roundVars, arg,
                 pending, taskVars, userVars>>

PeerEnds(p) ==
  /\ p \in (Range(backlog) \cup Polled) \ gone
  /\ gone' = gone \cup {p}
  /\ UNCHANGED <<phase, listening, backlog, failures, connVars, roundVars, arg,
                 pending, taskVars, userVars>>

-----------------------------------------------------------------------------
(* The end of the thread destroys the server, then the loop. *)
DestroyServer ==
  /\ connections' = {} /\ listening' = FALSE /\ backlog' = <<>>
  /\ pending' = <<>>
  /\ UNCHANGED <<phase, gone, failures, state, told, channelVars, roundVars,
                 arg, taskVars, userVars>>

(* What the loop's thread does between two polls.                          *)
BusyStep ==
  \/ HandleAcceptor \/ OnEnd \/ OnMessage \/ Handled
  \/ \E c \in Conn : Handle(c)
  \/ TakeTasks \/ RunTask \/ DoneTasks \/ Return

UserStep ==
  \/ Keep
  \/ \E c \in Kept : \/ ForceClose(c) \/ ForceCloseTest(c) \/ ForceCloseSet(c)
                     \/ StopRead(c) \/ StartRead(c)

PeerStep == \E p \in Peer : PeerConnects(p) \/ PeerEnds(p)

ServerType ==
  /\ phase \in {"test", "poll", "round", "handle", "handled", "tasks"}
  /\ listening \in BOOLEAN
  /\ backlog \in Seq(Peer) /\ gone \subseteq Peer
  /\ failures \in 0..MaxFail
  /\ connections \subseteq Conn
  /\ state \in [Conn -> {"none", "connected", "disconnecting", "disconnected"}]
  /\ told \in [Conn -> Nat]
  /\ reading \subseteq Conn /\ stray \subseteq Conn /\ revived \subseteq Conn
  /\ active \subseteq Conn \cup {Acceptor}
  /\ handling \in Conn \cup {None} /\ guard \subseteq Conn
  /\ arg \in Conn \cup {None}
  /\ pending \in Seq(Conn) /\ tasks \in Seq(Conn)
  /\ due \in 0..Len(tasks)
  /\ held \subseteq Conn /\ testing \subseteq Conn /\ calls \in 0..MaxCall
=============================================================================
