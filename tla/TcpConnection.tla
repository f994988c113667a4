--------------------------- MODULE TcpConnection ---------------------------
(***************************************************************************)
(* One established TcpConnection (TcpConnection.cc) with its Channel, the  *)
(* part of EPoller that registers and reports that channel, the socket     *)
(* below and the peer at its other end.                                    *)
(*                                                                         *)
(* The loop's thread polls, calls the channel's handlers and runs queued   *)
(* tasks; its task queue is the FIFO that module EventLoop is shown to     *)
(* implement.  User code calls the connection from callbacks in the loop's *)
(* thread (loopPc \in InUserCode) and from the threads in User, whose      *)
(* calls are split where another thread can come between.  User code keeps *)
(* its TcpConnectionPtr, so the object outlives its removal from the       *)
(* server.  What it sends is cut into MsgLen parts, so that writes can be  *)
(* short.                                                                  *)
(***************************************************************************)
EXTENDS Naturals, Sequences

CONSTANTS User,       \* threads other than the loop's that hold the connection
          LoopOps,    \* what user code calls in the loop's thread ...
          UserOps,    \* ... and in the threads of User
          Notify,     \* the optional callbacks that are set
          HighWaterMark,
          MsgLen,     \* parts of a message
          MaxSend,    \* bound: messages sent by each actor
          MaxCalls    \* bound: calls of shutdown, forceClose, stopRead, startRead

Op == {"send", "shutdown", "forceClose", "stopRead", "startRead"}
Actor == User \cup {"loop"}
Msg == [by : Actor, n : 1..MaxSend]
Part == [msg : Msg, k : 1..MsgLen]
Task == {<<"send", m>> : m \in Msg} \cup
        {<<t>> : t \in (Op \ {"send"}) \cup {"writeComplete", "highWater"}}

ASSUME UserAssumption == "loop" \notin User
ASSUME OpsAssumption == LoopOps \subseteq Op /\ UserOps \subseteq Op
ASSUME NotifyAssumption == Notify \subseteq {"writeComplete", "highWater"}
ASSUME BoundAssumption ==
  /\ HighWaterMark \in Nat /\ MaxSend \in Nat /\ MaxCalls \in Nat
  /\ MsgLen \in Nat \ {0}

VARIABLES
  loopPc,     \* where the loop's thread is
  userPc,     \* where each thread of User is in a call
  due,        \* how many of pending the current doPendingTasks has taken
  pending,    \* tasks of this connection queued in the loop
  state,      \* state_
  events,     \* channel_.events_: "R" for kReadEvent, "W" for kWriteEvent
  pooling,    \* channel_.pooling_: registered with epoll
  revents,    \* callbacks that handleEventWithGuard still has to make
  outputBuffer,
  wire,       \* parts the kernel has accepted from write(), in order
  localShut,  \* shutdown(SHUT_WR) has succeeded
  peer,       \* "open", "fin" (it has closed its side) or "rst"
  unread,     \* received data not yet read
  soError,    \* error pending on the socket
  nsent,      \* messages sent by each actor
  ncalls,     \* other calls
  asked,      \* history: the kinds of these calls
  accepted,   \* history: messages that passed sendInLoop's test of state_
  closeCalls  \* history: calls of closeCallback_

conn == <<state, events, pooling, outputBuffer, wire, localShut, accepted,
          closeCalls>>
net == <<peer, unread>>
user == <<userPc, nsent, ncalls, asked>>
vars == <<loopPc, userPc, due, pending, state, events, pooling, revents,
          outputBuffer, wire, localShut, peer, unread, soError, nsent, ncalls,
          asked, accepted, closeCalls>>

InUserCode == {"callback", "tasks"}
Idle == [at |-> "idle", op |-> "send"]

Parts(m) == [k \in 1..MsgLen |-> [msg |-> m, k |-> k]]

-----------------------------------------------------------------------------
(* EPoller and the socket. *)

(* Mutant: DEL leaves pooling_ set. *)
UpdateChannelKeepsFlag(ev) ==
  /\ events' = ev
  /\ pooling' = TRUE

(* Channel::update and EPoller::updateChannel: ADD when not registered,    *)
(* whatever the events; otherwise MOD, or DEL when no event is left.       *)
UpdateChannel(ev) ==
  /\ events' = ev
  /\ pooling' = (~pooling \/ ev # {})

UnchangedChannel == UNCHANGED <<events, pooling>>

Readable == unread \/ peer # "open"
HungUp == peer = "rst" \/ (peer = "fin" /\ localShut)
WriteFails == peer = "rst" \/ localShut

(* What epoll_wait reports of the channel, as the callbacks                *)
(* handleEventWithGuard will make of it.  EPOLLHUP and EPOLLERR need not   *)
(* be asked for; "writable" is whether the socket has room.                *)
Report(writable) ==
  LET in  == pooling /\ "R" \in events /\ Readable
      hup == pooling /\ HungUp
      err == pooling /\ soError
      out == pooling /\ "W" \in events /\ (writable \/ WriteFails)
  IN  {c \in {"close", "error", "read", "write"} :
         \/ c = "close" /\ hup /\ ~in
         \/ c = "error" /\ err
         \/ c = "read" /\ in
         \/ c = "write" /\ out}

-----------------------------------------------------------------------------
(* The handlers of TcpConnection that run in the loop's thread.  q is the  *)
(* task queue they append to.                                              *)

Notified(kind, when, q) ==
  IF kind \in Notify /\ when THEN Append(q, <<kind>>) ELSE q

(* sendInLoop past its tests: write() takes some of m, nothing when it     *)
(* fails; the rest is buffered and the channel waits for room.             *)
WriteOrBuffer(m, q) ==
  \E n \in (IF WriteFails THEN {0} ELSE 0..MsgLen) :
    /\ wire' = wire \o SubSeq(Parts(m), 1, n)
    /\ outputBuffer' = outputBuffer \o SubSeq(Parts(m), n + 1, MsgLen)
    /\ IF n = MsgLen
       THEN /\ pending' = Notified("writeComplete", TRUE, q)
            /\ UnchangedChannel
       ELSE /\ pending' = Notified("highWater", HighWaterMark \in 1..(MsgLen - n), q)
            /\ UpdateChannel(events \cup {"W"})

(* Mutant: writes past what is buffered. *)
WritesAlways == state = "connected"

(* Whether sendInLoop writes: connected, and nothing left from before. *)
WritesNow == state = "connected" /\ "W" \notin events /\ outputBuffer = <<>>

(* A message that finds the buffer in use is neither written nor buffered. *)
(* A failing write() takes the socket's pending error, which is any errno  *)
(* (ETIMEDOUT, ECONNRESET, ...), and is EPIPE when there is none.  EPIPE   *)
(* and ECONNRESET drop the message, any other errno buffers it.            *)
SendInLoop(m, q) ==
  /\ accepted' = IF state = "connected" THEN accepted \cup {m} ELSE accepted
  /\ \/ WritesNow /\ (WriteFails => soError) /\ WriteOrBuffer(m, q)
     \/ /\ ~WritesNow \/ WriteFails
        /\ pending' = q /\ UNCHANGED <<outputBuffer, wire>> /\ UnchangedChannel
  /\ soError' = (soError /\ ~WritesNow)
  /\ UNCHANGED <<state, localShut, closeCalls>>

(* Mutant: does not wait for the buffer. *)
ShutdownInLoopAtOnce(s, ev) ==
  localShut' = (localShut \/ (s # "disconnected" /\ peer # "rst"))

(* s and ev are state_ and the channel's events when it is called. *)
ShutdownInLoop(s, ev) ==
  localShut' = (localShut \/ (s # "disconnected" /\ "W" \notin ev /\ peer # "rst"))

HandleClose ==
  /\ state' = "disconnected"
  /\ UpdateChannel({})
  /\ closeCalls' = closeCalls + 1
  /\ UNCHANGED <<outputBuffer, wire, localShut, accepted>>

(* The rest of stopRead and startRead. *)
SetReading(on) ==
  /\ IF on = ("R" \in events)
     THEN UnchangedChannel
     ELSE UpdateChannel(IF on THEN events \cup {"R"} ELSE events \ {"R"})
  /\ UNCHANGED <<state, outputBuffer, wire, localShut, accepted, closeCalls>>

-----------------------------------------------------------------------------
Init ==
  /\ loopPc = "accept"
  /\ userPc = [u \in User |-> Idle]
  /\ due = 0
  /\ pending = <<>>
  /\ state = "connecting"
  /\ events = {} /\ pooling = FALSE /\ revents = {}
  /\ outputBuffer = <<>> /\ wire = <<>>
  /\ localShut = FALSE
  /\ peer = "open" /\ unread = FALSE /\ soError = FALSE
  /\ nsent = [a \in Actor |-> 0]
  /\ ncalls = 0 /\ asked = {} /\ accepted = {} /\ closeCalls = 0

(* connectEstablished, after which the server calls connectionCallback_. *)
ConnectEstablished ==
  /\ loopPc = "accept"
  /\ state' = "connected"
  /\ UpdateChannel(events \cup {"R"})
  /\ loopPc' = "callback"
  /\ UNCHANGED <<due, pending, revents, outputBuffer, wire, localShut, soError,
                 accepted, closeCalls, net, user>>

(* epoll_wait returns; callbacks of other channels come first. *)
Poll(writable) ==
  /\ loopPc = "poll"
  /\ revents' = Report(writable)
  /\ loopPc' = "callback"
  /\ UNCHANGED <<due, pending, soError, conn, net, user>>

ReturnFromCallback ==
  /\ loopPc = "callback"
  /\ loopPc' = "handle"
  /\ UNCHANGED <<due, pending, revents, soError, conn, net, user>>

(* The four callbacks of handleEventWithGuard, in its order.               *)
OnClose ==
  /\ loopPc = "handle" /\ "close" \in revents
  /\ revents' = revents \ {"close"}
  /\ HandleClose
  /\ loopPc' = "callback"
  /\ UNCHANGED <<due, pending, soError, net, user>>

(* handleError: getsockopt(SO_ERROR) clears the error. *)
OnError ==
  /\ loopPc = "handle" /\ "error" \in revents /\ "close" \notin revents
  /\ revents' = revents \ {"error"}
  /\ soError' = FALSE
  /\ UNCHANGED <<loopPc, due, pending, conn, net, user>>

ReadData ==
  /\ unread /\ unread' = FALSE
  /\ loopPc' = "callback"
  /\ UNCHANGED <<soError, conn>>

ReadError ==
  /\ ~unread /\ soError /\ soError' = FALSE
  /\ UNCHANGED <<loopPc, unread, conn>>

(* Mutant: end of file is treated like an error. *)
ReadEndIgnored ==
  /\ ~unread /\ ~soError
  /\ UNCHANGED <<loopPc, unread, soError, conn>>

ReadEnd ==
  /\ ~unread /\ ~soError /\ peer # "open"
  /\ HandleClose
  /\ loopPc' = "callback"
  /\ UNCHANGED <<unread, soError>>

(* handleRead: data goes to messageCallback_, end of file closes, an error *)
(* is only logged.                                                         *)
OnRead ==
  /\ loopPc = "handle" /\ "read" \in revents
  /\ revents \cap {"close", "error"} = {}
  /\ revents' = revents \ {"read"}
  /\ ReadData \/ ReadError \/ ReadEnd
  /\ UNCHANGED <<due, pending, peer, user>>

(* Mutant: a shutdown that waited for the buffer is forgotten. *)
EndOfBufferIgnored == UNCHANGED <<state, localShut>>

(* "state_ = kDisconnecting" (TcpConnection.cc:273) is an assignment, so   *)
(* an emptied buffer always leads to shutdown.                             *)
EndOfBuffer ==
  /\ state' = "disconnecting"
  /\ ShutdownInLoop("disconnecting", events \ {"W"})

WriteBuffered ==
  /\ \E n \in (IF outputBuffer = <<>> THEN {0} ELSE 1..Len(outputBuffer)) :
       /\ wire' = wire \o SubSeq(outputBuffer, 1, n)
       /\ outputBuffer' = SubSeq(outputBuffer, n + 1, Len(outputBuffer))
  /\ IF outputBuffer' = <<>>
     THEN /\ UpdateChannel(events \ {"W"})
          /\ pending' = Notified("writeComplete", TRUE, pending)
          /\ EndOfBuffer
     ELSE UNCHANGED <<state, pending, localShut>> /\ UnchangedChannel
  /\ UNCHANGED <<soError, accepted, closeCalls>>

(* handleWrite.  Reported writable, write() takes something unless it      *)
(* fails, which is only logged.                                            *)
OnWrite ==
  /\ loopPc = "handle" /\ revents = {"write"}
  /\ revents' = {}
  /\ \/ state = "disconnected" /\ UNCHANGED <<pending, soError, conn>>
     \/ state # "disconnected" /\ ~WriteFails /\ WriteBuffered
     \/ /\ state # "disconnected" /\ WriteFails
        /\ soError' = FALSE
        /\ UNCHANGED <<pending, conn>>
  /\ UNCHANGED <<loopPc, due, net, user>>

TakeTasks ==
  /\ loopPc = "handle" /\ revents = {}
  /\ due' = Len(pending)
  /\ loopPc' = "tasks"
  /\ UNCHANGED <<pending, revents, soError, conn, net, user>>

DoneTasks ==
  /\ loopPc = "tasks" /\ due = 0
  /\ loopPc' = "poll"
  /\ UNCHANGED <<due, pending, revents, soError, conn, net, user>>

NextTask(op) == loopPc = "tasks" /\ due > 0 /\ Head(pending)[1] = op

(* The queued halves of the calls. *)
RunSend ==
  /\ NextTask("send")
  /\ SendInLoop(Head(pending)[2], Tail(pending))

RunShutdown ==
  /\ NextTask("shutdown")
  /\ ShutdownInLoop(state, events)
  /\ pending' = Tail(pending)
  /\ UNCHANGED <<state, outputBuffer, wire, soError, accepted, closeCalls>>
  /\ UnchangedChannel

(* Mutants: state_ is not tested again; it is expected to be as before the *)
(* call.                                                                   *)
ClosesAlways == TRUE
ClosesConnected == state = "connected"

(* Whether forceCloseInLoop closes. *)
ClosesNow == state # "disconnected"

RunForceClose ==
  /\ NextTask("forceClose")
  /\ IF ClosesNow THEN HandleClose ELSE UNCHANGED conn
  /\ pending' = Tail(pending)
  /\ UNCHANGED soError

RunReading ==
  /\ \/ NextTask("stopRead") /\ SetReading(FALSE)
     \/ NextTask("startRead") /\ SetReading(TRUE)
  /\ pending' = Tail(pending)
  /\ UNCHANGED soError

(* writeCompleteCallback_ and highWaterMarkCallback_ are user code. *)
RunNotify ==
  /\ NextTask("writeComplete") \/ NextTask("highWater")
  /\ pending' = Tail(pending)
  /\ UNCHANGED <<soError, accepted, conn>>

RunTask ==
  /\ RunSend \/ RunShutdown \/ RunForceClose \/ RunReading \/ RunNotify
  /\ due' = due - 1
  /\ UNCHANGED <<loopPc, revents, net, user>>

-----------------------------------------------------------------------------
(* Calls made by user code in the loop's thread; the handlers run at once. *)

LoopSend ==
  /\ "send" \in LoopOps
  /\ loopPc \in InUserCode
  /\ state = "connected"
  /\ nsent["loop"] < MaxSend
  /\ nsent' = [nsent EXCEPT !["loop"] = @ + 1]
  /\ SendInLoop([by |-> "loop", n |-> nsent["loop"] + 1], pending)
  /\ UNCHANGED <<loopPc, userPc, due, revents, net, ncalls, asked>>

(* Mutant: forceClose does not test state_. *)
PassesForceClose(op) == op = "shutdown" => state = "connected"

(* What a call first asks of state_. *)
Passes(op) ==
  /\ op = "shutdown" => state = "connected"
  /\ op = "forceClose" => state # "disconnected"

CountCall(op) ==
  /\ Passes(op)
  /\ ncalls < MaxCalls
  /\ ncalls' = ncalls + 1
  /\ asked' = asked \cup {op}

LoopShutdown ==
  /\ CountCall("shutdown")
  /\ state' = "disconnecting"
  /\ ShutdownInLoop("disconnecting", events)
  /\ UNCHANGED <<pending, outputBuffer, wire, accepted, closeCalls>>
  /\ UnchangedChannel

LoopForceClose ==
  /\ CountCall("forceClose")
  /\ state' = "disconnecting"
  /\ pending' = Append(pending, <<"forceClose">>)
  /\ UNCHANGED <<outputBuffer, wire, localShut, accepted, closeCalls>>
  /\ UnchangedChannel

LoopSetReading ==
  /\ \/ CountCall("stopRead") /\ SetReading(FALSE)
     \/ CountCall("startRead") /\ SetReading(TRUE)
  /\ UNCHANGED pending

LoopCall ==
  /\ loopPc \in InUserCode
  /\ \/ "shutdown" \in LoopOps /\ LoopShutdown
     \/ "forceClose" \in LoopOps /\ LoopForceClose
     \/ {"stopRead", "startRead"} \subseteq LoopOps /\ LoopSetReading
  /\ UNCHANGED <<loopPc, userPc, due, revents, net, soError, nsent>>

-----------------------------------------------------------------------------
(* Calls made by another thread: the test of state_, the assignment to it  *)
(* and the queueing of the rest are separate steps.                        *)

UserUnchanged ==
  UNCHANGED <<loopPc, due, revents, events, pooling, outputBuffer, wire,
              localShut, soError, accepted, closeCalls, net>>

UserSend(u) ==
  /\ "send" \in UserOps
  /\ userPc[u] = Idle
  /\ state = "connected"
  /\ nsent[u] < MaxSend
  /\ nsent' = [nsent EXCEPT ![u] = @ + 1]
  /\ userPc' = [userPc EXCEPT ![u] = [at |-> "queue", op |-> "send"]]
  /\ UNCHANGED <<pending, state, ncalls, asked>>
  /\ UserUnchanged

UserCall(u, op) ==
  /\ op \in UserOps \ {"send"}
  /\ userPc[u] = Idle
  /\ state # "connecting" /\ Passes(op)
  /\ ncalls < MaxCalls
  /\ ncalls' = ncalls + 1
  /\ userPc' = [userPc EXCEPT ![u] =
       [at |-> IF op \in {"shutdown", "forceClose"} THEN "set" ELSE "queue", op |-> op]]
  /\ UNCHANGED <<pending, state, nsent, asked>>
  /\ UserUnchanged

UserSetState(u) ==
  /\ userPc[u].at = "set"
  /\ state' = "disconnecting"
  /\ userPc' = [userPc EXCEPT ![u].at = "queue"]
  /\ UNCHANGED <<pending, nsent, ncalls, asked>>
  /\ UserUnchanged

UserQueue(u) ==
  /\ userPc[u].at = "queue"
  /\ pending' = Append(pending,
       IF userPc[u].op = "send" THEN <<"send", [by |-> u, n |-> nsent[u]]>>
                                ELSE <<userPc[u].op>>)
  /\ asked' = asked \cup {userPc[u].op}
  /\ userPc' = [userPc EXCEPT ![u] = Idle]
  /\ UNCHANGED <<state, nsent, ncalls>>
  /\ UserUnchanged

-----------------------------------------------------------------------------
(* The peer. *)

NetUnchanged == UNCHANGED <<loopPc, due, pending, revents, conn, user>>

PeerSend ==
  /\ peer = "open" /\ ~unread
  /\ unread' = TRUE
  /\ UNCHANGED <<peer, soError>> /\ NetUnchanged

PeerClose ==
  /\ peer = "open" /\ peer' = "fin"
  /\ UNCHANGED <<unread, soError>> /\ NetUnchanged

PeerReset ==
  /\ peer # "rst" /\ peer' = "rst"
  /\ soError' = TRUE
  /\ UNCHANGED unread /\ NetUnchanged

-----------------------------------------------------------------------------
(* What the loop's thread does when it is not blocked: epoll_wait returns  *)
(* for an event of the channel or because the loop was woken for a task.   *)
LoopStep ==
  \/ \E w \in BOOLEAN : Poll(w) /\ (pending # <<>> \/ Report(w) # {})
  \/ ConnectEstablished \/ ReturnFromCallback
  \/ OnClose \/ OnError \/ OnRead \/ OnWrite
  \/ TakeTasks \/ RunTask \/ DoneTasks

UserStep(u) == UserSetState(u) \/ UserQueue(u)

Next ==
  \/ LoopStep
  \/ \E w \in BOOLEAN : Poll(w)
  \/ LoopSend \/ LoopCall
  \/ \E u \in User : UserSend(u) \/ UserStep(u) \/ \E op \in Op : UserCall(u, op)
  \/ PeerSend \/ PeerClose \/ PeerReset

Spec == Init /\ [][Next]_vars

(* The loop's thread runs, a thread inside a call finishes it, and a peer  *)
(* that does not end the connection goes on reading.                       *)
FairSpec ==
  /\ Spec
  /\ WF_vars(LoopStep)
  /\ \A u \in User : WF_vars(UserStep(u))
  /\ SF_vars(Poll(TRUE) /\ "write" \in Report(TRUE))

-----------------------------------------------------------------------------
(* The type invariant; state_ is kConnecting until connectEstablished and  *)
(* never again (TcpConnection.cc:56-61).                                   *)
TypeOK ==
  /\ loopPc \in InUserCode \cup {"accept", "poll", "handle"}
  /\ userPc \in [User -> [at : {"idle", "set", "queue"}, op : Op]]
  /\ pending \in Seq(Task)
  /\ due \in 0..Len(pending)
  /\ state \in {"connecting", "connected", "disconnecting", "disconnected"}
  /\ events \subseteq {"R", "W"} /\ pooling \in BOOLEAN
  /\ revents \subseteq {"close", "error", "read", "write"}
  /\ outputBuffer \in Seq(Part) /\ wire \in Seq(Part)
  /\ localShut \in BOOLEAN
  /\ peer \in {"open", "fin", "rst"} /\ unread \in BOOLEAN /\ soError \in BOOLEAN
  /\ nsent \in [Actor -> 0..MaxSend]
  /\ ncalls \in 0..MaxCalls
  /\ asked \subseteq Op /\ accepted \subseteq Msg
  /\ closeCalls \in Nat
  /\ state = "connecting" <=> loopPc = "accept"

(* What has been written followed by what is buffered is made of whole     *)
(* messages, none twice, those of one caller in the order of its calls,    *)
(* whatever was written short and whichever thread sent (sendInLoop and    *)
(* handleWrite, TcpConnection.cc:93-148 and 247-280).                      *)
StreamIntact ==
  LET s == wire \o outputBuffer
  IN  \A i \in 1..Len(s) :
        /\ IF i = 1 \/ s[i-1].k = MsgLen
           THEN s[i].k = 1
           ELSE s[i] = [s[i-1] EXCEPT !.k = @ + 1]
        /\ \A j \in 1..(i-1) :
             s[j].msg.by = s[i].msg.by =>
               \/ s[j].msg.n < s[i].msg.n
               \/ s[j].msg = s[i].msg /\ s[j].k < s[i].k

(* Until the connection is closed, it waits for room exactly while         *)
(* something is buffered, so that buffered data is neither forgotten nor   *)
(* busily polled for, and epoll knows the channel exactly while it waits   *)
(* for something (Channel.h:45-49, EPoller.cc:29-48).                      *)
WaitsForRoom ==
  closeCalls = 0 =>
    /\ "W" \in events <=> outputBuffer # <<>>
    /\ pooling <=> events # {}

(* The connection is not half-closed under data that is still buffered     *)
(* (shutdownInLoop, TcpConnection.cc:185-194).                             *)
NoFinBeforeData == closeCalls = 0 /\ localShut => outputBuffer = <<>>

(* closeCallback_ is called once, although handleClose can be reached from *)
(* an event and from a queued forceClose (TcpConnection.cc:205-211,        *)
(* 236-239, 281-286).  A second call needs a closed connection whose       *)
(* state_ has been assigned again, or whose reading has been stopped or    *)
(* started, which registers its channel anew (EPoller.cc:32-36).           *)
CloseOnce ==
  [][closeCalls = 1 /\ closeCalls' = 2 =>
       state # "disconnected" \/ {"stopRead", "startRead"} \cap asked # {}]_vars

(* A closed connection stays kDisconnected but for one race: another       *)
(* thread is in shutdown or forceClose, its test of state_ passed and the  *)
(* assignment still to come (TcpConnection.cc:170-204).                    *)
OnlyARaceRevives ==
  [][state = "disconnected" =>
       state' = "disconnected" \/ \E u \in User : userPc[u].at = "set"]_vars

(* forceClose closes the connection (TcpConnection.cc:195-211). *)
ForceCloseCloses == "forceClose" \in asked ~> closeCalls > 0

(* When the peer closes or resets the connection, it is closed here,       *)
(* unless user code has told it not to read.                               *)
PeerEndCloses ==
  (peer # "open" /\ state # "connecting") ~> (closeCalls > 0 \/ "stopRead" \in asked)

(* After shutdown the half-close is sent, once what is buffered is, unless *)
(* the connection ends first (TcpConnection.cc:170-194, 273-277).          *)
ShutdownHappens == "shutdown" \in asked ~> (localShut \/ closeCalls > 0 \/ peer = "rst")

(* A message that sendInLoop accepts is written, or its rest is buffered   *)
(* (TcpConnection.cc:129), unless the peer is gone.                        *)
AcceptedIsSent ==
  peer # "rst" =>
    \A m \in accepted : LET s == wire \o outputBuffer
                        IN  \E i \in 1..Len(s) : s[i].msg = m

(* A drained buffer cancels the interest in writing and calls back         *)
(* (TcpConnection.cc:263): only shutdown and forceClose end a connection   *)
(* on this side.                                                           *)
OnlyAskedShutdown == localShut => asked \cap {"shutdown", "forceClose"} # {}
=============================================================================
