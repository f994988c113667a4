------------------------ MODULE TcpConnection_proofs ------------------------
(***************************************************************************)
(* What one TcpConnection promises, for any threads, any calls they make   *)
(* and messages of any length.                                             *)
(***************************************************************************)
EXTENDS TcpConnection, SequenceTheorems, TLAPS

(* A call in progress came after connectEstablished; only shutdown and     *)
(* forceClose assign state_; a message that is about to be queued has been *)
(* counted.                                                                *)
CallInv ==
  \A u \in User :
    /\ userPc[u].at # "idle" => state # "connecting"
    /\ userPc[u].at = "set" => userPc[u].op \in {"shutdown", "forceClose"}
    /\ userPc[u].at = "queue" /\ userPc[u].op = "send" => nsent[u] > 0

TypeInv == TypeOK /\ CallInv

-----------------------------------------------------------------------------
(* The operators the actions are built from. *)

LEMMA TaskFacts ==
  /\ \A m \in Msg : <<"send", m>> \in Task
  /\ \A op \in Op \ {"send"} : <<op>> \in Task
  /\ <<"writeComplete">> \in Task /\ <<"highWater">> \in Task
  /\ \A t \in Task : t[1] = "send" => t[2] \in Msg /\ t = <<"send", t[2]>>
<1>1. ASSUME NEW t \in Task, t[1] = "send"
      PROVE  t[2] \in Msg /\ t = <<"send", t[2]>>
  <2>1. CASE \E m \in Msg : t = <<"send", m>>
    BY <2>1
  <2>2. CASE \E o \in (Op \ {"send"}) \cup {"writeComplete", "highWater"} : t = <<o>>
    BY <1>1, <2>2
  <2>3. QED
    BY <2>1, <2>2 DEF Task
<1>2. QED
  BY <1>1 DEF Task

LEMMA NotifiedType ==
  ASSUME NEW kind \in {"writeComplete", "highWater"}, NEW when \in BOOLEAN,
         NEW q \in Seq(Task)
  PROVE  /\ Notified(kind, when, q) \in Seq(Task)
         /\ Len(q) <= Len(Notified(kind, when, q))
<1>1. <<kind>> \in Task
  BY TaskFacts
<1>2. QED
  BY <1>1, AppendProperties, LenProperties DEF Notified

LEMMA UpdateChannelType ==
  ASSUME NEW ev \in SUBSET {"R", "W"}, pooling \in BOOLEAN, UpdateChannel(ev)
  PROVE  events' \subseteq {"R", "W"} /\ pooling' \in BOOLEAN
BY DEF UpdateChannel

LEMMA PartsType ==
  ASSUME NEW m \in Msg
  PROVE  Parts(m) \in Seq(Part) /\ Len(Parts(m)) = MsgLen /\ MsgLen \in Nat \ {0}
<1>1. Parts(m) \in [1..MsgLen -> Part]
  BY DEF Parts, Part
<1>2. QED
  BY <1>1, BoundAssumption

LEMMA PieceType ==
  ASSUME NEW s \in Seq(Part), NEW i \in Nat \ {0}, NEW j \in Nat, j <= Len(s)
  PROVE  SubSeq(s, i, j) \in Seq(Part)
<1>1. \A k \in i..j : s[k] \in Part
  BY LenProperties, ElementOfSeq
<1>2. QED
  BY <1>1, SubSeqProperties

(* The message is cut in two, one piece for the wire and one to wait. *)
LEMMA WriteOrBufferCut ==
  ASSUME NEW m, NEW q, WriteOrBuffer(m, q)
  PROVE  \E n \in 0..MsgLen :
           /\ wire' = wire \o SubSeq(Parts(m), 1, n)
           /\ outputBuffer' = outputBuffer \o SubSeq(Parts(m), n + 1, MsgLen)
           /\ IF n = MsgLen
              THEN /\ pending' = Notified("writeComplete", TRUE, q)
                   /\ UnchangedChannel
              ELSE /\ pending' = Notified("highWater", HighWaterMark \in 1..(MsgLen - n), q)
                   /\ UpdateChannel(events \cup {"W"})
<1>1. PICK n \in (IF WriteFails THEN {0} ELSE 0..MsgLen) :
        /\ wire' = wire \o SubSeq(Parts(m), 1, n)
        /\ outputBuffer' = outputBuffer \o SubSeq(Parts(m), n + 1, MsgLen)
        /\ IF n = MsgLen
           THEN /\ pending' = Notified("writeComplete", TRUE, q)
                /\ UnchangedChannel
           ELSE /\ pending' = Notified("highWater", HighWaterMark \in 1..(MsgLen - n), q)
                /\ UpdateChannel(events \cup {"W"})
  BY DEF WriteOrBuffer
<1>2. n \in 0..MsgLen
  BY BoundAssumption
<1>3. QED
  BY <1>1, <1>2

LEMMA WriteOrBufferType ==
  ASSUME TypeOK, NEW m \in Msg, NEW q \in Seq(Task), WriteOrBuffer(m, q)
  PROVE  /\ pending' \in Seq(Task) /\ Len(q) <= Len(pending')
         /\ events' \subseteq {"R", "W"} /\ pooling' \in BOOLEAN
         /\ outputBuffer' \in Seq(Part) /\ wire' \in Seq(Part)
<1>1. PICK n \in 0..MsgLen :
        /\ wire' = wire \o SubSeq(Parts(m), 1, n)
        /\ outputBuffer' = outputBuffer \o SubSeq(Parts(m), n + 1, MsgLen)
        /\ IF n = MsgLen
           THEN /\ pending' = Notified("writeComplete", TRUE, q)
                /\ UnchangedChannel
           ELSE /\ pending' = Notified("highWater", HighWaterMark \in 1..(MsgLen - n), q)
                /\ UpdateChannel(events \cup {"W"})
  BY WriteOrBufferCut
<1>2. SubSeq(Parts(m), 1, n) \in Seq(Part) /\ SubSeq(Parts(m), n + 1, MsgLen) \in Seq(Part)
  BY PartsType, PieceType
<1>3. outputBuffer' \in Seq(Part) /\ wire' \in Seq(Part)
  BY <1>1, <1>2, ConcatProperties DEF TypeOK
<1>4. pending' \in Seq(Task) /\ Len(q) <= Len(pending')
  <2>1. (HighWaterMark \in 1..(MsgLen - n)) \in BOOLEAN
    OBVIOUS
  <2>2. CASE n = MsgLen
    BY <1>1, <2>2, NotifiedType
  <2>3. CASE n # MsgLen
    <3>1. pending' = Notified("highWater", HighWaterMark \in 1..(MsgLen - n), q)
      BY <1>1, <2>3
    <3>2. QED
      BY <2>1, <3>1, NotifiedType
  <2>4. QED
    BY <2>2, <2>3
<1>5. events' \subseteq {"R", "W"} /\ pooling' \in BOOLEAN
  BY <1>1, UpdateChannelType DEF TypeOK, UnchangedChannel
<1>6. QED
  BY <1>3, <1>4, <1>5

LEMMA SendInLoopType ==
  ASSUME TypeOK, NEW m \in Msg, NEW q \in Seq(Task), SendInLoop(m, q)
  PROVE  /\ pending' \in Seq(Task) /\ Len(q) <= Len(pending')
         /\ events' \subseteq {"R", "W"} /\ pooling' \in BOOLEAN
         /\ outputBuffer' \in Seq(Part) /\ wire' \in Seq(Part)
         /\ accepted' \subseteq Msg /\ soError' \in BOOLEAN
         /\ UNCHANGED <<state, localShut, closeCalls>>
<1>1. accepted' \subseteq Msg /\ soError' \in BOOLEAN /\ UNCHANGED <<state, localShut, closeCalls>>
  BY DEF SendInLoop, TypeOK, WritesNow
<1>2. CASE WriteOrBuffer(m, q)
  BY <1>1, <1>2, WriteOrBufferType
<1>3. CASE pending' = q /\ UNCHANGED <<outputBuffer, wire, events, pooling>>
  BY <1>1, <1>3, LenProperties DEF TypeOK
<1>4. QED
  BY <1>2, <1>3 DEF SendInLoop, UnchangedChannel

LEMMA WriteBufferedType ==
  ASSUME TypeOK, WriteBuffered
  PROVE  /\ pending' \in Seq(Task) /\ Len(pending) <= Len(pending')
         /\ events' \subseteq {"R", "W"} /\ pooling' \in BOOLEAN
         /\ outputBuffer' \in Seq(Part) /\ wire' \in Seq(Part)
         /\ state' \in {state, "disconnecting"} /\ localShut' \in BOOLEAN
         /\ UNCHANGED <<soError, accepted, closeCalls>>
<1>1. PICK n \in (IF outputBuffer = <<>> THEN {0} ELSE 1..Len(outputBuffer)) :
        /\ wire' = wire \o SubSeq(outputBuffer, 1, n)
        /\ outputBuffer' = SubSeq(outputBuffer, n + 1, Len(outputBuffer))
  BY DEF WriteBuffered
<1>2. n \in 0..Len(outputBuffer) /\ Len(outputBuffer) \in Nat
  BY <1>1, LenProperties DEF TypeOK
<1>3. /\ SubSeq(outputBuffer, 1, n) \in Seq(Part)
      /\ SubSeq(outputBuffer, n + 1, Len(outputBuffer)) \in Seq(Part)
  BY <1>2, PieceType DEF TypeOK
<1>4. outputBuffer' \in Seq(Part) /\ wire' \in Seq(Part)
  BY <1>1, <1>3, ConcatProperties DEF TypeOK
<1>5. UNCHANGED <<soError, accepted, closeCalls>>
  BY DEF WriteBuffered
<1>6. CASE outputBuffer' = <<>>
  <2>1. /\ UpdateChannel(events \ {"W"})
        /\ pending' = Notified("writeComplete", TRUE, pending)
        /\ EndOfBuffer
    BY <1>6 DEF WriteBuffered
  <2>2. pending' \in Seq(Task) /\ Len(pending) <= Len(pending')
    BY <2>1, NotifiedType DEF TypeOK
  <2>3. events' \subseteq {"R", "W"} /\ pooling' \in BOOLEAN
    BY <2>1, UpdateChannelType DEF TypeOK
  <2>4. state' = "disconnecting" /\ localShut' \in BOOLEAN
    BY <2>1 DEF EndOfBuffer, ShutdownInLoop, TypeOK
  <2>5. QED
    BY <1>4, <1>5, <2>2, <2>3, <2>4
<1>7. CASE outputBuffer' # <<>>
  <2>1. UNCHANGED <<state, pending, localShut, events, pooling>>
    BY <1>7 DEF WriteBuffered, UnchangedChannel
  <2>2. QED
    BY <1>4, <1>5, <2>1, LenProperties DEF TypeOK
<1>8. QED
  BY <1>6, <1>7

LEMMA HandleCloseType ==
  ASSUME TypeOK, HandleClose
  PROVE  /\ state' = "disconnected" /\ closeCalls' = closeCalls + 1 /\ closeCalls' \in Nat
         /\ events' = {} /\ pooling' = ~pooling
         /\ UNCHANGED <<outputBuffer, wire, localShut, accepted>>
BY DEF HandleClose, UpdateChannel, TypeOK

LEMMA SetReadingType ==
  ASSUME TypeOK, NEW on \in BOOLEAN, SetReading(on)
  PROVE  /\ events' \subseteq {"R", "W"} /\ pooling' \in BOOLEAN
         /\ UNCHANGED <<state, outputBuffer, wire, localShut, accepted, closeCalls>>
<1>1. UNCHANGED <<state, outputBuffer, wire, localShut, accepted, closeCalls>>
  BY DEF SetReading
<1>2. CASE on = ("R" \in events)
  BY <1>1, <1>2 DEF SetReading, UnchangedChannel, TypeOK
<1>3. CASE on # ("R" \in events)
  <2>1. UpdateChannel(IF on THEN events \cup {"R"} ELSE events \ {"R"})
    BY <1>3 DEF SetReading
  <2>2. QED
    BY <1>1, <2>1, UpdateChannelType DEF TypeOK
<1>4. QED
  BY <1>2, <1>3

LEMMA ReportType == \A w \in BOOLEAN : Report(w) \subseteq {"close", "error", "read", "write"}
BY DEF Report

-----------------------------------------------------------------------------
(* Type correctness. *)

LEMMA InitType == Init => TypeInv
<1> SUFFICES ASSUME Init PROVE TypeInv
  OBVIOUS
<1>1. /\ userPc \in [User -> [at : {"idle", "set", "queue"}, op : Op]]
      /\ \A u \in User : userPc[u].at = "idle"
  BY DEF Init, Idle, Op
<1>2. nsent \in [Actor -> 0..MaxSend] /\ ncalls \in 0..MaxCalls
  BY BoundAssumption DEF Init
<1>3. pending = <<>> /\ pending \in Seq(Task) /\ due \in 0..Len(pending)
  BY DEF Init
<1>4. outputBuffer \in Seq(Part) /\ wire \in Seq(Part) /\ closeCalls \in Nat
  BY DEF Init
<1>5. TypeOK
  BY <1>1, <1>2, <1>3, <1>4 DEF Init, TypeOK, InUserCode
<1>6. QED
  BY <1>1, <1>5 DEF TypeInv, CallInv

(* A step that leaves the callers' part alone. *)
LEMMA CallInvKept ==
  ASSUME TypeInv, UNCHANGED user, state = "connecting" \/ state' # "connecting"
  PROVE  CallInv'
BY DEF TypeInv, CallInv, user

(* What holds after a step of the connection that leaves the callers' part *)
(* and the peer alone.                                                     *)
LEMMA LoopType ==
  ASSUME TypeInv,
         loopPc' \in {"callback", "tasks", "poll", "handle"}, state' # "connecting",
         state' \in {"connected", "disconnecting", "disconnected"},
         pending' \in Seq(Task), due' \in 0..Len(pending'),
         events' \subseteq {"R", "W"}, pooling' \in BOOLEAN,
         revents' \subseteq {"close", "error", "read", "write"},
         outputBuffer' \in Seq(Part), wire' \in Seq(Part),
         localShut' \in BOOLEAN, soError' \in BOOLEAN,
         accepted' \subseteq Msg, closeCalls' \in Nat,
         unread' \in BOOLEAN, UNCHANGED <<peer, user>>
  PROVE  TypeInv'
<1>1. CallInv'
  BY CallInvKept
<1>2. TypeOK'
  BY DEF TypeInv, TypeOK, user, InUserCode
<1>3. QED
  BY <1>1, <1>2 DEF TypeInv

LEMMA NotAccepting ==
  ASSUME TypeInv, loopPc # "accept"
  PROVE  /\ state # "connecting"
         /\ state \in {"connected", "disconnecting", "disconnected"}
BY DEF TypeInv, TypeOK

LEMMA LoopStepType ==
  ASSUME TypeInv,
         \/ \E w \in BOOLEAN : Poll(w)
         \/ ConnectEstablished \/ ReturnFromCallback
         \/ OnClose \/ OnError \/ OnRead \/ OnWrite \/ TakeTasks \/ DoneTasks
  PROVE  TypeInv'
<1> USE DEF TypeInv
<1>0. Len(pending) \in Nat /\ due \in 0..Len(pending)
  BY LenProperties DEF TypeOK
<1>1. CASE \E w \in BOOLEAN : Poll(w)
  <2>1. PICK w \in BOOLEAN : Poll(w)
    BY <1>1
  <2>2. revents' \subseteq {"close", "error", "read", "write"}
    BY <2>1, ReportType DEF Poll
  <2>3. QED
    BY <2>1, <2>2, LoopType, NotAccepting DEF Poll, TypeOK, conn, net
<1>2. CASE ConnectEstablished
  <2>1. events' \subseteq {"R", "W"} /\ pooling' \in BOOLEAN
    BY <1>2, UpdateChannelType DEF ConnectEstablished, TypeOK
  <2>2. QED
    BY <1>2, <2>1, LoopType DEF ConnectEstablished, TypeOK, net
<1>3. CASE ReturnFromCallback
  BY <1>3, LoopType, NotAccepting DEF ReturnFromCallback, TypeOK, conn, net
<1>4. CASE OnClose
  BY <1>4, LoopType, HandleCloseType DEF OnClose, TypeOK, net
<1>5. CASE OnError
  BY <1>5, LoopType, NotAccepting DEF OnError, TypeOK, conn, net
<1>6. CASE OnRead
  <2>1. /\ loopPc = "handle" /\ revents' = revents \ {"read"}
        /\ UNCHANGED <<due, pending, peer, user>>
    BY <1>6 DEF OnRead
  <2>2. CASE ReadData
    BY <2>1, <2>2, LoopType, NotAccepting DEF ReadData, TypeOK, conn
  <2>3. CASE ReadError
    BY <2>1, <2>3, LoopType, NotAccepting DEF ReadError, TypeOK, conn
  <2>4. CASE ReadEnd
    BY <2>1, <2>4, LoopType, HandleCloseType DEF ReadEnd, TypeOK
  <2>5. QED
    BY <1>6, <2>2, <2>3, <2>4 DEF OnRead
<1>7. CASE OnWrite
  <2>1. loopPc = "handle" /\ revents' = {} /\ UNCHANGED <<loopPc, due, net, user>>
    BY <1>7 DEF OnWrite
  <2>2. CASE WriteBuffered
    <3>1. due' \in 0..Len(pending')
      BY <1>0, <2>1, <2>2, WriteBufferedType, LenProperties
    <3>2. QED
      BY <2>1, <2>2, <3>1, LoopType, NotAccepting, WriteBufferedType DEF TypeOK, net
  <2>3. CASE UNCHANGED <<pending, conn>> /\ soError' \in BOOLEAN
    BY <2>1, <2>3, LoopType, NotAccepting DEF TypeOK, conn, net
  <2>4. QED
    BY <1>7, <2>2, <2>3 DEF OnWrite, TypeOK
<1>8. CASE TakeTasks
  BY <1>0, <1>8, LoopType, NotAccepting DEF TakeTasks, TypeOK, conn, net
<1>9. CASE DoneTasks
  BY <1>9, LoopType, NotAccepting DEF DoneTasks, TypeOK, conn, net
<1>10. QED
  BY <1>1, <1>2, <1>3, <1>4, <1>5, <1>6, <1>7, <1>8, <1>9

LEMMA NextTaskFacts ==
  ASSUME TypeInv, NEW op, NextTask(op)
  PROVE  /\ pending # <<>> /\ Head(pending) \in Task /\ Tail(pending) \in Seq(Task)
         /\ Len(Tail(pending)) = Len(pending) - 1 /\ Len(pending) \in Nat \ {0}
         /\ due \in 1..Len(pending) /\ loopPc = "tasks"
<1>1. pending \in Seq(Task) /\ Len(pending) \in Nat /\ due \in 0..Len(pending) /\ due > 0
  BY LenProperties DEF TypeInv, TypeOK, NextTask
<1>2. pending # <<>>
  BY <1>1
<1>3. QED
  BY <1>1, <1>2, HeadTailProperties DEF NextTask

LEMMA RunTaskType == TypeInv /\ RunTask => TypeInv'
<1> SUFFICES ASSUME TypeInv, RunTask PROVE TypeInv'
  OBVIOUS
<1> USE DEF TypeInv
<1>1. due' = due - 1 /\ UNCHANGED <<loopPc, revents, net, user>>
  BY DEF RunTask
<1>2. ASSUME loopPc = "tasks", due \in 1..Len(pending), Len(pending) \in Nat,
             pending' \in Seq(Task), Len(pending) - 1 <= Len(pending'),
             events' \subseteq {"R", "W"}, pooling' \in BOOLEAN,
             outputBuffer' \in Seq(Part), wire' \in Seq(Part),
             state' \in {state, "disconnected"}, localShut' \in BOOLEAN,
             soError' \in BOOLEAN, accepted' \subseteq Msg, closeCalls' \in Nat
      PROVE  TypeInv'
  <2>1. due' \in 0..Len(pending')
    BY <1>1, <1>2, LenProperties
  <2>2. /\ state' # "connecting"
        /\ state' \in {"connected", "disconnecting", "disconnected"}
    BY <1>2, NotAccepting
  <2>3. QED
    BY <1>1, <1>2, <2>1, <2>2, LoopType DEF TypeOK, net
<1>3. CASE RunSend
  <2>1. NextTask("send") /\ SendInLoop(Head(pending)[2], Tail(pending))
    BY <1>3 DEF RunSend
  <2>2. Head(pending)[2] \in Msg
    BY <2>1, NextTaskFacts, TaskFacts DEF NextTask
  <2>3. QED
    BY <1>2, <2>1, <2>2, NextTaskFacts, SendInLoopType DEF TypeOK
<1>4. CASE RunShutdown
  BY <1>2, <1>4, NextTaskFacts DEF RunShutdown, ShutdownInLoop, UnchangedChannel, TypeOK
<1>5. CASE RunForceClose
  <2>1. NextTask("forceClose") /\ pending' = Tail(pending) /\ UNCHANGED soError
    BY <1>5 DEF RunForceClose
  <2>2. CASE HandleClose
    <3>1. /\ state' = "disconnected" /\ closeCalls' \in Nat
          /\ events' \subseteq {"R", "W"} /\ pooling' \in BOOLEAN
          /\ UNCHANGED <<outputBuffer, wire, localShut, accepted>>
      BY <2>2, HandleCloseType DEF TypeOK
    <3>2. QED
      BY <1>2, <2>1, <3>1, NextTaskFacts DEF TypeOK
  <2>3. CASE UNCHANGED conn
    BY <1>2, <2>1, <2>3, NextTaskFacts DEF TypeOK, conn
  <2>4. QED
    BY <1>5, <2>2, <2>3 DEF RunForceClose
<1>6. CASE RunReading
  <2>1. PICK op \in {"stopRead", "startRead"}, on \in BOOLEAN : NextTask(op) /\ SetReading(on)
    BY <1>6 DEF RunReading
  <2>2. pending' = Tail(pending) /\ UNCHANGED soError
    BY <1>6 DEF RunReading
  <2>3. QED
    BY <1>2, <2>1, <2>2, NextTaskFacts, SetReadingType DEF TypeOK
<1>7. CASE RunNotify
  BY <1>2, <1>7, NextTaskFacts DEF RunNotify, TypeOK, conn
<1>8. QED
  BY <1>3, <1>4, <1>5, <1>6, <1>7 DEF RunTask

(* A call made in the loop's thread leaves state_ alone or sets it. *)
LEMMA LoopCallType == TypeInv /\ (LoopSend \/ LoopCall) => TypeInv'
<1> SUFFICES ASSUME TypeInv, LoopSend \/ LoopCall PROVE TypeInv'
  OBVIOUS
<1> USE DEF TypeInv
<1>0. /\ UNCHANGED <<loopPc, userPc, due, revents, net>>
      /\ loopPc \in InUserCode
      /\ Len(pending) \in Nat /\ due \in 0..Len(pending)
  BY LenProperties DEF LoopSend, LoopCall, TypeOK
<1>1. ASSUME nsent' \in [Actor -> 0..MaxSend], ncalls' \in 0..MaxCalls, asked' \subseteq Op,
             \A u \in User : nsent'[u] = nsent[u],
             pending' \in Seq(Task), Len(pending) <= Len(pending'),
             events' \subseteq {"R", "W"}, pooling' \in BOOLEAN,
             outputBuffer' \in Seq(Part), wire' \in Seq(Part),
             state' \in {state, "disconnecting"}, localShut' \in BOOLEAN,
             soError' \in BOOLEAN, accepted' \subseteq Msg, closeCalls' \in Nat
      PROVE  TypeInv'
  <2>1. state # "connecting" /\ state \in {"connected", "disconnecting", "disconnected"}
    BY <1>0, NotAccepting DEF InUserCode
  <2>2. CallInv'
    BY <1>0, <1>1, <2>1 DEF CallInv
  <2>3. due' \in 0..Len(pending')
    BY <1>0, <1>1, LenProperties
  <2>4. TypeOK'
    BY <1>0, <1>1, <2>1, <2>3 DEF TypeOK, InUserCode, net
  <2>5. QED
    BY <2>2, <2>4
<1>2. CASE LoopSend
  <2>1. /\ nsent["loop"] < MaxSend /\ nsent' = [nsent EXCEPT !["loop"] = @ + 1]
        /\ SendInLoop([by |-> "loop", n |-> nsent["loop"] + 1], pending)
        /\ UNCHANGED <<ncalls, asked>>
    BY <1>2 DEF LoopSend
  <2>2. "loop" \in Actor /\ nsent["loop"] \in 0..MaxSend /\ MaxSend \in Nat
    BY BoundAssumption DEF Actor, TypeOK
  <2>3. [by |-> "loop", n |-> nsent["loop"] + 1] \in Msg
    BY <2>1, <2>2 DEF Msg
  <2>4. nsent["loop"] + 1 \in 0..MaxSend
    BY <2>1, <2>2
  <2>5. nsent' \in [Actor -> 0..MaxSend] /\ \A u \in User : nsent'[u] = nsent[u]
    BY <2>1, <2>2, <2>4, UserAssumption DEF TypeOK, Actor
  <2>6. pending \in Seq(Task)
    BY DEF TypeOK
  <2>7. QED
    BY <1>1, <2>1, <2>3, <2>5, <2>6, SendInLoopType DEF TypeOK
<1>3. CASE LoopCall
  <2>1. UNCHANGED <<soError, nsent>>
    BY <1>3 DEF LoopCall
  <2>2. ASSUME NEW op \in Op, CountCall(op)
        PROVE  ncalls' \in 0..MaxCalls /\ asked' \subseteq Op
    BY <2>2, BoundAssumption DEF CountCall, TypeOK
  <2>3. CASE LoopShutdown
    <3>1. ncalls' \in 0..MaxCalls /\ asked' \subseteq Op
      BY <2>2, <2>3 DEF LoopShutdown, Op
    <3>2. localShut' \in BOOLEAN
      BY <2>3 DEF LoopShutdown, ShutdownInLoop, TypeOK
    <3>3. QED
      BY <1>0, <1>1, <2>1, <2>3, <3>1, <3>2 DEF LoopShutdown, UnchangedChannel, TypeOK
  <2>4. CASE LoopForceClose
    <3>1. ncalls' \in 0..MaxCalls /\ asked' \subseteq Op
      BY <2>2, <2>4 DEF LoopForceClose, Op
    <3>2. <<"forceClose">> \in Task /\ pending \in Seq(Task)
      BY TaskFacts DEF Op, TypeOK
    <3>3. pending' \in Seq(Task) /\ Len(pending) <= Len(pending')
      BY <1>0, <2>4, <3>2, AppendProperties DEF LoopForceClose
    <3>4. QED
      BY <1>1, <2>1, <2>4, <3>1, <3>3 DEF LoopForceClose, UnchangedChannel, TypeOK
  <2>5. CASE LoopSetReading
    <3>1. PICK op \in {"stopRead", "startRead"}, on \in BOOLEAN : CountCall(op) /\ SetReading(on)
      BY <2>5 DEF LoopSetReading
    <3>2. UNCHANGED pending
      BY <2>5 DEF LoopSetReading
    <3>3. ncalls' \in 0..MaxCalls /\ asked' \subseteq Op
      BY <2>2, <3>1 DEF Op
    <3>4. QED
      BY <1>0, <1>1, <2>1, <3>1, <3>2, <3>3, SetReadingType DEF TypeOK
  <2>6. QED
    BY <1>3, <2>3, <2>4, <2>5 DEF LoopCall
<1>4. QED
  BY <1>2, <1>3

LEMMA QueuedTaskType ==
  ASSUME TypeInv, NEW u \in User, userPc[u].at = "queue"
  PROVE  /\ userPc[u].op = "send" => [by |-> u, n |-> nsent[u]] \in Msg
         /\ (IF userPc[u].op = "send" THEN <<"send", [by |-> u, n |-> nsent[u]]>>
                                      ELSE <<userPc[u].op>>) \in Task
<1>1. userPc[u].op \in Op /\ u \in Actor /\ nsent[u] \in 0..MaxSend /\ MaxSend \in Nat
  BY BoundAssumption DEF TypeInv, TypeOK, Actor
<1>2. CASE userPc[u].op = "send"
  <2>1. nsent[u] \in 1..MaxSend
    BY <1>1, <1>2 DEF TypeInv, CallInv
  <2>2. [by |-> u, n |-> nsent[u]] \in Msg
    BY <1>1, <2>1 DEF Msg
  <2>3. QED
    BY <1>2, <2>2, TaskFacts
<1>3. CASE userPc[u].op # "send"
  BY <1>1, <1>3, TaskFacts
<1>4. QED
  BY <1>2, <1>3

(* What one thread does about its own call. *)
LEMMA UserStepType ==
  ASSUME TypeInv, NEW u \in User,
         UserSend(u) \/ UserStep(u) \/ \E op \in Op : UserCall(u, op)
  PROVE  TypeInv'
<1> USE DEF TypeInv
<1>0. /\ UserUnchanged
      /\ userPc \in [User -> [at : {"idle", "set", "queue"}, op : Op]]
      /\ Len(pending) \in Nat /\ due \in 0..Len(pending)
  BY LenProperties DEF UserSend, UserStep, UserSetState, UserQueue, UserCall, TypeOK
<1>1. ASSUME NEW pc \in [at : {"idle", "set", "queue"}, op : Op],
             userPc' = [userPc EXCEPT ![u] = pc],
             pc.at # "idle" => state # "connecting",
             pc.at = "set" => pc.op \in {"shutdown", "forceClose"},
             pc.at = "queue" /\ pc.op = "send" => nsent'[u] > 0,
             nsent' \in [Actor -> 0..MaxSend], \A v \in User \ {u} : nsent'[v] = nsent[v],
             ncalls' \in 0..MaxCalls, asked' \subseteq Op,
             pending' \in Seq(Task), Len(pending) <= Len(pending'),
             state' = state \/ (state # "connecting" /\ state' = "disconnecting")
      PROVE  TypeInv'
  <2>1. /\ userPc' \in [User -> [at : {"idle", "set", "queue"}, op : Op]]
        /\ userPc'[u] = pc /\ \A v \in User \ {u} : userPc'[v] = userPc[v]
    BY <1>0, <1>1
  <2>2. CallInv'
    <3> SUFFICES ASSUME NEW v \in User
                 PROVE  /\ userPc'[v].at # "idle" => state' # "connecting"
                        /\ userPc'[v].at = "set" => userPc'[v].op \in {"shutdown", "forceClose"}
                        /\ userPc'[v].at = "queue" /\ userPc'[v].op = "send" => nsent'[v] > 0
      BY DEF CallInv
    <3>1. CASE v = u
      BY <1>1, <2>1, <3>1
    <3>2. CASE v # u
      BY <1>1, <2>1, <3>2 DEF CallInv
    <3>3. QED
      BY <3>1, <3>2
  <2>3. due' \in 0..Len(pending')
    BY <1>0, <1>1, LenProperties DEF UserUnchanged
  <2>4. TypeOK'
    BY <1>0, <1>1, <2>1, <2>3 DEF TypeOK, UserUnchanged, net
  <2>5. QED
    BY <2>2, <2>4
<1>2. CASE UserSend(u)
  <2> DEFINE pc == [at |-> "queue", op |-> "send"]
  <2>1. u \in Actor /\ nsent[u] \in 0..MaxSend /\ MaxSend \in Nat /\ nsent[u] < MaxSend
    BY <1>2, BoundAssumption DEF UserSend, TypeOK, Actor
  <2>2. nsent' = [nsent EXCEPT ![u] = @ + 1] /\ nsent[u] + 1 \in 0..MaxSend
    BY <1>2, <2>1 DEF UserSend
  <2>3. /\ nsent' \in [Actor -> 0..MaxSend] /\ nsent'[u] > 0
        /\ \A v \in User \ {u} : nsent'[v] = nsent[v]
    BY <2>1, <2>2 DEF TypeOK, Actor
  <2>4. pc \in [at : {"idle", "set", "queue"}, op : Op]
    BY DEF Op
  <2>5. /\ userPc' = [userPc EXCEPT ![u] = pc]
        /\ state # "connecting" /\ pc.at # "set"
        /\ ncalls' \in 0..MaxCalls /\ asked' \subseteq Op
        /\ pending' \in Seq(Task) /\ Len(pending) <= Len(pending') /\ state' = state
    BY <1>0, <1>2 DEF UserSend, TypeOK
  <2> HIDE DEF pc
  <2>6. QED
    BY <1>1, <2>3, <2>4, <2>5
<1>3. CASE UserSetState(u)
  <2> DEFINE pc == [userPc[u] EXCEPT !.at = "queue"]
  <2>1. pc \in [at : {"idle", "set", "queue"}, op : Op] /\ pc.at = "queue" /\ pc.op = userPc[u].op
    BY <1>0
  <2>2. userPc[u].at = "set" /\ userPc' = [userPc EXCEPT ![u] = pc]
    BY <1>0, <1>3 DEF UserSetState
  <2>3. pc.op # "send" /\ state # "connecting"
    BY <2>1, <2>2 DEF CallInv
  <2>4. UNCHANGED <<pending, nsent, ncalls, asked>> /\ state' = "disconnecting"
    BY <1>3 DEF UserSetState
  <2>5. /\ pc.at # "set" /\ \A v \in User \ {u} : nsent'[v] = nsent[v]
        /\ nsent' \in [Actor -> 0..MaxSend]
        /\ ncalls' \in 0..MaxCalls /\ asked' \subseteq Op
        /\ pending' \in Seq(Task) /\ Len(pending) <= Len(pending')
    BY <1>0, <2>1, <2>4 DEF TypeOK
  <2> HIDE DEF pc
  <2>6. QED
    BY <1>1, <2>1, <2>2, <2>3, <2>4, <2>5
<1>4. CASE UserQueue(u)
  <2> DEFINE t == IF userPc[u].op = "send" THEN <<"send", [by |-> u, n |-> nsent[u]]>>
                                           ELSE <<userPc[u].op>>
  <2>1. t \in Task /\ pending \in Seq(Task)
    BY <1>4, QueuedTaskType DEF UserQueue, TypeOK
  <2>2. pending' = Append(pending, t)
    BY <1>4 DEF UserQueue
  <2>3. pending' \in Seq(Task) /\ Len(pending) <= Len(pending')
    BY <1>0, <2>1, <2>2, AppendProperties
  <2>4. asked' \subseteq Op
    BY <1>0, <1>4 DEF UserQueue, TypeOK
  <2>5. Idle \in [at : {"idle", "set", "queue"}, op : Op] /\ Idle.at = "idle"
    BY DEF Idle, Op
  <2>6. userPc' = [userPc EXCEPT ![u] = Idle] /\ UNCHANGED <<state, nsent, ncalls>>
    BY <1>4 DEF UserQueue
  <2>7. /\ nsent' \in [Actor -> 0..MaxSend] /\ ncalls' \in 0..MaxCalls
        /\ \A v \in User \ {u} : nsent'[v] = nsent[v]
    BY <2>6 DEF TypeOK
  <2>8. QED
    BY <1>1, <2>3, <2>4, <2>5, <2>6, <2>7
<1>5. ASSUME NEW op \in Op, UserCall(u, op) PROVE TypeInv'
  <2> DEFINE pc == [at |-> IF op \in {"shutdown", "forceClose"} THEN "set" ELSE "queue",
                    op |-> op]
  <2>1. pc \in [at : {"idle", "set", "queue"}, op : Op] /\ pc.op # "send"
    BY <1>5 DEF UserCall
  <2>2. /\ userPc' = [userPc EXCEPT ![u] = pc] /\ state # "connecting"
        /\ UNCHANGED <<pending, state, nsent, asked>>
    BY <1>5 DEF UserCall
  <2>3. ncalls' \in 0..MaxCalls
    BY <1>5, BoundAssumption DEF UserCall, TypeOK
  <2>4. pc.at = "set" => pc.op \in {"shutdown", "forceClose"}
    OBVIOUS
  <2>5. /\ \A v \in User \ {u} : nsent'[v] = nsent[v]
        /\ nsent' \in [Actor -> 0..MaxSend] /\ asked' \subseteq Op
        /\ pending' \in Seq(Task) /\ Len(pending) <= Len(pending') /\ state' = state
    BY <1>0, <2>2 DEF TypeOK
  <2> HIDE DEF pc
  <2>6. QED
    BY <1>1, <2>1, <2>2, <2>3, <2>4, <2>5
<1>6. QED
  BY <1>2, <1>3, <1>4, <1>5 DEF UserStep

LEMMA PeerType == TypeInv /\ (PeerSend \/ PeerClose \/ PeerReset) => TypeInv'
BY DEF TypeInv, TypeOK, CallInv, PeerSend, PeerClose, PeerReset, NetUnchanged, conn, user

LEMMA StutterType == TypeInv /\ UNCHANGED vars => TypeInv'
BY DEF TypeInv, TypeOK, CallInv, vars

LEMMA TypeStep == TypeInv /\ [Next]_vars => TypeInv'
<1> SUFFICES ASSUME TypeInv, [Next]_vars PROVE TypeInv'
  OBVIOUS
<1>1. CASE LoopStep
  BY <1>1, LoopStepType, RunTaskType DEF LoopStep
<1>2. CASE \E w \in BOOLEAN : Poll(w)
  BY <1>2, LoopStepType
<1>3. CASE LoopSend \/ LoopCall
  BY <1>3, LoopCallType
<1>4. CASE \E u \in User : UserSend(u) \/ UserStep(u) \/ \E op \in Op : UserCall(u, op)
  BY <1>4, UserStepType
<1>5. CASE PeerSend \/ PeerClose \/ PeerReset
  BY <1>5, PeerType
<1>6. CASE UNCHANGED vars
  BY <1>6, StutterType
<1>7. QED
  BY <1>1, <1>2, <1>3, <1>4, <1>5, <1>6 DEF Next

(* The types, and that the connection is connecting only until it is       *)
(* established.                                                            *)
THEOREM TypeCorrect == Spec => []TypeOK
<1>1. TypeInv => TypeOK
  BY DEF TypeInv
<1>2. QED
  BY <1>1, InitType, TypeStep, PTL DEF Spec

-----------------------------------------------------------------------------
(* What is queued.  A change of reading is queued only once it has been    *)
(* asked for; while the connection is open nobody has got as far as        *)
(* queueing a shutdown, and its side is not shut.                          *)
Reading == {"stopRead", "startRead"}
Open == {"connecting", "connected"}

NoTask(q, ops) == \A i \in 1..Len(q) : q[i][1] \notin ops

QuietInv == asked \cap Reading = {} => NoTask(pending, Reading)

UnshutInv ==
  state \in Open =>
    /\ ~localShut
    /\ NoTask(pending, {"shutdown"})
    /\ \A u \in User : userPc[u].at = "queue" => userPc[u].op # "shutdown"

QueueableOps == SUBSET {"shutdown", "stopRead", "startRead"}

LEMMA NoTaskAppend ==
  ASSUME NEW q \in Seq(Task), NEW t \in Task, NEW ops, NoTask(q, ops), t[1] \notin ops
  PROVE  NoTask(Append(q, t), ops)
<1>1. /\ Len(Append(q, t)) = Len(q) + 1 /\ Len(q) \in Nat
      /\ \A i \in 1..Len(q) : Append(q, t)[i] = q[i]
      /\ Append(q, t)[Len(q) + 1] = t
  BY AppendProperties, LenProperties
<1>2. ASSUME NEW i \in 1..(Len(q) + 1)
      PROVE  Append(q, t)[i][1] \notin ops
  <2>1. CASE i = Len(q) + 1
    BY <1>1, <2>1
  <2>2. CASE i \in 1..Len(q)
    BY <1>1, <2>2 DEF NoTask
  <2>3. QED
    BY <1>1, <2>1, <2>2
<1>3. QED
  BY <1>1, <1>2 DEF NoTask

LEMMA NoTaskTail ==
  ASSUME NEW q \in Seq(Task), q # <<>>, NEW ops, NoTask(q, ops)
  PROVE  NoTask(Tail(q), ops) /\ Head(q)[1] \notin ops
<1>1. /\ Len(Tail(q)) = Len(q) - 1 /\ Len(q) \in Nat \ {0} /\ Head(q) = q[1]
      /\ \A i \in 1..Len(Tail(q)) : Tail(q)[i] = q[i + 1]
  BY HeadTailProperties, LenProperties
<1>2. \A i \in 1..Len(Tail(q)) : i + 1 \in 1..Len(q)
  BY <1>1
<1>3. QED
  BY <1>1, <1>2 DEF NoTask

LEMMA NotifiedQuiet ==
  ASSUME NEW kind \in {"writeComplete", "highWater"}, NEW when, NEW q \in Seq(Task),
         NEW ops \in QueueableOps, NoTask(q, ops)
  PROVE  NoTask(Notified(kind, when, q), ops)
<1>1. <<kind>> \in Task /\ <<kind>>[1] \notin ops
  BY TaskFacts DEF QueueableOps
<1>2. QED
  BY <1>1, NoTaskAppend DEF Notified

LEMMA SendInLoopQuiet ==
  ASSUME NEW m, NEW q \in Seq(Task), NEW ops \in QueueableOps, NoTask(q, ops),
         SendInLoop(m, q)
  PROVE  NoTask(pending', ops)
<1>1. CASE WriteOrBuffer(m, q)
  <2>1. \/ pending' = Notified("writeComplete", TRUE, q)
        \/ \E n \in 0..MsgLen :
             pending' = Notified("highWater", HighWaterMark \in 1..(MsgLen - n), q)
    BY <1>1, WriteOrBufferCut
  <2>2. QED
    BY <2>1, NotifiedQuiet
<1>2. CASE pending' = q
  BY <1>2
<1>3. QED
  BY <1>1, <1>2 DEF SendInLoop

(* Only a thread that queues one of them brings such a task to the queue.  *)
LEMMA QueueStep ==
  ASSUME TypeInv, [Next]_vars, NEW ops \in QueueableOps, NoTask(pending, ops),
         \A u \in User : UserQueue(u) => userPc[u].op \notin ops
  PROVE  NoTask(pending', ops)
<1>0. pending \in Seq(Task)
  BY DEF TypeInv, TypeOK
<1>2. CASE \/ \E w \in BOOLEAN : Poll(w)
           \/ ConnectEstablished \/ ReturnFromCallback
           \/ OnClose \/ OnError \/ OnRead \/ TakeTasks \/ DoneTasks
           \/ PeerSend \/ PeerClose \/ PeerReset \/ UNCHANGED vars
  <2>1. UNCHANGED pending
    BY <1>2 DEF Poll, ConnectEstablished, ReturnFromCallback, OnClose, OnError, OnRead,
                TakeTasks, DoneTasks, PeerSend, PeerClose, PeerReset, NetUnchanged, vars
  <2>2. QED
    BY <2>1
<1>3. CASE OnWrite
  <2>1. CASE WriteBuffered
    <3>1. pending' = pending \/ pending' = Notified("writeComplete", TRUE, pending)
      BY <2>1 DEF WriteBuffered
    <3>2. QED
      BY <1>0, <3>1, NotifiedQuiet
  <2>2. CASE pending' = pending
    BY <2>2
  <2>3. QED
    BY <1>3, <2>1, <2>2 DEF OnWrite
<1>4. CASE RunTask
  <2>1. PICK op : NextTask(op)
    BY <1>4 DEF RunTask, RunSend, RunShutdown, RunForceClose, RunReading, RunNotify
  <2>2. Tail(pending) \in Seq(Task) /\ NoTask(Tail(pending), ops)
    BY <1>0, <2>1, NextTaskFacts, NoTaskTail
  <2>3. CASE RunSend
    BY <2>2, <2>3, SendInLoopQuiet DEF RunSend
  <2>4. CASE pending' = Tail(pending)
    BY <2>2, <2>4
  <2>5. QED
    BY <1>4, <2>3, <2>4 DEF RunTask, RunShutdown, RunForceClose, RunReading, RunNotify
<1>5. CASE LoopSend
  BY <1>0, <1>5, SendInLoopQuiet DEF LoopSend
<1>6. CASE LoopCall
  <2>1. <<"forceClose">> \in Task /\ <<"forceClose">>[1] \notin ops
    BY TaskFacts DEF Op, QueueableOps
  <2>2. NoTask(Append(pending, <<"forceClose">>), ops)
    BY <1>0, <2>1, NoTaskAppend
  <2>3. QED
    BY <1>6, <2>2 DEF LoopCall, LoopShutdown, LoopForceClose, LoopSetReading
<1>7. ASSUME NEW u \in User, UserQueue(u)
      PROVE  NoTask(pending', ops)
  <2>1. userPc[u].at = "queue" /\ userPc[u].op \notin ops
    BY <1>7 DEF UserQueue
  <2>2. PICK t \in Task : pending' = Append(pending, t) /\ t[1] = userPc[u].op
    BY <1>7, <2>1, QueuedTaskType DEF UserQueue
  <2>3. QED
    BY <1>0, <2>1, <2>2, NoTaskAppend
<1>8. ASSUME NEW u \in User, UserSend(u) \/ UserSetState(u) \/ \E op \in Op : UserCall(u, op)
      PROVE  NoTask(pending', ops)
  BY <1>8 DEF UserSend, UserSetState, UserCall
<1>9. QED
  BY <1>2, <1>3, <1>4, <1>5, <1>6, <1>7, <1>8 DEF Next, LoopStep, UserStep

LEMMA InitQuiet == Init => QuietInv /\ UnshutInv
BY DEF Init, QuietInv, UnshutInv, NoTask, Idle

(* What has been asked for stays on record. *)
LEMMA AskedKept == TypeInv /\ [Next]_vars => asked \subseteq asked'
<1> SUFFICES ASSUME [Next]_vars PROVE asked \subseteq asked'
  OBVIOUS
<1>1. CASE LoopStep \/ \E w \in BOOLEAN : Poll(w)
  BY <1>1 DEF LoopStep, Poll, ConnectEstablished, ReturnFromCallback, OnClose, OnError,
              OnRead, OnWrite, TakeTasks, RunTask, DoneTasks, user
<1>2. CASE LoopSend \/ LoopCall
  BY <1>2 DEF LoopSend, LoopCall, LoopShutdown, LoopForceClose, LoopSetReading, CountCall
<1>3. CASE \E u \in User : UserSend(u) \/ UserStep(u) \/ \E op \in Op : UserCall(u, op)
  BY <1>3 DEF UserSend, UserStep, UserSetState, UserQueue, UserCall
<1>4. CASE PeerSend \/ PeerClose \/ PeerReset \/ UNCHANGED vars
  BY <1>4 DEF PeerSend, PeerClose, PeerReset, NetUnchanged, user, vars
<1>5. QED
  BY <1>1, <1>2, <1>3, <1>4 DEF Next

LEMMA QuietStep == TypeInv /\ QuietInv /\ [Next]_vars => QuietInv'
<1> SUFFICES ASSUME TypeInv, QuietInv, [Next]_vars, asked' \cap Reading = {}
             PROVE  NoTask(pending', Reading)
  BY DEF QuietInv, NoTask
<1>1. NoTask(pending, Reading)
  BY AskedKept DEF QuietInv
<1>2. \A u \in User : UserQueue(u) => userPc[u].op \notin Reading
  BY DEF UserQueue
<1>3. Reading \in QueueableOps
  BY DEF Reading, QueueableOps
<1>4. QED
  BY <1>1, <1>2, <1>3, QueueStep

(* A connection that is open has been open, and is not half-closed by the  *)
(* step.                                                                   *)
LEMMA OpenStep ==
  ASSUME TypeInv, UnshutInv, [Next]_vars, state' \in Open
  PROVE  state \in Open /\ localShut' = localShut
<1> USE DEF Open
<1>1. CASE OnClose \/ OnRead \/ OnWrite
  <2>1. ~HandleClose /\ ~EndOfBuffer
    BY DEF HandleClose, EndOfBuffer
  <2>2. QED
    BY <1>1, <2>1 DEF OnClose, OnRead, OnWrite, ReadData, ReadError, ReadEnd, WriteBuffered, conn
<1>2. CASE RunTask
  <2>1. CASE RunShutdown
    <3>1. NextTask("shutdown") /\ state' = state
      BY <2>1 DEF RunShutdown
    <3>2. pending \in Seq(Task) /\ pending # <<>> /\ Head(pending)[1] = "shutdown"
      BY <3>1, NextTaskFacts DEF NextTask, TypeInv, TypeOK
    <3>3. NoTask(pending, {"shutdown"})
      BY <3>1 DEF UnshutInv
    <3>4. QED
      BY <3>2, <3>3, NoTaskTail
  <2>2. CASE RunSend \/ RunForceClose \/ RunReading \/ RunNotify
    <3>1. ~HandleClose
      BY DEF HandleClose
    <3>2. QED
      BY <2>2, <3>1 DEF RunSend, RunForceClose, RunReading, RunNotify, SendInLoop, SetReading, conn
  <2>3. QED
    BY <1>2, <2>1, <2>2 DEF RunTask
<1>3. CASE LoopSend \/ LoopCall
  BY <1>3 DEF LoopSend, LoopCall, LoopShutdown, LoopForceClose, LoopSetReading, SetReading,
              SendInLoop
<1>4. CASE \E u \in User : UserSend(u) \/ UserStep(u) \/ \E op \in Op : UserCall(u, op)
  BY <1>4 DEF UserSend, UserStep, UserSetState, UserQueue, UserCall, UserUnchanged
<1>5. CASE \/ \E w \in BOOLEAN : Poll(w)
           \/ ReturnFromCallback \/ OnError \/ TakeTasks \/ DoneTasks
           \/ PeerSend \/ PeerClose \/ PeerReset \/ UNCHANGED vars
  BY <1>5 DEF Poll, ReturnFromCallback, OnError, TakeTasks, DoneTasks,
              PeerSend, PeerClose, PeerReset, NetUnchanged, conn, vars
<1>6. CASE ConnectEstablished
  BY <1>6 DEF ConnectEstablished, TypeInv, TypeOK
<1>7. QED
  BY <1>1, <1>2, <1>3, <1>4, <1>5, <1>6 DEF Next, LoopStep

(* A thread that queues a shutdown has assigned state_ before.             *)
LEMMA NoShutdownCall ==
  ASSUME TypeInv, UnshutInv, [Next]_vars, state' \in Open,
         NEW u \in User, userPc'[u].at = "queue"
  PROVE  userPc'[u].op # "shutdown"
<1>1. state \in Open /\ userPc \in [User -> [at : {"idle", "set", "queue"}, op : Op]]
  BY OpenStep DEF TypeInv, TypeOK
<1>2. CASE userPc' = userPc
  BY <1>1, <1>2 DEF UnshutInv
<1>3. ASSUME NEW v \in User, NEW pc, userPc' = [userPc EXCEPT ![v] = pc],
             pc.at = "queue" => pc.op # "shutdown"
      PROVE  userPc'[u].op # "shutdown"
  BY <1>1, <1>3 DEF UnshutInv
<1>4. CASE \E v \in User : UserSend(v) \/ UserStep(v) \/ \E op \in Op : UserCall(v, op)
  <2>1. PICK v \in User : UserSend(v) \/ UserStep(v) \/ \E op \in Op : UserCall(v, op)
    BY <1>4
  <2>2. CASE UserSend(v)
    BY <1>3, <2>2 DEF UserSend
  <2>3. CASE UserQueue(v)
    BY <1>3, <2>3 DEF UserQueue, Idle
  <2>4. CASE \E op \in Op : UserCall(v, op)
    BY <1>3, <2>4 DEF UserCall
  <2>5. ~UserSetState(v)
    BY DEF UserSetState, Open
  <2>6. QED
    BY <2>1, <2>2, <2>3, <2>4, <2>5 DEF UserStep
<1>5. CASE LoopStep \/ \E w \in BOOLEAN : Poll(w)
  BY <1>2, <1>5 DEF LoopStep, Poll, ConnectEstablished, ReturnFromCallback, OnClose, OnError,
                    OnRead, OnWrite, TakeTasks, RunTask, DoneTasks, user
<1>6. QED
  BY <1>2, <1>4, <1>5 DEF Next, LoopSend, LoopCall, PeerSend, PeerClose, PeerReset,
                          NetUnchanged, user, vars

LEMMA UnshutStep == TypeInv /\ UnshutInv /\ [Next]_vars => UnshutInv'
<1> SUFFICES ASSUME TypeInv, UnshutInv, [Next]_vars, state' \in Open
             PROVE  /\ ~localShut'
                    /\ NoTask(pending', {"shutdown"})
                    /\ \A u \in User : userPc'[u].at = "queue" => userPc'[u].op # "shutdown"
  BY DEF UnshutInv, NoTask
<1>1. state \in Open /\ localShut' = localShut
  BY OpenStep
<1>2. \A u \in User : UserQueue(u) => userPc[u].op \notin {"shutdown"}
  BY <1>1 DEF UserQueue, UnshutInv
<1>3. {"shutdown"} \in QueueableOps
  BY DEF QueueableOps
<1>4. NoTask(pending', {"shutdown"})
  BY <1>1, <1>2, <1>3, QueueStep DEF UnshutInv
<1>5. QED
  BY <1>1, <1>4, NoShutdownCall DEF UnshutInv

-----------------------------------------------------------------------------
(* Waiting for room. *)

(* The inductive invariant behind WaitsForRoom and NoFinBeforeData: a      *)
(* callback for writing is only due while the channel still asks for it,   *)
(* so that the DEL of handleWrite finds the channel registered.  UnshutInv *)
(* keeps a write() that fails for another reason from buffering under a    *)
(* half-close.                                                             *)
WaitInv ==
  closeCalls = 0 =>
    /\ "W" \in events <=> outputBuffer # <<>>
    /\ pooling <=> events # {}
    /\ "write" \in revents => "W" \in events
    /\ localShut => outputBuffer = <<>>

LEMMA WriteOrBufferWaits ==
  ASSUME TypeOK, WaitInv, closeCalls = 0, WritesNow, ~localShut,
         NEW m \in Msg, NEW q \in Seq(Task), WriteOrBuffer(m, q)
  PROVE  /\ "W" \in events' <=> outputBuffer' # <<>>
         /\ pooling' <=> events' # {}
         /\ events \subseteq events'
<1>0. PICK n \in 0..MsgLen :
        /\ wire' = wire \o SubSeq(Parts(m), 1, n)
        /\ outputBuffer' = outputBuffer \o SubSeq(Parts(m), n + 1, MsgLen)
        /\ IF n = MsgLen
           THEN /\ pending' = Notified("writeComplete", TRUE, q)
                /\ UnchangedChannel
           ELSE /\ pending' = Notified("highWater", HighWaterMark \in 1..(MsgLen - n), q)
                /\ UpdateChannel(events \cup {"W"})
  BY WriteOrBufferCut
<1>1. /\ outputBuffer' = outputBuffer \o SubSeq(Parts(m), n + 1, MsgLen)
      /\ n = MsgLen => UnchangedChannel
      /\ n # MsgLen => UpdateChannel(events \cup {"W"})
  BY <1>0
<1>2. /\ SubSeq(Parts(m), n + 1, MsgLen) \in Seq(Part)
      /\ n = MsgLen => SubSeq(Parts(m), n + 1, MsgLen) = <<>>
      /\ n # MsgLen => Len(SubSeq(Parts(m), n + 1, MsgLen)) = MsgLen - n
  <2>1. \A k \in (n + 1)..MsgLen : Parts(m)[k] \in Part
    BY PartsType, ElementOfSeq
  <2>2. n \in Int /\ MsgLen \in Int
    BY BoundAssumption
  <2>3. QED
    BY <2>1, <2>2, SubSeqProperties
<1>3. outputBuffer' = SubSeq(Parts(m), n + 1, MsgLen)
  BY <1>1, <1>2, ConcatEmptySeq DEF WritesNow
<1>4. CASE n = MsgLen
  BY <1>1, <1>2, <1>3, <1>4 DEF UnchangedChannel, WaitInv, WritesNow
<1>5. CASE n # MsgLen
  <2>1. outputBuffer' # <<>>
    <3>1. Len(outputBuffer') = MsgLen - n /\ MsgLen - n # 0
      BY <1>2, <1>3, <1>5, BoundAssumption
    <3>2. QED
      BY <3>1
  <2>2. events' = events \cup {"W"} /\ pooling' = TRUE
    BY <1>1, <1>5 DEF UpdateChannel
  <2>3. QED
    BY <2>1, <2>2
<1>6. QED
  BY <1>4, <1>5

LEMMA SendInLoopWaits ==
  ASSUME TypeOK, WaitInv, UnshutInv, NEW m \in Msg, NEW q \in Seq(Task),
         SendInLoop(m, q), revents' = revents
  PROVE  WaitInv'
<1>1. UNCHANGED <<localShut, closeCalls>>
  BY DEF SendInLoop
<1>2. CASE closeCalls = 0 /\ WritesNow /\ WriteOrBuffer(m, q)
  <2>1. ~localShut
    BY <1>2 DEF WritesNow, UnshutInv, Open
  <2>2. QED
    BY <1>1, <1>2, <2>1, WriteOrBufferWaits DEF WaitInv
<1>3. CASE UNCHANGED <<outputBuffer, events, pooling>>
  BY <1>1, <1>3 DEF WaitInv
<1>4. CASE closeCalls # 0
  BY <1>1, <1>4 DEF WaitInv
<1>5. QED
  BY <1>2, <1>3, <1>4 DEF SendInLoop, UnchangedChannel

LEMMA WriteBufferedWaits ==
  ASSUME TypeOK, WaitInv, "write" \in revents, revents' = {}, ~WriteFails, WriteBuffered
  PROVE  WaitInv'
<1> SUFFICES ASSUME closeCalls = 0 PROVE WaitInv'
  BY DEF WaitInv, WriteBuffered
<1>1. "W" \in events /\ outputBuffer # <<>> /\ pooling /\ ~localShut
  BY DEF WaitInv, WriteFails
<1>2. CASE outputBuffer' = <<>>
  <2>1. UpdateChannel(events \ {"W"})
    BY <1>2 DEF WriteBuffered
  <2>2. QED
    BY <1>1, <1>2, <2>1 DEF UpdateChannel, WaitInv
<1>3. CASE outputBuffer' # <<>>
  <2>1. UNCHANGED <<localShut, events, pooling>>
    BY <1>3 DEF WriteBuffered, UnchangedChannel
  <2>2. QED
    BY <1>1, <1>3, <2>1 DEF WaitInv
<1>4. QED
  BY <1>2, <1>3

LEMMA HandleCloseWaits == TypeOK /\ HandleClose => WaitInv'
<1> SUFFICES ASSUME TypeOK, HandleClose PROVE WaitInv'
  OBVIOUS
<1>1. closeCalls' # 0
  BY DEF HandleClose, TypeOK
<1>2. QED
  BY <1>1 DEF WaitInv

LEMMA SetReadingWaits ==
  ASSUME TypeOK, WaitInv, NEW on \in BOOLEAN, SetReading(on), revents' = revents
  PROVE  WaitInv'
<1>1. UNCHANGED <<outputBuffer, localShut, closeCalls>>
  BY DEF SetReading
<1>2. CASE on = ("R" \in events)
  BY <1>1, <1>2 DEF SetReading, UnchangedChannel, WaitInv
<1>3. CASE on # ("R" \in events)
  <2>1. UpdateChannel(IF on THEN events \cup {"R"} ELSE events \ {"R"})
    BY <1>3 DEF SetReading
  <2>2. CASE on
    BY <1>1, <1>3, <2>1, <2>2 DEF UpdateChannel, WaitInv
  <2>3. CASE ~on
    <3>1. "R" \in events /\ events' = events \ {"R"} /\ pooling' = (~pooling \/ events' # {})
      BY <1>3, <2>1, <2>3 DEF UpdateChannel
    <3>2. ("W" \in events' <=> "W" \in events)
      BY <3>1
    <3>3. closeCalls = 0 => (pooling' <=> events' # {})
      BY <3>1 DEF WaitInv
    <3>4. QED
      BY <1>1, <3>2, <3>3 DEF WaitInv
  <2>4. QED
    BY <2>2, <2>3
<1>4. QED
  BY <1>2, <1>3

(* shutdownInLoop while the channel does not wait for room. *)
LEMMA ShutdownWaits ==
  ASSUME WaitInv, NEW s, ShutdownInLoop(s, events),
         UNCHANGED <<events, pooling, outputBuffer, closeCalls, revents>>
  PROVE  WaitInv'
BY DEF WaitInv, ShutdownInLoop

(* The connection and the callbacks that are due stay, or some are done. *)
LEMMA WaitInvKept ==
  ASSUME WaitInv, revents' \subseteq revents,
         UNCHANGED <<events, pooling, outputBuffer, localShut, closeCalls>>
  PROVE  WaitInv'
BY DEF WaitInv

LEMMA InitWaits == Init => WaitInv
BY DEF Init, WaitInv

LEMMA LoopStepWaits ==
  ASSUME TypeInv, WaitInv, UnshutInv, LoopStep \/ \E w \in BOOLEAN : Poll(w)
  PROVE  WaitInv'
<1> USE DEF TypeInv
<1>1. CASE \E w \in BOOLEAN : Poll(w)
  BY <1>1 DEF Poll, Report, WaitInv, conn
<1>2. CASE ConnectEstablished
  BY <1>2 DEF ConnectEstablished, UpdateChannel, WaitInv
<1>3. CASE ReturnFromCallback \/ OnError \/ TakeTasks \/ DoneTasks
  BY <1>3, WaitInvKept DEF ReturnFromCallback, OnError, TakeTasks, DoneTasks, conn
<1>4. CASE OnClose
  BY <1>4, HandleCloseWaits DEF OnClose
<1>5. CASE OnRead
  BY <1>5, HandleCloseWaits, WaitInvKept DEF OnRead, ReadData, ReadError, ReadEnd, conn
<1>6. CASE OnWrite
  <2>1. "write" \in revents /\ revents' = {}
    BY <1>6 DEF OnWrite
  <2>2. CASE ~WriteFails /\ WriteBuffered
    BY <2>1, <2>2, WriteBufferedWaits
  <2>3. CASE UNCHANGED conn
    BY <2>1, <2>3, WaitInvKept DEF conn
  <2>4. QED
    BY <1>6, <2>2, <2>3 DEF OnWrite
<1>7. CASE RunTask
  <2>1. revents' = revents
    BY <1>7 DEF RunTask
  <2>2. CASE RunSend
    <3>1. NextTask("send") /\ SendInLoop(Head(pending)[2], Tail(pending))
      BY <2>2 DEF RunSend
    <3>2. Head(pending)[2] \in Msg /\ Tail(pending) \in Seq(Task)
      BY <3>1, NextTaskFacts, TaskFacts DEF NextTask
    <3>3. QED
      BY <2>1, <3>1, <3>2, SendInLoopWaits
  <2>3. CASE RunShutdown
    BY <2>1, <2>3, ShutdownWaits DEF RunShutdown, UnchangedChannel
  <2>4. CASE RunForceClose
    BY <2>1, <2>4, HandleCloseWaits, WaitInvKept DEF RunForceClose, conn
  <2>5. CASE RunReading
    BY <2>1, <2>5, SetReadingWaits DEF RunReading
  <2>6. CASE RunNotify
    BY <2>1, <2>6, WaitInvKept DEF RunNotify, conn
  <2>7. QED
    BY <1>7, <2>2, <2>3, <2>4, <2>5, <2>6 DEF RunTask
<1>8. QED
  BY <1>1, <1>2, <1>3, <1>4, <1>5, <1>6, <1>7 DEF LoopStep

LEMMA LoopCallWaits ==
  ASSUME TypeInv, WaitInv, UnshutInv, LoopSend \/ LoopCall
  PROVE  WaitInv'
<1> USE DEF TypeInv
<1>1. revents' = revents
  BY DEF LoopSend, LoopCall
<1>2. CASE LoopSend
  <2>1. /\ SendInLoop([by |-> "loop", n |-> nsent["loop"] + 1], pending)
        /\ nsent["loop"] < MaxSend
    BY <1>2 DEF LoopSend
  <2>2. nsent["loop"] \in 0..MaxSend /\ MaxSend \in Nat
    BY BoundAssumption DEF TypeOK, Actor
  <2>3. [by |-> "loop", n |-> nsent["loop"] + 1] \in Msg
    BY <2>1, <2>2 DEF Msg, Actor
  <2>4. pending \in Seq(Task)
    BY DEF TypeOK
  <2>5. QED
    BY <1>1, <2>1, <2>3, <2>4, SendInLoopWaits
<1>3. CASE LoopShutdown
  BY <1>1, <1>3, ShutdownWaits DEF LoopShutdown, UnchangedChannel
<1>4. CASE LoopForceClose
  BY <1>1, <1>4, WaitInvKept DEF LoopForceClose, UnchangedChannel
<1>5. CASE LoopSetReading
  BY <1>1, <1>5, SetReadingWaits DEF LoopSetReading
<1>6. QED
  BY <1>2, <1>3, <1>4, <1>5 DEF LoopCall

LEMMA OthersWait ==
  ASSUME WaitInv,
         \/ \E u \in User : UserSend(u) \/ UserStep(u) \/ \E op \in Op : UserCall(u, op)
         \/ PeerSend \/ PeerClose \/ PeerReset \/ UNCHANGED vars
  PROVE  WaitInv'
<1>1. /\ revents' = revents
      /\ UNCHANGED <<events, pooling, outputBuffer, localShut, closeCalls>>
  BY DEF UserSend, UserStep, UserSetState, UserQueue, UserCall, UserUnchanged,
         PeerSend, PeerClose, PeerReset, NetUnchanged, conn, vars
<1>2. QED
  BY <1>1, WaitInvKept

LEMMA WaitStep == TypeInv /\ UnshutInv /\ WaitInv /\ [Next]_vars => WaitInv'
<1> SUFFICES ASSUME TypeInv, UnshutInv, WaitInv, [Next]_vars PROVE WaitInv'
  OBVIOUS
<1>1. CASE LoopStep \/ \E w \in BOOLEAN : Poll(w)
  BY <1>1, LoopStepWaits
<1>2. CASE LoopSend \/ LoopCall
  BY <1>2, LoopCallWaits
<1>3. QED
  BY <1>1, <1>2, OthersWait DEF Next

(* Buffered data is neither forgotten nor polled for without need, and the *)
(* channel is registered exactly while it waits for something.             *)
THEOREM RoomAwaited == Spec => []WaitsForRoom
<1>1. WaitInv => WaitsForRoom
  BY DEF WaitInv, WaitsForRoom
<1>2. QED
  BY <1>1, InitType, TypeStep, InitQuiet, UnshutStep, InitWaits, WaitStep, PTL DEF Spec

(* No half-close overtakes data that is still buffered. *)
THEOREM DataBeforeFin == Spec => []NoFinBeforeData
<1>1. WaitInv => NoFinBeforeData
  BY DEF WaitInv, NoFinBeforeData
<1>2. QED
  BY <1>1, InitType, TypeStep, InitQuiet, UnshutStep, InitWaits, WaitStep, PTL DEF Spec

-----------------------------------------------------------------------------
(* Closing. *)

(* An open connection is registered for reading, so that handleClose's DEL *)
(* finds it registered; of one that has been closed once and that nobody   *)
(* has revived epoll knows nothing, and neither of the callbacks that are  *)
(* still due closes it again.                                              *)
CloseInv ==
  /\ closeCalls = 0 => state # "disconnected"
  /\ closeCalls = 0 /\ state # "connecting" /\ asked \cap Reading = {} => "R" \in events
  /\ closeCalls = 1 /\ state = "disconnected" /\ asked \cap Reading = {} =>
       /\ events = {} /\ pooling = FALSE
       /\ revents \subseteq {"error", "write"}
  /\ loopPc = "tasks" => revents = {}
  /\ "close" \in revents => "read" \notin revents

LEMMA InitClose == Init => CloseInv
BY DEF Init, CloseInv

(* A step that closes nothing, after which the channel reports no more     *)
(* than before and is as ready to be closed.                               *)
LEMMA CloseInvKept ==
  ASSUME TypeOK, CloseInv, revents' \subseteq revents, loopPc' = "tasks" => revents' = {},
         state' = "disconnected" => state = "disconnected",
         state' = "connecting" <=> state = "connecting",
         closeCalls' = closeCalls, asked \subseteq asked',
         asked' \cap Reading = {} /\ closeCalls = 0 => events \cap {"R"} \subseteq events',
         asked' \cap Reading = {} /\ state' = "disconnected" => UNCHANGED <<events, pooling>>
  PROVE  CloseInv'
BY DEF CloseInv, TypeOK

LEMMA HandleCloseOnce ==
  ASSUME TypeInv, WaitInv, CloseInv, HandleClose, asked' = asked, loopPc # "accept",
         closeCalls = 0 /\ asked \cap Reading = {} => revents' \subseteq {"error", "write"},
         "close" \in revents' => "read" \notin revents',
         loopPc' = "tasks" => revents' = {}
  PROVE  CloseInv'
<1>1. state' = "disconnected" /\ events' = {} /\ closeCalls' = closeCalls + 1
      /\ pooling' = (~pooling)
  BY HandleCloseType DEF TypeInv
<1>2. closeCalls \in Nat
  BY DEF TypeInv, TypeOK
<1>3. CASE closeCalls = 0 /\ asked \cap Reading = {}
  <2>1. state # "connecting" /\ "R" \in events /\ pooling = TRUE
    BY <1>3, NotAccepting DEF CloseInv, WaitInv, TypeInv, TypeOK
  <2>2. pooling' = FALSE
    BY <1>1, <2>1
  <2>3. QED
    BY <1>1, <1>3, <2>2 DEF CloseInv
<1>4. CASE closeCalls > 0 \/ asked \cap Reading # {}
  <2>1. closeCalls' > 0 /\ (closeCalls' = 1 => asked' \cap Reading # {})
    BY <1>1, <1>2, <1>4
  <2>2. QED
    BY <1>1, <2>1 DEF CloseInv
<1>5. QED
  BY <1>2, <1>3, <1>4

LEMMA SendInLoopOpen ==
  ASSUME TypeOK, CloseInv, NEW m, NEW q, SendInLoop(m, q),
         revents' = revents, loopPc' = loopPc, asked' = asked
  PROVE  CloseInv'
<1>1. UNCHANGED <<state, closeCalls>>
  BY DEF SendInLoop
<1>2. CASE state # "disconnected"
  <2>1. events \subseteq events'
    BY DEF SendInLoop, WriteOrBuffer, UnchangedChannel, UpdateChannel
  <2>2. QED
    BY <1>1, <1>2, <2>1, CloseInvKept DEF CloseInv
<1>3. CASE state = "disconnected"
  <2>1. UNCHANGED <<events, pooling>>
    BY <1>3 DEF SendInLoop, WritesNow, UnchangedChannel
  <2>2. QED
    BY <1>1, <1>3, <2>1, CloseInvKept DEF CloseInv
<1>4. QED
  BY <1>2, <1>3

(* The second call of handleClose, as CloseOnce allows it. *)
Again ==
  closeCalls = 1 /\ closeCalls' = 2 => state # "disconnected" \/ Reading \cap asked # {}

LEMMA LoopStepClose ==
  ASSUME TypeInv, WaitInv, CloseInv, QuietInv, LoopStep \/ \E w \in BOOLEAN : Poll(w)
  PROVE  CloseInv' /\ Again
<1> USE DEF TypeInv
<1>0. closeCalls \in Nat
  BY DEF TypeOK
<1>a. asked' = asked
  BY DEF LoopStep, Poll, ConnectEstablished, ReturnFromCallback, OnClose, OnError,
         OnRead, OnWrite, TakeTasks, RunTask, DoneTasks, user
<1>b. closeCalls' = closeCalls => Again
  BY <1>0 DEF Again
<1>1. CASE \E w \in BOOLEAN : Poll(w)
  <2>1. PICK w \in BOOLEAN : Poll(w)
    BY <1>1
  <2>2. revents' = Report(w) /\ loopPc' = "callback" /\ UNCHANGED conn
    BY <2>1 DEF Poll
  <2>3. pooling = FALSE => Report(w) = {}
    BY DEF Report
  <2>4. "close" \in Report(w) => "read" \notin Report(w)
    BY DEF Report
  <2>5. QED
    BY <1>a, <1>b, <2>2, <2>3, <2>4 DEF CloseInv, conn
<1>2. CASE ConnectEstablished
  <2>1. state = "connecting" /\ state' = "connected" /\ "R" \in events'
        /\ UNCHANGED <<revents, closeCalls>> /\ loopPc' = "callback"
    BY <1>2 DEF ConnectEstablished, UpdateChannel, TypeOK
  <2>2. QED
    BY <1>a, <1>b, <2>1 DEF CloseInv
<1>3. CASE ReturnFromCallback \/ OnError \/ TakeTasks \/ DoneTasks
  <2>1. revents' \subseteq revents /\ (loopPc' = "tasks" => revents' = {}) /\ UNCHANGED conn
    BY <1>3 DEF ReturnFromCallback, OnError, TakeTasks, DoneTasks, conn
  <2>2. QED
    BY <1>a, <1>b, <2>1, CloseInvKept DEF conn
<1>4. CASE OnClose
  <2>1. /\ loopPc = "handle" /\ "close" \in revents /\ HandleClose
        /\ revents' = revents \ {"close"} /\ loopPc' = "callback"
    BY <1>4 DEF OnClose
  <2>2. revents' \subseteq {"error", "write"}
    BY <2>1 DEF CloseInv, TypeOK
  <2>3. Again
    BY <2>1 DEF Again, CloseInv
  <2>4. QED
    BY <1>a, <2>1, <2>2, <2>3, HandleCloseOnce
<1>5. CASE OnRead
  <2>1. /\ loopPc = "handle" /\ "read" \in revents /\ revents' = revents \ {"read"}
        /\ revents \cap {"close", "error"} = {}
    BY <1>5 DEF OnRead
  <2>2. CASE ReadEnd
    <3>1. revents' \subseteq {"error", "write"}
      BY <2>1 DEF TypeOK
    <3>2. Again
      BY <2>1 DEF Again, CloseInv
    <3>3. HandleClose /\ loopPc' = "callback"
      BY <2>2 DEF ReadEnd
    <3>4. QED
      BY <1>a, <2>1, <3>1, <3>2, <3>3, HandleCloseOnce
  <2>3. CASE ReadData \/ ReadError
    <3>1. loopPc' # "tasks" /\ UNCHANGED conn
      BY <2>1, <2>3 DEF ReadData, ReadError
    <3>2. QED
      BY <1>a, <1>b, <2>1, <3>1, CloseInvKept DEF conn
  <2>4. QED
    BY <1>5, <2>2, <2>3 DEF OnRead
<1>6. CASE OnWrite
  <2>1. loopPc' = loopPc /\ revents' = {}
    BY <1>6 DEF OnWrite
  <2>2. CASE state # "disconnected" /\ WriteBuffered
    <3>1. state # "connecting"
      BY <1>6, NotAccepting DEF OnWrite
    <3>2. /\ state' \in {state, "disconnecting"} /\ closeCalls' = closeCalls
          /\ events \cap {"R"} \subseteq events'
      BY <2>2 DEF WriteBuffered, EndOfBuffer, UpdateChannel, UnchangedChannel
    <3>3. QED
      BY <1>a, <1>b, <2>1, <2>2, <3>1, <3>2, CloseInvKept
  <2>3. CASE UNCHANGED conn
    BY <1>a, <1>b, <2>1, <2>3, CloseInvKept DEF conn
  <2>4. QED
    BY <1>6, <2>2, <2>3 DEF OnWrite
<1>7. CASE RunTask
  <2>1. UNCHANGED <<loopPc, revents>> /\ loopPc = "tasks" /\ revents = {}
    BY <1>7 DEF RunTask, RunSend, RunShutdown, RunForceClose, RunReading, RunNotify,
                NextTask, CloseInv
  <2>2. CASE RunSend
    <3>1. closeCalls' = closeCalls
      BY <2>2 DEF RunSend, SendInLoop
    <3>2. QED
      BY <1>a, <1>b, <2>1, <2>2, <3>1, SendInLoopOpen DEF RunSend
  <2>3. CASE RunShutdown
    BY <1>a, <1>b, <2>1, <2>3, CloseInvKept DEF RunShutdown, UnchangedChannel
  <2>4. CASE RunForceClose
    <3>1. CASE state # "disconnected" /\ HandleClose
      <4>1. Again
        BY <3>1 DEF Again
      <4>2. QED
        BY <1>a, <2>1, <3>1, <4>1, HandleCloseOnce
    <3>2. CASE UNCHANGED conn
      BY <1>a, <1>b, <2>1, <3>2, CloseInvKept DEF conn
    <3>3. QED
      BY <2>4, <3>1, <3>2 DEF RunForceClose, ClosesNow
  <2>5. CASE RunReading
    <3>1. PICK op \in Reading : NextTask(op)
      BY <2>5 DEF RunReading, Reading
    <3>2. pending \in Seq(Task) /\ pending # <<>> /\ Head(pending)[1] = op
      BY <3>1, NextTaskFacts DEF NextTask, TypeOK
    <3>3. asked \cap Reading # {}
      BY <3>2, NoTaskTail DEF QuietInv
    <3>4. UNCHANGED <<state, closeCalls>>
      BY <2>5 DEF RunReading, SetReading
    <3>5. QED
      BY <1>a, <1>b, <2>1, <3>3, <3>4, CloseInvKept
  <2>6. CASE RunNotify
    BY <1>a, <1>b, <2>1, <2>6, CloseInvKept DEF RunNotify, conn
  <2>7. QED
    BY <1>7, <2>2, <2>3, <2>4, <2>5, <2>6 DEF RunTask
<1>8. QED
  BY <1>1, <1>2, <1>3, <1>4, <1>5, <1>6, <1>7 DEF LoopStep

LEMMA CallClose ==
  ASSUME TypeInv, CloseInv, LoopSend \/ LoopCall
  PROVE  CloseInv' /\ closeCalls' = closeCalls
<1> USE DEF TypeInv
<1>0. UNCHANGED <<loopPc, revents>> /\ state # "connecting"
  BY NotAccepting DEF LoopSend, LoopCall, InUserCode
<1>1. CASE LoopSend
  BY <1>0, <1>1, SendInLoopOpen DEF LoopSend, SendInLoop
<1>2. CASE LoopShutdown \/ LoopForceClose
  <2>1. /\ state' = "disconnecting" /\ asked \subseteq asked'
        /\ UNCHANGED <<events, pooling, closeCalls>>
    BY <1>2 DEF LoopShutdown, LoopForceClose, CountCall, UnchangedChannel
  <2>2. QED
    BY <1>0, <2>1, CloseInvKept DEF CloseInv
<1>3. CASE LoopSetReading
  <2>1. /\ asked' \cap Reading # {} /\ asked \subseteq asked'
        /\ UNCHANGED <<state, closeCalls>>
    BY <1>3 DEF LoopSetReading, CountCall, SetReading, Reading
  <2>2. QED
    BY <1>0, <2>1, CloseInvKept DEF CloseInv
<1>4. QED
  BY <1>1, <1>2, <1>3 DEF LoopCall

LEMMA OthersClose ==
  ASSUME TypeInv, CloseInv,
         \/ \E u \in User : UserSend(u) \/ UserStep(u) \/ \E op \in Op : UserCall(u, op)
         \/ PeerSend \/ PeerClose \/ PeerReset \/ UNCHANGED vars
  PROVE  CloseInv' /\ closeCalls' = closeCalls
<1>1. /\ UNCHANGED <<loopPc, revents, events, pooling, closeCalls>>
      /\ asked \subseteq asked'
  BY DEF UserSend, UserStep, UserSetState, UserCall, UserQueue, UserUnchanged,
         PeerSend, PeerClose, PeerReset, NetUnchanged, conn, user, vars
<1>2. /\ state' = "disconnected" => state = "disconnected"
      /\ state' = "connecting" <=> state = "connecting"
  <2>1. CASE state' = state
    BY <2>1
  <2>2. CASE \E u \in User : UserSetState(u)
    BY <2>2 DEF UserSetState, TypeInv, CallInv
  <2>3. QED
    BY <2>1, <2>2 DEF UserSend, UserStep, UserCall, UserQueue,
         PeerSend, PeerClose, PeerReset, NetUnchanged, conn, vars
<1>3. QED
  BY <1>1, <1>2, CloseInvKept DEF CloseInv, TypeInv

LEMMA CloseStep ==
  TypeInv /\ WaitInv /\ QuietInv /\ CloseInv /\ [Next]_vars => CloseInv' /\ Again
<1> SUFFICES ASSUME TypeInv, WaitInv, QuietInv, CloseInv, [Next]_vars
             PROVE  CloseInv' /\ Again
  OBVIOUS
<1>1. closeCalls' = closeCalls => Again
  BY DEF Again, TypeInv, TypeOK
<1>2. QED
  BY <1>1, LoopStepClose, CallClose, OthersClose DEF Next

(* closeCallback_ is called a second time only for a connection that was   *)
(* brought back: by a thread that assigns state_, or by a change of its    *)
(* reading.                                                                *)
THEOREM ClosedOnce == Spec => CloseOnce
<1>1. TypeInv /\ QuietInv /\ [Next]_vars => QuietInv'
  BY QuietStep
<1>2. TypeInv /\ WaitInv /\ QuietInv /\ CloseInv /\ [Next]_vars => CloseInv'
  BY CloseStep
<1>3. TypeInv /\ WaitInv /\ QuietInv /\ CloseInv /\ [Next]_vars =>
        [closeCalls = 1 /\ closeCalls' = 2 =>
           state # "disconnected" \/ {"stopRead", "startRead"} \cap asked # {}]_vars
  BY CloseStep DEF Again, Reading
<1>4. QED
  BY <1>1, <1>2, <1>3, InitType, TypeStep, InitWaits, WaitStep, InitQuiet, UnshutStep,
     InitClose, PTL DEF Spec, CloseOnce

LEMMA RevivedStep ==
  TypeInv /\ [Next]_vars =>
    [state = "disconnected" =>
       state' = "disconnected" \/ \E u \in User : userPc[u].at = "set"]_vars
<1> SUFFICES ASSUME TypeInv, [Next]_vars, state = "disconnected",
                    \A u \in User : userPc[u].at # "set"
             PROVE  state' = "disconnected"
  OBVIOUS
<1>1. loopPc # "accept"
  BY DEF TypeInv, TypeOK
<1>2. CASE OnClose \/ OnRead \/ OnWrite
  BY <1>2 DEF OnClose, OnRead, OnWrite, ReadData, ReadError, ReadEnd, HandleClose, conn
<1>3. CASE RunTask
  BY <1>3 DEF RunTask, RunSend, RunShutdown, RunForceClose, RunReading, RunNotify,
              SendInLoop, HandleClose, SetReading, conn
<1>4. CASE LoopSend \/ LoopCall
  <2>1. CASE LoopSend
    BY <2>1 DEF LoopSend
  <2>2. CASE LoopShutdown \/ LoopForceClose
    BY <2>2 DEF LoopShutdown, LoopForceClose, CountCall, Passes
  <2>3. CASE LoopSetReading
    BY <2>3 DEF LoopSetReading, SetReading
  <2>4. QED
    BY <1>4, <2>1, <2>2, <2>3 DEF LoopCall
<1>5. CASE \E u \in User : UserSend(u) \/ UserStep(u) \/ \E op \in Op : UserCall(u, op)
  BY <1>5 DEF UserSend, UserStep, UserSetState, UserQueue, UserCall
<1>6. CASE \/ \E w \in BOOLEAN : Poll(w)
           \/ ReturnFromCallback \/ OnError \/ TakeTasks \/ DoneTasks
           \/ PeerSend \/ PeerClose \/ PeerReset \/ UNCHANGED vars
  BY <1>6 DEF Poll, ReturnFromCallback, OnError, TakeTasks, DoneTasks,
              PeerSend, PeerClose, PeerReset, NetUnchanged, conn, vars
<1>7. ~ConnectEstablished
  BY <1>1 DEF ConnectEstablished
<1>8. CASE LoopStep
  BY <1>2, <1>3, <1>6, <1>7, <1>8 DEF LoopStep
<1>9. QED
  BY <1>4, <1>5, <1>6, <1>8 DEF Next

(* Whatever is called from wherever, a closed connection comes back only   *)
(* by the race between test and assignment of state_.                      *)
THEOREM RevivedByRaceOnly == Spec => OnlyARaceRevives
BY InitType, TypeStep, RevivedStep, PTL DEF Spec, OnlyARaceRevives

-----------------------------------------------------------------------------
(* The stream.  Messages are numbered by their senders; handed counts the  *)
(* messages that each actor has brought as far as the queue or the loop.   *)

Sending(a) == a \in User /\ userPc[a].at = "queue" /\ userPc[a].op = "send"

handed == [a \in Actor |-> IF Sending(a) THEN nsent[a] - 1 ELSE nsent[a]]

Stream == wire \o outputBuffer

(* StreamIntact, of a sequence of parts. *)
Intact(s) ==
  \A i \in 1..Len(s) :
    /\ IF i = 1 \/ s[i-1].k = MsgLen
       THEN s[i].k = 1
       ELSE s[i] = [s[i-1] EXCEPT !.k = @ + 1]
    /\ \A j \in 1..(i-1) :
         s[j].msg.by = s[i].msg.by =>
           \/ s[j].msg.n < s[i].msg.n
           \/ s[j].msg = s[i].msg /\ s[j].k < s[i].k

(* Message m comes after all that its sender has in s. *)
After(m, s) == \A j \in 1..Len(s) : s[j].msg.by = m.by => s[j].msg.n < m.n

(* s ends with a whole message, and contains what was handed over. *)
StreamInv(s, c) ==
  /\ Intact(s)
  /\ s # <<>> => s[Len(s)].k = MsgLen
  /\ \A j \in 1..Len(s) : s[j].msg.n <= c[s[j].msg.by]

IsSend(t) == t[1] = "send"

(* The queued messages come after it in the order of their senders' calls. *)
QueueInv(q, s, c) ==
  \A i \in 1..Len(q) : IsSend(q[i]) =>
    /\ q[i][2].by \in User /\ q[i][2].n <= c[q[i][2].by]
    /\ After(q[i][2], s)
    /\ \A h \in 1..(i-1) :
         IsSend(q[h]) /\ q[h][2].by = q[i][2].by => q[h][2].n < q[i][2].n

OrderInv == StreamInv(Stream, handed) /\ QueueInv(pending, Stream, handed)

LEMMA GrownStream ==
  ASSUME NEW s \in Seq(Part), NEW m \in Msg
  PROVE  /\ s \o Parts(m) \in Seq(Part)
         /\ Len(s \o Parts(m)) = Len(s) + MsgLen /\ Len(s) \in Nat /\ MsgLen \in Nat \ {0}
         /\ \A i \in 1..Len(s) : (s \o Parts(m))[i] = s[i]
         /\ \A i \in (Len(s) + 1)..(Len(s) + MsgLen) :
              (s \o Parts(m))[i] = [msg |-> m, k |-> i - Len(s)]
<1>1. Parts(m) \in Seq(Part) /\ Len(Parts(m)) = MsgLen /\ MsgLen \in Nat \ {0}
  BY PartsType
<1>2. Len(s) \in Nat
  BY LenProperties
<1>3. /\ s \o Parts(m) \in Seq(Part)
      /\ Len(s \o Parts(m)) = Len(s) + MsgLen
      /\ \A i \in 1..(Len(s) + MsgLen) :
           (s \o Parts(m))[i] = IF i <= Len(s) THEN s[i] ELSE Parts(m)[i - Len(s)]
  BY <1>1, ConcatProperties
<1>4. ASSUME NEW i \in 1..Len(s)
      PROVE  (s \o Parts(m))[i] = s[i]
  BY <1>1, <1>2, <1>3
<1>5. ASSUME NEW i \in (Len(s) + 1)..(Len(s) + MsgLen)
      PROVE  (s \o Parts(m))[i] = [msg |-> m, k |-> i - Len(s)]
  <2>1. i \in 1..(Len(s) + MsgLen) /\ ~(i <= Len(s)) /\ i - Len(s) \in 1..MsgLen
    BY <1>1, <1>2
  <2>2. Parts(m)[i - Len(s)] = [msg |-> m, k |-> i - Len(s)]
    BY <2>1 DEF Parts
  <2>3. QED
    BY <1>3, <2>1, <2>2
<1>6. QED
  BY <1>1, <1>2, <1>3, <1>4, <1>5

LEMMA PartFacts ==
  ASSUME NEW s \in Seq(Part), NEW i \in 1..Len(s)
  PROVE  /\ s[i] \in Part /\ s[i].msg \in Msg /\ s[i].k \in 1..MsgLen
         /\ s[i].msg.n \in Nat /\ s[i].msg.by \in Actor
<1>1. s[i] \in Part
  BY ElementOfSeq
<1>2. s[i].msg \in Msg /\ s[i].k \in 1..MsgLen
  BY <1>1 DEF Part
<1>3. QED
  BY <1>1, <1>2, BoundAssumption DEF Msg

(* A whole message that comes after what its sender has in s keeps s       *)
(* intact.                                                                 *)
LEMMA IntactGrows ==
  ASSUME NEW s \in Seq(Part), NEW m \in Msg, Intact(s), After(m, s),
         s # <<>> => s[Len(s)].k = MsgLen
  PROVE  Intact(s \o Parts(m))
<1> DEFINE t == s \o Parts(m)
<1>1. /\ Len(t) = Len(s) + MsgLen /\ Len(s) \in Nat /\ MsgLen \in Nat \ {0}
      /\ \A i \in 1..Len(s) : t[i] = s[i]
      /\ \A i \in (Len(s) + 1)..(Len(s) + MsgLen) : t[i] = [msg |-> m, k |-> i - Len(s)]
  BY GrownStream
<1> HIDE DEF t
<1>2. ASSUME NEW i \in 1..Len(t)
      PROVE  /\ IF i = 1 \/ t[i-1].k = MsgLen
                THEN t[i].k = 1
                ELSE t[i] = [t[i-1] EXCEPT !.k = @ + 1]
             /\ \A j \in 1..(i-1) :
                  t[j].msg.by = t[i].msg.by =>
                    \/ t[j].msg.n < t[i].msg.n
                    \/ t[j].msg = t[i].msg /\ t[j].k < t[i].k
  <2>1. CASE i \in 1..Len(s)
    <3>1. t[i] = s[i] /\ (i # 1 => i - 1 \in 1..Len(s) /\ t[i-1] = s[i-1])
      BY <1>1, <2>1
    <3>2. \A j \in 1..(i-1) : t[j] = s[j]
      BY <1>1, <2>1
    <3>3. /\ IF i = 1 \/ s[i-1].k = MsgLen
             THEN s[i].k = 1
             ELSE s[i] = [s[i-1] EXCEPT !.k = @ + 1]
          /\ \A j \in 1..(i-1) :
               s[j].msg.by = s[i].msg.by =>
                 \/ s[j].msg.n < s[i].msg.n
                 \/ s[j].msg = s[i].msg /\ s[j].k < s[i].k
      BY <2>1 DEF Intact
    <3>4. QED
      BY <3>1, <3>2, <3>3
  <2>2. CASE i \in (Len(s) + 1)..(Len(s) + MsgLen)
    <3>1. t[i] = [msg |-> m, k |-> i - Len(s)]
      BY <1>1, <2>2
    <3>2. IF i = 1 \/ t[i-1].k = MsgLen
          THEN t[i].k = 1
          ELSE t[i] = [t[i-1] EXCEPT !.k = @ + 1]
      <4>1. CASE i = Len(s) + 1
        <5>1. t[i].k = 1
          BY <1>1, <3>1, <4>1
        <5>2. i # 1 => s # <<>> /\ t[i-1] = s[Len(s)]
          BY <1>1, <4>1
        <5>3. i = 1 \/ t[i-1].k = MsgLen
          BY <5>2
        <5>4. QED
          BY <5>1, <5>3
      <4>2. CASE i # Len(s) + 1
        <5>1. i - 1 \in (Len(s) + 1)..(Len(s) + MsgLen) /\ i # 1
          BY <1>1, <2>2, <4>2
        <5>2. t[i-1] = [msg |-> m, k |-> (i - 1) - Len(s)]
          BY <1>1, <5>1
        <5>3. (i - 1) - Len(s) # MsgLen /\ ((i - 1) - Len(s)) + 1 = i - Len(s)
          BY <1>1, <2>2
        <5>4. t[i] = [t[i-1] EXCEPT !.k = @ + 1]
          BY <3>1, <5>2, <5>3
        <5>5. t[i-1].k # MsgLen
          BY <5>2, <5>3
        <5>6. QED
          BY <5>1, <5>4, <5>5
      <4>3. QED
        BY <4>1, <4>2
    <3>3. ASSUME NEW j \in 1..(i-1), t[j].msg.by = t[i].msg.by
          PROVE  \/ t[j].msg.n < t[i].msg.n
                 \/ t[j].msg = t[i].msg /\ t[j].k < t[i].k
      <4>1. CASE j \in 1..Len(s)
        <5>1. t[j] = s[j] /\ t[i].msg = m
          BY <1>1, <3>1, <4>1
        <5>2. QED
          BY <3>3, <4>1, <5>1 DEF After
      <4>2. CASE j \in (Len(s) + 1)..(Len(s) + MsgLen)
        <5>1. t[j] = [msg |-> m, k |-> j - Len(s)]
          BY <1>1, <4>2
        <5>2. j - Len(s) < i - Len(s)
          BY <1>1, <2>2
        <5>3. t[j].msg = t[i].msg /\ t[j].k < t[i].k
          BY <3>1, <5>1, <5>2
        <5>4. QED
          BY <5>3
      <4>3. QED
        BY <1>1, <2>2, <4>1, <4>2
    <3>4. QED
      BY <3>2, <3>3
  <2>3. QED
    BY <1>1, <2>1, <2>2
<1>3. QED
  BY <1>2 DEF Intact, t

LEMMA StreamGrows ==
  ASSUME NEW s \in Seq(Part), NEW m \in Msg, NEW c,
         StreamInv(s, c), After(m, s), m.n <= c[m.by]
  PROVE  StreamInv(s \o Parts(m), c)
<1> DEFINE t == s \o Parts(m)
<1>1. /\ Len(t) = Len(s) + MsgLen /\ Len(s) \in Nat /\ MsgLen \in Nat \ {0}
      /\ \A i \in 1..Len(s) : t[i] = s[i]
      /\ \A i \in (Len(s) + 1)..(Len(s) + MsgLen) : t[i] = [msg |-> m, k |-> i - Len(s)]
  BY GrownStream
<1>2. Intact(t)
  BY IntactGrows DEF StreamInv
<1> HIDE DEF t
<1>3. t[Len(t)].k = MsgLen
  <2>1. Len(t) \in (Len(s) + 1)..(Len(s) + MsgLen) /\ Len(t) - Len(s) = MsgLen
    BY <1>1
  <2>2. t[Len(t)] = [msg |-> m, k |-> Len(t) - Len(s)]
    BY <1>1, <2>1
  <2>3. QED
    BY <2>1, <2>2
<1>4. ASSUME NEW j \in 1..Len(t)
      PROVE  t[j].msg.n <= c[t[j].msg.by]
  <2>1. CASE j \in 1..Len(s)
    BY <1>1, <2>1 DEF StreamInv
  <2>2. CASE j \in (Len(s) + 1)..(Len(s) + MsgLen)
    <3>1. t[j] = [msg |-> m, k |-> j - Len(s)]
      BY <1>1, <2>2
    <3>2. QED
      BY <3>1
  <2>3. QED
    BY <1>1, <2>1, <2>2
<1>5. StreamInv(t, c)
  BY <1>2, <1>3, <1>4 DEF StreamInv
<1>6. QED
  BY <1>5 DEF t

LEMMA AfterGrows ==
  ASSUME NEW s \in Seq(Part), NEW m \in Msg, NEW x, After(x, s), m.by = x.by => m.n < x.n
  PROVE  After(x, s \o Parts(m))
<1> DEFINE t == s \o Parts(m)
<1>1. /\ Len(t) = Len(s) + MsgLen /\ Len(s) \in Nat /\ MsgLen \in Nat \ {0}
      /\ \A i \in 1..Len(s) : t[i] = s[i]
      /\ \A i \in (Len(s) + 1)..(Len(s) + MsgLen) : t[i] = [msg |-> m, k |-> i - Len(s)]
  BY GrownStream
<1> HIDE DEF t
<1>2. ASSUME NEW j \in 1..Len(t), t[j].msg.by = x.by
      PROVE  t[j].msg.n < x.n
  <2>1. CASE j \in 1..Len(s)
    BY <1>1, <1>2, <2>1 DEF After
  <2>2. CASE j \in (Len(s) + 1)..(Len(s) + MsgLen)
    <3>1. t[j] = [msg |-> m, k |-> j - Len(s)]
      BY <1>1, <2>2
    <3>2. QED
      BY <1>2, <3>1
  <2>3. QED
    BY <1>1, <2>1, <2>2
<1>3. QED
  BY <1>2 DEF After, t

(* The queue, as tasks are appended and taken. *)

LEMMA QueueAppend ==
  ASSUME NEW q \in Seq(Task), NEW t \in Task, NEW s, NEW c, QueueInv(q, s, c),
         IsSend(t) =>
           /\ t[2].by \in User /\ t[2].n <= c[t[2].by]
           /\ After(t[2], s)
           /\ \A h \in 1..Len(q) :
                IsSend(q[h]) /\ q[h][2].by = t[2].by => q[h][2].n < t[2].n
  PROVE  QueueInv(Append(q, t), s, c)
<1> DEFINE r == Append(q, t)
<1>1. /\ Len(r) = Len(q) + 1 /\ Len(q) \in Nat
      /\ \A i \in 1..Len(q) : r[i] = q[i]
      /\ r[Len(q) + 1] = t
  BY AppendProperties, LenProperties
<1> HIDE DEF r
<1>2. ASSUME NEW i \in 1..Len(r), IsSend(r[i])
      PROVE  /\ r[i][2].by \in User /\ r[i][2].n <= c[r[i][2].by]
             /\ After(r[i][2], s)
             /\ \A h \in 1..(i-1) :
                  IsSend(r[h]) /\ r[h][2].by = r[i][2].by => r[h][2].n < r[i][2].n
  <2>1. \A h \in 1..(i-1) : r[h] = q[h]
    BY <1>1
  <2>2. CASE i \in 1..Len(q)
    BY <1>1, <1>2, <2>1, <2>2 DEF QueueInv
  <2>3. CASE i = Len(q) + 1
    BY <1>1, <1>2, <2>1, <2>3
  <2>4. QED
    BY <1>1, <2>2, <2>3
<1>3. QED
  BY <1>2 DEF QueueInv, r

LEMMA QueueTail ==
  ASSUME NEW q \in Seq(Task), q # <<>>, NEW s, NEW c, QueueInv(q, s, c)
  PROVE  QueueInv(Tail(q), s, c)
<1> DEFINE r == Tail(q)
<1>1. /\ Len(r) = Len(q) - 1 /\ Len(q) \in Nat \ {0}
      /\ \A i \in 1..Len(r) : r[i] = q[i + 1]
  BY HeadTailProperties, LenProperties
<1> HIDE DEF r
<1>2. ASSUME NEW i \in 1..Len(r), IsSend(r[i])
      PROVE  /\ r[i][2].by \in User /\ r[i][2].n <= c[r[i][2].by]
             /\ After(r[i][2], s)
             /\ \A h \in 1..(i-1) :
                  IsSend(r[h]) /\ r[h][2].by = r[i][2].by => r[h][2].n < r[i][2].n
  <2>1. r[i] = q[i + 1] /\ i + 1 \in 1..Len(q) /\ i \in Nat
    BY <1>1
  <2>2. /\ r[i][2].by \in User /\ r[i][2].n <= c[r[i][2].by]
        /\ After(r[i][2], s)
        /\ \A h \in 1..((i + 1) - 1) :
             IsSend(q[h]) /\ q[h][2].by = r[i][2].by => q[h][2].n < r[i][2].n
    BY <1>2, <2>1 DEF QueueInv
  <2>3. ASSUME NEW h \in 1..(i-1)
        PROVE  r[h] = q[h + 1] /\ h + 1 \in 1..((i + 1) - 1)
    BY <1>1, <2>1
  <2>4. QED
    BY <2>2, <2>3
<1>3. QED
  BY <1>2 DEF QueueInv, r

(* More has been handed over. *)
LEMMA MoreHanded ==
  ASSUME NEW s \in Seq(Part), NEW q \in Seq(Task),
         NEW c \in [Actor -> Int], NEW d \in [Actor -> Int],
         \A a \in Actor : c[a] <= d[a]
  PROVE  /\ StreamInv(s, c) => StreamInv(s, d)
         /\ QueueInv(q, s, c) => QueueInv(q, s, d)
<1>1. ASSUME NEW m \in Msg, m.n <= c[m.by]
      PROVE  m.n <= d[m.by]
  <2>1. m.by \in Actor /\ m.n \in Nat
    BY BoundAssumption DEF Msg
  <2>2. c[m.by] \in Int /\ d[m.by] \in Int /\ c[m.by] <= d[m.by]
    BY <2>1
  <2>3. QED
    BY <1>1, <2>1, <2>2
<1>2. StreamInv(s, c) => StreamInv(s, d)
  BY <1>1, PartFacts DEF StreamInv
<1>3. ASSUME QueueInv(q, s, c), NEW i \in 1..Len(q), IsSend(q[i])
      PROVE  q[i][2].n <= d[q[i][2].by]
  <2>1. q[i] \in Task
    BY ElementOfSeq
  <2>2. q[i][2] \in Msg /\ q[i][2].n <= c[q[i][2].by]
    BY <1>3, <2>1, TaskFacts DEF IsSend, QueueInv
  <2>3. QED
    BY <1>1, <2>2
<1>4. QED
  BY <1>2, <1>3 DEF QueueInv

(* The stream grows by a message that is before all that its sender has in *)
(* the queue. *)
LEMMA QueueBehind ==
  ASSUME NEW s \in Seq(Part), NEW m \in Msg, NEW q, NEW c, QueueInv(q, s, c),
         \A i \in 1..Len(q) : IsSend(q[i]) /\ q[i][2].by = m.by => m.n < q[i][2].n
  PROVE  QueueInv(q, s \o Parts(m), c)
<1>1. ASSUME NEW i \in 1..Len(q), IsSend(q[i])
      PROVE  After(q[i][2], s \o Parts(m))
  <2>1. After(q[i][2], s)
    BY <1>1 DEF QueueInv
  <2>2. QED
    BY <1>1, <2>1, AfterGrows
<1>2. QED
  BY <1>1 DEF QueueInv

(* The first of the queue is written or buffered. *)
LEMMA HeadSent ==
  ASSUME NEW s \in Seq(Part), NEW q \in Seq(Task), q # <<>>, IsSend(Head(q)), NEW c,
         StreamInv(s, c), QueueInv(q, s, c)
  PROVE  /\ StreamInv(s \o Parts(Head(q)[2]), c)
         /\ QueueInv(Tail(q), s \o Parts(Head(q)[2]), c)
<1> DEFINE m == Head(q)[2]
           r == Tail(q)
<1>1. Len(q) \in Nat \ {0} /\ 1 \in 1..Len(q) /\ Head(q) = q[1] /\ Head(q) \in Task
  BY HeadTailProperties, LenProperties
<1>2. m \in Msg
  BY <1>1, TaskFacts DEF IsSend
<1>3. m.n <= c[m.by] /\ After(m, s)
  BY <1>1 DEF QueueInv
<1>4. StreamInv(s \o Parts(m), c)
  BY <1>2, <1>3, StreamGrows
<1>5. Len(r) = Len(q) - 1 /\ \A i \in 1..Len(r) : r[i] = q[i + 1]
  BY HeadTailProperties
<1>6. ASSUME NEW i \in 1..Len(r), IsSend(r[i]), r[i][2].by = m.by
      PROVE  m.n < r[i][2].n
  <2>1. i + 1 \in 1..Len(q) /\ 1 \in 1..((i + 1) - 1) /\ r[i] = q[i + 1]
    BY <1>1, <1>5
  <2>2. QED
    BY <1>1, <1>6, <2>1 DEF QueueInv
<1>7. QueueInv(r, s, c)
  BY QueueTail
<1>8. QueueInv(r, s \o Parts(m), c)
  <2> HIDE DEF r, m
  <2>1. QED
    BY <1>2, <1>6, <1>7, QueueBehind
<1>9. QED
  BY <1>4, <1>8

-----------------------------------------------------------------------------
(* The steps, as far as the stream and the queue are concerned. *)

LEMMA HandedType ==
  ASSUME TypeInv
  PROVE  /\ handed \in [Actor -> Int]
         /\ \A a \in Actor : handed[a] = IF Sending(a) THEN nsent[a] - 1 ELSE nsent[a]
         /\ ~Sending("loop") /\ "loop" \in Actor
<1>1. \A a \in Actor : nsent[a] \in Int
  BY BoundAssumption DEF TypeInv, TypeOK
<1>2. \A a \in Actor : (IF Sending(a) THEN nsent[a] - 1 ELSE nsent[a]) \in Int
  BY <1>1
<1>3. /\ handed \in [Actor -> Int]
      /\ \A a \in Actor : handed[a] = IF Sending(a) THEN nsent[a] - 1 ELSE nsent[a]
  BY <1>2 DEF handed
<1>4. QED
  BY <1>3, UserAssumption DEF Sending, Actor

LEMMA StreamType ==
  ASSUME TypeInv
  PROVE  Stream \in Seq(Part) /\ pending \in Seq(Task) /\ wire \in Seq(Part) /\ outputBuffer \in Seq(Part)
BY ConcatProperties DEF TypeInv, TypeOK, Stream

LEMMA CutAnywhere ==
  ASSUME NEW s \in Seq(Part), NEW n \in 0..Len(s)
  PROVE  /\ SubSeq(s, 1, n) \in Seq(Part) /\ SubSeq(s, n + 1, Len(s)) \in Seq(Part)
         /\ SubSeq(s, 1, n) \o SubSeq(s, n + 1, Len(s)) = s
<1>1. Len(s) \in Nat
  BY LenProperties
<1>2. SubSeq(s, 1, n) \in Seq(Part) /\ SubSeq(s, n + 1, Len(s)) \in Seq(Part)
  BY <1>1, PieceType
<1>3. 1 \in 1..(Len(s) + 1) /\ n \in (1 - 1)..Len(s) /\ Len(s) \in n..Len(s)
  BY <1>1
<1>4. SubSeq(s, 1, n) \o SubSeq(s, n + 1, Len(s)) = SubSeq(s, 1, Len(s))
  BY <1>3, ConcatAdjacentSubSeq
<1>5. QED
  BY <1>2, <1>4, SubSeqFull

LEMMA PartsAssociate ==
  ASSUME NEW s \in Seq(Part), NEW t \in Seq(Part), NEW u \in Seq(Part)
  PROVE  (s \o t) \o u = s \o (t \o u)
BY ConcatAssociative

LEMMA WriteOrBufferStream ==
  ASSUME TypeInv, WritesNow, NEW m \in Msg, NEW q, WriteOrBuffer(m, q)
  PROVE  Stream' = Stream \o Parts(m)
<1>1. PICK n \in 0..MsgLen :
        /\ wire' = wire \o SubSeq(Parts(m), 1, n)
        /\ outputBuffer' = outputBuffer \o SubSeq(Parts(m), n + 1, MsgLen)
  BY WriteOrBufferCut
<1> DEFINE a == SubSeq(Parts(m), 1, n)
           b == SubSeq(Parts(m), n + 1, MsgLen)
<1>2. a \in Seq(Part) /\ b \in Seq(Part) /\ a \o b = Parts(m)
  BY PartsType, CutAnywhere
<1> HIDE DEF a, b
<1>3. outputBuffer' = b /\ Stream = wire
  BY <1>1, <1>2, StreamType, ConcatEmptySeq DEF WritesNow, Stream, b
<1>4. wire' = wire \o a
  BY <1>1 DEF a
<1>5. (wire \o a) \o b = wire \o (a \o b)
  <2>1. wire \in Seq(Part)
    BY StreamType
  <2>2. QED
    BY <1>2, <2>1, PartsAssociate
<1>6. QED
  BY <1>2, <1>3, <1>4, <1>5 DEF Stream

LEMMA WriteBufferedStream ==
  ASSUME TypeInv, WriteBuffered
  PROVE  Stream' = Stream
<1>1. PICK n \in (IF outputBuffer = <<>> THEN {0} ELSE 1..Len(outputBuffer)) :
        /\ wire' = wire \o SubSeq(outputBuffer, 1, n)
        /\ outputBuffer' = SubSeq(outputBuffer, n + 1, Len(outputBuffer))
  BY DEF WriteBuffered
<1>2. n \in 0..Len(outputBuffer)
  BY <1>1, StreamType, LenProperties
<1> DEFINE a == SubSeq(outputBuffer, 1, n)
           b == SubSeq(outputBuffer, n + 1, Len(outputBuffer))
<1>3. a \in Seq(Part) /\ b \in Seq(Part) /\ a \o b = outputBuffer
  BY <1>2, StreamType, CutAnywhere
<1>4. wire' = wire \o a /\ outputBuffer' = b
  BY <1>1
<1> HIDE DEF a, b
<1>5. (wire \o a) \o b = wire \o (a \o b)
  <2>1. wire \in Seq(Part)
    BY StreamType
  <2>2. QED
    BY <1>3, <2>1, PartsAssociate
<1>6. QED
  BY <1>3, <1>4, <1>5 DEF Stream

LEMMA NotifiedOrder ==
  ASSUME NEW kind \in {"writeComplete", "highWater"}, NEW when, NEW q \in Seq(Task),
         NEW s, NEW c, QueueInv(q, s, c)
  PROVE  QueueInv(Notified(kind, when, q), s, c)
<1>1. <<kind>> \in Task /\ ~IsSend(<<kind>>)
  BY TaskFacts DEF IsSend
<1>2. QED
  BY <1>1, QueueAppend DEF Notified

(* sendInLoop leaves the stream alone or lets it grow by the message. *)
LEMMA SendInLoopOrder ==
  ASSUME TypeInv, NEW m \in Msg, NEW q \in Seq(Task), NEW c, SendInLoop(m, q),
         StreamInv(Stream, c), QueueInv(q, Stream, c),
         StreamInv(Stream \o Parts(m), c), QueueInv(q, Stream \o Parts(m), c)
  PROVE  StreamInv(Stream', c) /\ QueueInv(pending', Stream', c)
<1>1. CASE WritesNow /\ WriteOrBuffer(m, q)
  <2>1. Stream' = Stream \o Parts(m)
    BY <1>1, WriteOrBufferStream
  <2>2. \/ pending' = Notified("writeComplete", TRUE, q)
        \/ \E n \in 0..MsgLen :
             pending' = Notified("highWater", HighWaterMark \in 1..(MsgLen - n), q)
    BY <1>1, WriteOrBufferCut
  <2>3. QueueInv(pending', Stream \o Parts(m), c)
    BY <2>2, NotifiedOrder
  <2>4. QED
    BY <2>1, <2>3
<1>2. CASE pending' = q /\ UNCHANGED <<outputBuffer, wire>>
  BY <1>2 DEF Stream
<1>3. QED
  BY <1>1, <1>2 DEF SendInLoop

(* A step that leaves the stream and the senders alone. *)
LEMMA OrderKept ==
  ASSUME OrderInv, Stream' = Stream, UNCHANGED <<nsent, userPc>>,
         QueueInv(pending', Stream, handed)
  PROVE  OrderInv'
<1>1. handed' = handed
  BY DEF handed, Sending
<1>2. QED
  BY <1>1 DEF OrderInv

LEMMA InitOrder == Init => OrderInv
<1> SUFFICES ASSUME Init PROVE OrderInv
  OBVIOUS
<1>1. pending = <<>> /\ Stream = <<>>
  BY ConcatEmptySeq DEF Init, Stream
<1>2. QED
  BY <1>1 DEF OrderInv, StreamInv, QueueInv, Intact

LEMMA LoopStepOrder ==
  ASSUME TypeInv, OrderInv, LoopStep \/ \E w \in BOOLEAN : Poll(w)
  PROVE  OrderInv'
<1>0. /\ StreamInv(Stream, handed) /\ QueueInv(pending, Stream, handed)
      /\ pending \in Seq(Task) /\ Stream \in Seq(Part)
  BY StreamType DEF OrderInv
<1>1. CASE \/ \E w \in BOOLEAN : Poll(w)
           \/ ConnectEstablished \/ ReturnFromCallback
           \/ OnClose \/ OnError \/ OnRead \/ TakeTasks \/ DoneTasks
  <2>1. UNCHANGED <<pending, wire, outputBuffer, nsent, userPc>>
    BY <1>1 DEF Poll, ConnectEstablished, ReturnFromCallback, OnClose, OnError, OnRead,
                ReadData, ReadError, ReadEnd, HandleClose, TakeTasks, DoneTasks, conn, user
  <2>2. Stream' = Stream
    BY <2>1 DEF Stream
  <2>3. QED
    BY <1>0, <2>1, <2>2, OrderKept
<1>2. CASE OnWrite
  <2>1. UNCHANGED <<nsent, userPc>>
    BY <1>2 DEF OnWrite, user
  <2>2. CASE WriteBuffered
    <3>1. pending' = pending \/ pending' = Notified("writeComplete", TRUE, pending)
      BY <2>2 DEF WriteBuffered
    <3>2. QED
      BY <1>0, <2>1, <2>2, <3>1, WriteBufferedStream, NotifiedOrder, OrderKept
  <2>3. CASE UNCHANGED <<pending, conn>>
    <3>1. Stream' = Stream
      BY <2>3 DEF conn, Stream
    <3>2. QED
      BY <1>0, <2>1, <2>3, <3>1, OrderKept
  <2>4. QED
    BY <1>2, <2>2, <2>3 DEF OnWrite
<1>3. CASE RunTask
  <2>1. UNCHANGED <<nsent, userPc>>
    BY <1>3 DEF RunTask, user
  <2>2. PICK op : NextTask(op)
    BY <1>3 DEF RunTask, RunSend, RunShutdown, RunForceClose, RunReading, RunNotify
  <2>3. pending # <<>> /\ Head(pending) \in Task /\ Tail(pending) \in Seq(Task)
    BY <2>2, NextTaskFacts
  <2>4. QueueInv(Tail(pending), Stream, handed)
    BY <1>0, <2>3, QueueTail
  <2>5. CASE RunSend
    <3> DEFINE m == Head(pending)[2]
    <3>1. IsSend(Head(pending)) /\ SendInLoop(m, Tail(pending))
      BY <2>5 DEF RunSend, NextTask, IsSend
    <3>2. m \in Msg
      BY <2>3, <3>1, TaskFacts DEF IsSend
    <3>3. /\ StreamInv(Stream \o Parts(m), handed)
          /\ QueueInv(Tail(pending), Stream \o Parts(m), handed)
      BY <1>0, <2>3, <3>1, HeadSent
    <3>4. StreamInv(Stream', handed) /\ QueueInv(pending', Stream', handed)
      BY <1>0, <2>3, <2>4, <3>1, <3>2, <3>3, SendInLoopOrder
    <3>5. handed' = handed
      BY <2>1 DEF handed, Sending
    <3>6. QED
      BY <3>4, <3>5 DEF OrderInv
  <2>6. CASE RunShutdown \/ RunForceClose \/ RunReading \/ RunNotify
    <3>1. pending' = Tail(pending) /\ UNCHANGED <<wire, outputBuffer>>
      BY <2>6 DEF RunShutdown, RunForceClose, RunReading, RunNotify, HandleClose,
                  SetReading, conn
    <3>2. Stream' = Stream
      BY <3>1 DEF Stream
    <3>3. QED
      BY <2>1, <2>4, <3>1, <3>2, OrderKept
  <2>7. QED
    BY <1>3, <2>5, <2>6 DEF RunTask
<1>4. QED
  BY <1>1, <1>2, <1>3 DEF LoopStep

(* A message sent in the loop's thread is the latest of "loop", and none   *)
(* of "loop" is queued.                                                    *)
LEMMA LoopSendOrder ==
  ASSUME TypeInv, OrderInv, LoopSend
  PROVE  OrderInv'
<1> DEFINE m == [by |-> "loop", n |-> nsent["loop"] + 1]
           c == [handed EXCEPT !["loop"] = nsent["loop"] + 1]
<1>0. /\ StreamInv(Stream, handed) /\ QueueInv(pending, Stream, handed)
      /\ pending \in Seq(Task) /\ Stream \in Seq(Part)
  BY StreamType DEF OrderInv
<1>1. /\ nsent["loop"] < MaxSend /\ nsent' = [nsent EXCEPT !["loop"] = @ + 1]
      /\ SendInLoop(m, pending) /\ userPc' = userPc
  BY DEF LoopSend
<1>2. nsent["loop"] \in 0..MaxSend /\ MaxSend \in Nat /\ "loop" \in Actor
  BY BoundAssumption DEF TypeInv, TypeOK, Actor
<1>3. m \in Msg /\ m.by = "loop" /\ m.n = nsent["loop"] + 1
  BY <1>1, <1>2 DEF Msg
<1>4. handed \in [Actor -> Int] /\ handed["loop"] = nsent["loop"]
  BY HandedType
<1>5. /\ c \in [Actor -> Int] /\ c["loop"] = nsent["loop"] + 1
      /\ \A a \in Actor : handed[a] <= c[a]
  BY <1>2, <1>4
<1>6. handed' = c
  <2>1. nsent \in [Actor -> 0..MaxSend]
    BY DEF TypeInv, TypeOK
  <2>2. \A a \in Actor : Sending(a)' = Sending(a)
    BY <1>1 DEF Sending
  <2>3. ASSUME NEW a \in Actor
        PROVE  (IF Sending(a) THEN nsent'[a] - 1 ELSE nsent'[a]) = c[a]
    <3>1. CASE a = "loop"
      BY <1>1, <1>2, <2>1, <3>1, <1>5, HandedType
    <3>2. CASE a # "loop"
      BY <1>1, <2>1, <3>2, <1>4, HandedType
    <3>3. QED
      BY <3>1, <3>2
  <2>4. handed' = [a \in Actor |-> IF Sending(a) THEN nsent'[a] - 1 ELSE nsent'[a]]
    BY <2>2 DEF handed
  <2>5. QED
    BY <1>5, <2>3, <2>4
<1> HIDE DEF m, c
<1>7. StreamInv(Stream, c) /\ QueueInv(pending, Stream, c)
  BY <1>0, <1>4, <1>5, MoreHanded
<1>8. After(m, Stream)
  <2>1. ASSUME NEW j \in 1..Len(Stream), Stream[j].msg.by = m.by
        PROVE  Stream[j].msg.n < m.n
    <3>1. Stream[j].msg.n <= nsent["loop"]
      BY <1>0, <1>3, <1>4, <2>1 DEF StreamInv
    <3>2. Stream[j].msg.n \in Nat
      BY <1>0, PartFacts
    <3>3. QED
      BY <1>2, <1>3, <3>1, <3>2
  <2>2. QED
    BY <2>1 DEF After
<1>9. StreamInv(Stream \o Parts(m), c)
  <2>1. m.n <= c[m.by]
    BY <1>2, <1>3, <1>5
  <2>2. QED
    BY <1>0, <1>3, <1>7, <1>8, <2>1, StreamGrows
<1>10. QueueInv(pending, Stream \o Parts(m), c)
  <2>1. \A i \in 1..Len(pending) : IsSend(pending[i]) => pending[i][2].by # m.by
    BY <1>0, <1>3, UserAssumption DEF QueueInv
  <2>2. QED
    BY <1>0, <1>3, <1>7, <2>1, QueueBehind
<1>11. StreamInv(Stream', c) /\ QueueInv(pending', Stream', c)
  BY <1>0, <1>1, <1>3, <1>7, <1>9, <1>10, SendInLoopOrder
<1>12. QED
  BY <1>6, <1>11 DEF OrderInv

LEMMA LoopCallOrder ==
  ASSUME TypeInv, OrderInv, LoopCall
  PROVE  OrderInv'
<1>1. UNCHANGED <<nsent, userPc, wire, outputBuffer>>
  BY DEF LoopCall, LoopShutdown, LoopForceClose, LoopSetReading, SetReading
<1>2. Stream' = Stream
  BY <1>1 DEF Stream
<1>3. QueueInv(pending, Stream, handed) /\ pending \in Seq(Task)
  BY StreamType DEF OrderInv
<1>4. <<"forceClose">> \in Task /\ ~IsSend(<<"forceClose">>)
  BY TaskFacts DEF Op, IsSend
<1>5. pending' = pending \/ pending' = Append(pending, <<"forceClose">>)
  BY DEF LoopCall, LoopShutdown, LoopForceClose, LoopSetReading
<1>6. QueueInv(pending', Stream, handed)
  BY <1>3, <1>4, <1>5, QueueAppend
<1>7. QED
  BY <1>1, <1>2, <1>6, OrderKept

(* A thread hands its message over when it queues it. *)
LEMMA UserQueueOrder ==
  ASSUME TypeInv, OrderInv, NEW u \in User, UserQueue(u)
  PROVE  OrderInv'
<1>0. /\ StreamInv(Stream, handed) /\ QueueInv(pending, Stream, handed)
      /\ pending \in Seq(Task) /\ Stream \in Seq(Part)
  BY StreamType DEF OrderInv
<1>1. /\ userPc[u].at = "queue" /\ userPc' = [userPc EXCEPT ![u] = Idle]
      /\ UNCHANGED <<nsent, wire, outputBuffer>>
      /\ userPc \in [User -> [at : {"idle", "set", "queue"}, op : Op]]
  BY DEF UserQueue, UserUnchanged, TypeInv, TypeOK
<1>2. Stream' = Stream
  BY <1>1 DEF Stream
<1>3. /\ ~Sending(u)'
      /\ \A a \in Actor \ {u} : Sending(a)' = Sending(a)
  BY <1>1 DEF Sending, Idle
<1>4. /\ handed \in [Actor -> Int] /\ u \in Actor
      /\ \A a \in Actor : handed[a] = IF Sending(a) THEN nsent[a] - 1 ELSE nsent[a]
  BY HandedType DEF Actor
<1>5. /\ handed' \in [Actor -> Int] /\ handed'[u] = nsent[u]
      /\ \A a \in Actor \ {u} : handed'[a] = handed[a]
  <2>1. \A a \in Actor : nsent[a] \in Int
    BY BoundAssumption DEF TypeInv, TypeOK
  <2>2. handed' = [a \in Actor |-> IF Sending(a)' THEN nsent[a] - 1 ELSE nsent[a]]
    BY <1>1 DEF handed
  <2>3. QED
    BY <1>3, <1>4, <2>1, <2>2
<1>6. CASE userPc[u].op = "send"
  <2> DEFINE m == [by |-> u, n |-> nsent[u]]
             c == handed'
  <2>1. m \in Msg /\ <<"send", m>> \in Task /\ pending' = Append(pending, <<"send", m>>)
    BY <1>1, <1>6, QueuedTaskType, TaskFacts DEF UserQueue
  <2>2. m.by = u /\ m.n = nsent[u] /\ nsent[u] \in Nat
    BY BoundAssumption, <1>4 DEF TypeInv, TypeOK
  <2>3. handed[u] = nsent[u] - 1
    BY <1>1, <1>4, <1>6 DEF Sending
  <2>4. \A a \in Actor : handed[a] <= c[a]
    BY <1>4, <1>5, <2>2, <2>3
  <2> HIDE DEF m, c
  <2>5. StreamInv(Stream, c) /\ QueueInv(pending, Stream, c)
    BY <1>0, <1>4, <1>5, <2>4, MoreHanded DEF c
  <2>6. ASSUME NEW x \in Msg, x.by = u, x.n <= handed[x.by]
        PROVE  x.n < m.n
    <3>1. x.n \in Nat
      BY BoundAssumption DEF Msg
    <3>2. QED
      BY <2>2, <2>3, <2>6, <3>1
  <2>7. After(m, Stream)
    <3>1. ASSUME NEW j \in 1..Len(Stream), Stream[j].msg.by = m.by
          PROVE  Stream[j].msg.n < m.n
      <4>1. Stream[j].msg \in Msg /\ Stream[j].msg.n <= handed[Stream[j].msg.by]
        BY <1>0, PartFacts DEF StreamInv
      <4>2. QED
        BY <2>2, <2>6, <3>1, <4>1
    <3>2. QED
      BY <3>1 DEF After
  <2>8. ASSUME NEW h \in 1..Len(pending), IsSend(pending[h]), pending[h][2].by = m.by
        PROVE  pending[h][2].n < m.n
    <3>1. pending[h] \in Task
      BY <1>0, ElementOfSeq
    <3>2. pending[h][2] \in Msg /\ pending[h][2].n <= handed[pending[h][2].by]
      BY <1>0, <2>8, <3>1, TaskFacts DEF IsSend, QueueInv
    <3>3. QED
      BY <2>2, <2>6, <2>8, <3>2
  <2>9. m.by \in User /\ m.n <= c[m.by]
    BY <1>5, <2>2 DEF c
  <2>10. QueueInv(Append(pending, <<"send", m>>), Stream, c)
    <3> DEFINE t == <<"send", m>>
    <3>1. t \in Task /\ t[2] = m
      BY <2>1
    <3> HIDE DEF t
    <3>2. QueueInv(Append(pending, t), Stream, c)
      BY <1>0, <2>5, <2>7, <2>8, <2>9, <3>1, QueueAppend
    <3>3. QED
      BY <3>2 DEF t
  <2>11. QED
    BY <1>2, <2>1, <2>5, <2>10 DEF OrderInv, c
<1>7. CASE userPc[u].op # "send"
  <2>1. <<userPc[u].op>> \in Task /\ ~IsSend(<<userPc[u].op>>)
    BY <1>1, <1>7, QueuedTaskType DEF IsSend
  <2>2. pending' = Append(pending, <<userPc[u].op>>)
    BY <1>7 DEF UserQueue
  <2>3. QueueInv(pending', Stream, handed)
    BY <1>0, <2>1, <2>2, QueueAppend
  <2>4. handed' = handed
    BY <1>4, <1>5, <1>7 DEF Sending
  <2>5. QED
    BY <1>0, <1>2, <2>3, <2>4 DEF OrderInv
<1>8. QED
  BY <1>6, <1>7

(* Before that it only counts it, or is in another call. *)
LEMMA UserOrder ==
  ASSUME TypeInv, OrderInv, NEW u \in User,
         UserSend(u) \/ UserSetState(u) \/ \E op \in Op : UserCall(u, op)
  PROVE  OrderInv'
<1>1. UNCHANGED <<pending, wire, outputBuffer>>
  BY DEF UserSend, UserSetState, UserCall, UserUnchanged
<1>2. /\ userPc \in [User -> [at : {"idle", "set", "queue"}, op : Op]]
      /\ nsent \in [Actor -> 0..MaxSend] /\ u \in Actor /\ MaxSend \in Nat
  BY BoundAssumption DEF TypeInv, TypeOK, Actor
<1>3. \A a \in Actor \ {u} : nsent'[a] = nsent[a] /\ Sending(a)' = Sending(a)
  BY <1>2 DEF UserSend, UserSetState, UserCall, Sending
<1>4. (IF Sending(u)' THEN nsent'[u] - 1 ELSE nsent'[u])
        = (IF Sending(u) THEN nsent[u] - 1 ELSE nsent[u])
  <2>1. CASE UserSend(u)
    <3>1. ~Sending(u) /\ Sending(u)'
      BY <1>2, <2>1 DEF UserSend, Sending, Idle
    <3>2. nsent'[u] = nsent[u] + 1
      BY <1>2, <2>1 DEF UserSend
    <3>3. nsent[u] \in Nat
      BY <1>2
    <3>4. QED
      BY <3>1, <3>2, <3>3
  <2>2. CASE UserSetState(u)
    <3>1. userPc[u].at = "set" /\ userPc[u].op # "send" /\ nsent' = nsent
      BY <2>2 DEF UserSetState, TypeInv, CallInv
    <3>2. userPc'[u].op = userPc[u].op
      BY <1>2, <2>2 DEF UserSetState
    <3>3. QED
      BY <3>1, <3>2 DEF Sending
  <2>3. CASE \E op \in Op : UserCall(u, op)
    <3>1. nsent' = nsent /\ userPc[u].at = "idle" /\ userPc'[u].op # "send"
      BY <1>2, <2>3 DEF UserCall, Idle
    <3>2. QED
      BY <3>1 DEF Sending
  <2>4. QED
    BY <2>1, <2>2, <2>3
<1>5. handed' = handed
  <2>1. \A a \in Actor : (IF Sending(a)' THEN nsent'[a] - 1 ELSE nsent'[a])
                           = (IF Sending(a) THEN nsent[a] - 1 ELSE nsent[a])
    BY <1>3, <1>4
  <2>2. QED
    BY <2>1 DEF handed
<1>6. Stream' = Stream
  BY <1>1 DEF Stream
<1>7. QED
  BY <1>1, <1>5, <1>6 DEF OrderInv

LEMMA OrderStep == TypeInv /\ OrderInv /\ [Next]_vars => OrderInv'
<1> SUFFICES ASSUME TypeInv, OrderInv, [Next]_vars PROVE OrderInv'
  OBVIOUS
<1>1. CASE LoopStep \/ \E w \in BOOLEAN : Poll(w)
  BY <1>1, LoopStepOrder
<1>2. CASE LoopSend \/ LoopCall
  BY <1>2, LoopSendOrder, LoopCallOrder
<1>3. CASE \E u \in User : UserSend(u) \/ UserStep(u) \/ \E op \in Op : UserCall(u, op)
  BY <1>3, UserQueueOrder, UserOrder DEF UserStep
<1>4. CASE PeerSend \/ PeerClose \/ PeerReset \/ UNCHANGED vars
  <2>1. UNCHANGED <<pending, wire, outputBuffer, nsent, userPc>>
    BY <1>4 DEF PeerSend, PeerClose, PeerReset, NetUnchanged, conn, user, vars
  <2>2. Stream' = Stream
    BY <2>1 DEF Stream
  <2>3. QED
    BY <2>1, <2>2, OrderKept DEF OrderInv
<1>5. QED
  BY <1>1, <1>2, <1>3, <1>4 DEF Next

(* What the peer has been sent and will be sent consists of whole          *)
(* messages, those of one sender in the order of its calls.                *)
THEOREM StreamKept == Spec => []StreamIntact
<1>1. OrderInv => StreamIntact
  BY DEF OrderInv, StreamInv, Intact, Stream, StreamIntact
<1>2. QED
  BY <1>1, InitType, TypeStep, InitOrder, OrderStep, PTL DEF Spec
=============================================================================
