----------------------------- MODULE HttpServer -----------------------------
(***************************************************************************)
(* What HttpServer (HttpServer.cc, HttpContext.cc, HttpRequest.cc) makes   *)
(* of the bytes of one connection: onMessage is called with whatever has   *)
(* arrived, parseRequest continues where it stopped, and a request that is *)
(* complete is answered.                                                   *)
(*                                                                         *)
(* The client sends requests, one after the other or without waiting, and  *)
(* TCP may cut its bytes anywhere.  A line is two pieces, the second of    *)
(* which ends with CRLF; a body is one.  A request line may be one that    *)
(* processRequestLine rejects; headers are well-formed.                    *)
(*                                                                         *)
(* One step of the parser is one round of the loop in parseRequest.  A     *)
(* round that changes nothing is no step: in such a state, which exists    *)
(* when there is no well-formed request line, the call never returns.  It  *)
(* never returns false either, so the answer 400 of onMessage is not seen. *)
(***************************************************************************)
EXTENDS Naturals, Sequences

CONSTANT MaxRequest   \* bound: requests sent

ASSUME BoundAssumption == MaxRequest \in Nat

Id == 1..MaxRequest
None == 0

(* The version is "other" in a request line that is rejected, for whatever *)
(* reason.  The value of the field Connection is "none" when there is no   *)
(* such field.                                                             *)
Request == [version : {"HTTP10", "HTTP11", "other"},
            connection : {"close", "Keep-Alive", "none"},
            body : BOOLEAN]

VARIABLES
  sent,      \* requests sent by the client
  net,       \* pieces sent and not yet received
  buf,       \* the connection's inputBuffer_
  pc,        \* where onMessage is
  state,     \* the context's state_
  request,   \* the context's request_
  open,      \* shutdown() has not been called
  answers    \* requests answered, as the callback saw them

vars == <<sent, net, buf, pc, state, request, open, answers>>

Fields(r) == IF r.connection = "none" THEN {"Host"} ELSE {"Host", "Connection"}

Piece == [id : Id, what : {"line", "Host", "Connection", "blank", "body"}, part : 1..2]

TextLine(i, w) == <<[id |-> i, what |-> w, part |-> 1], [id |-> i, what |-> w, part |-> 2]>>

(* The bytes of request r. *)
Bytes(i, r) ==
  TextLine(i, "line") \o TextLine(i, "Host")
    \o (IF r.connection = "none" THEN <<>> ELSE TextLine(i, "Connection"))
    \o TextLine(i, "blank")
    \o (IF r.body THEN <<[id |-> i, what |-> "body", part |-> 1]>> ELSE <<>>)

(* HttpRequest::HttpRequest: headers_ maps names to values, which are told *)
(* apart by the request they came with.                                    *)
NoRequest == [line |-> None, headers |-> {}]

-----------------------------------------------------------------------------
(* findCRLF finds one ... *)
HasCRLF == \E k \in 1..Len(buf) : buf[k].part = 2

(* ... at the end of this piece. *)
LineEnd == CHOOSE k \in 1..Len(buf) : buf[k].part = 2 /\ \A j \in 1..(k-1) : buf[j].part # 2

RetrieveLine == buf' = SubSeq(buf, LineEnd + 1, Len(buf))

(* processRequestLine succeeds: on the whole of a request line that is in  *)
(* order.  A body that arrives late is taken for the start of the line.    *)
IsRequestLine ==
  /\ HasCRLF /\ LineEnd = 2 /\ buf[1].what = "line" /\ buf[1].id = buf[2].id
  /\ sent[buf[1].id].version # "other"

-----------------------------------------------------------------------------
(* A new connection with its HttpContext (onConnection). *)
Init ==
  /\ sent = <<>> /\ net = <<>> /\ buf = <<>>
  /\ pc = "idle" /\ state = "requestLine" /\ request = NoRequest
  /\ open = TRUE /\ answers = <<>>

ClientSend(r) ==
  /\ Len(sent) < MaxRequest
  /\ sent' = Append(sent, r)
  /\ net' = net \o Bytes(Len(sent) + 1, r)
  /\ UNCHANGED <<buf, pc, state, request, open, answers>>

(* handleRead appends what has arrived and calls onMessage. *)
OnMessage(n) ==
  /\ pc = "idle"
  /\ buf' = buf \o SubSeq(net, 1, n)
  /\ net' = SubSeq(net, n + 1, Len(net))
  /\ pc' = "parse"
  /\ UNCHANGED <<sent, state, request, open, answers>>

-----------------------------------------------------------------------------
(* The rounds of parseRequest. *)

ParseRequestLine ==
  /\ pc = "parse" /\ state = "requestLine"
  /\ IsRequestLine
  /\ request' = [request EXCEPT !.line = buf[1].id]
  /\ RetrieveLine
  /\ state' = "headers"
  /\ UNCHANGED <<sent, net, pc, open, answers>>

AddHeader(piece) ==
  request' = [request EXCEPT !.headers = @ \cup {<<piece.what, piece.id>>}]

(* A field, or the empty line. *)
ParseHeader ==
  /\ pc = "parse" /\ state = "headers" /\ HasCRLF
  /\ IF buf[LineEnd].what # "blank"
     THEN AddHeader(buf[LineEnd]) /\ UNCHANGED state
     ELSE state' = "body" /\ UNCHANGED request
  /\ RetrieveLine
  /\ UNCHANGED <<sent, net, pc, open, answers>>

(* Mutant: the loop goes on without a line. *)
ParseNothingStays == pc = "parse" /\ state = "headers" /\ ~HasCRLF /\ UNCHANGED vars

(* hasMore = false when a line is not complete. *)
ParseNothing ==
  /\ pc = "parse" /\ state = "headers" /\ ~HasCRLF
  /\ pc' = "parsed"
  /\ UNCHANGED <<sent, net, buf, state, request, open, answers>>

(* Mutant: the state is not advanced. *)
ParseBodyStays ==
  /\ pc = "parse" /\ state = "body"
  /\ buf' = <<>>
  /\ pc' = "parsed"
  /\ UNCHANGED <<sent, net, state, request, open, answers>>

(* All that has arrived is the body, even if it is less or more. *)
ParseBody ==
  /\ pc = "parse" /\ state = "body"
  /\ buf' = <<>>
  /\ state' = "gotAll"
  /\ pc' = "parsed"
  /\ UNCHANGED <<sent, net, request, open, answers>>

ParseStep == ParseRequestLine \/ ParseHeader \/ ParseNothing \/ ParseBody

-----------------------------------------------------------------------------
(* The rest of onMessage. *)

(* Whether onRequest closes the connection. *)
Closes(r) == \/ r.connection = "close"
             \/ r.version = "HTTP10" /\ r.connection # "Keep-Alive"

(* Mutant: the request is kept. *)
ResetState == state' = "requestLine" /\ UNCHANGED request

Reset == state' = "requestLine" /\ request' = NoRequest

(* The answer is sent unless the connection is shutting down. *)
OnRequest ==
  /\ pc = "parsed" /\ state = "gotAll"
  /\ answers' = IF open THEN Append(answers, request) ELSE answers
  /\ open' = (open /\ ~Closes(sent[request.line]))
  /\ Reset
  /\ pc' = "idle"
  /\ UNCHANGED <<sent, net, buf>>

NotComplete ==
  /\ pc = "parsed" /\ state # "gotAll"
  /\ pc' = "idle"
  /\ UNCHANGED <<sent, net, buf, state, request, open, answers>>

ServerStep == ParseStep \/ OnRequest \/ NotComplete

Next ==
  \/ \E r \in Request : ClientSend(r)
  \/ \E n \in 1..Len(net) : OnMessage(n)
  \/ ServerStep

Spec == Init /\ [][Next]_vars

(* The thread of the loop runs.  Nothing is assumed of the client. *)
FairSpec == Spec /\ WF_vars(ServerStep)

-----------------------------------------------------------------------------
(* The type invariant; between calls the parser is before a request line   *)
(* or among headers (HttpContext.cc:52-104, HttpServer.cc:46-50).          *)
TypeOK ==
  /\ sent \in Seq(Request) /\ Len(sent) <= MaxRequest
  /\ net \in Seq(Piece) /\ buf \in Seq(Piece)
  /\ pc \in {"idle", "parse", "parsed"}
  /\ state \in {"requestLine", "headers", "body", "gotAll"}
  /\ request \in [line : Id \cup {None}, headers : SUBSET ({"Host", "Connection"} \X Id)]
  /\ open \in BOOLEAN
  /\ answers \in Seq([line : Id, headers : SUBSET ({"Host", "Connection"} \X Id)])
  /\ pc = "idle" => state \in {"requestLine", "headers"}
  /\ state = "requestLine" <=> request.line = None

(* However the bytes are cut, and even when a client does not wait for its *)
(* answers, an answered request has its own headers and all of them, and   *)
(* none is answered twice or out of turn (HttpServer.cc:38-51,             *)
(* HttpContext.cc:73-94).                                                  *)
AnsweredWhole ==
  \A k \in 1..Len(answers) :
    LET a == answers[k]
    IN  /\ a.headers = Fields(sent[a.line]) \X {a.line}
        /\ \A j \in 1..(k-1) : answers[j].line < a.line

(* A call of parseRequest that finds or is past a complete request line    *)
(* returns (HttpContext.cc:52-104).                                        *)
ParserReturns ==
  (pc = "parse" /\ (state # "requestLine" \/ IsRequestLine)) ~> pc = "idle"

(* A request whose line has been parsed is answered when the end of its    *)
(* headers has arrived, in however many pieces (HttpServer.cc:46-50).      *)
Arrived(i) == \A k \in 1..Len(net) : net[k].id = i => net[k].what = "body"

CompleteIsAnswered ==
  \A i \in Id :
    (request.line = i /\ open /\ Arrived(i))
      ~> \E k \in 1..Len(answers) : answers[k].line = i
=============================================================================
