----------------------------- MODULE HttpServer -----------------------------
(***************************************************************************)
(* net::http::HttpServer on one connection: a client sends messages, one   *)
(* behind the other, which arrive in arbitrary pieces; the connection's    *)
(* read handler appends a piece to the input buffer and calls onMessage,   *)
(* which parses (module HttpParser), calls the registered handler, answers *)
(* and decides whether the connection stays.  Of the TcpConnection there   *)
(* is its state and what send() let through; the handlers of an error      *)
(* event come in the order of Channel::handler.                            *)
(***************************************************************************)
EXTENDS HttpParser

CONSTANTS
  Messages,       \* what a client may send, well formed or not
  MaxPipelined    \* bound: messages on one connection

VARIABLES
  messages,       \* what the client of this connection sends
  delivered,      \* how many symbols of it were read from the socket
  pc,             \* where the loop thread is with this connection
  connState,      \* the connection's state_
  context,        \* what conn->getContext() holds
  response_,      \* the HttpResponse, kept between answers
  served,         \* history: requests handed to onRequest
  sent            \* history: responses the connection took

serverVars == <<messages, delivered, pc, connState, context, response_, served, sent>>
vars == <<parserVars, serverVars>>

\* A message on the wire: its line, its headers, the empty line, its body.
Wire(m) ==
  <<m.line, CR, LF>> \o FlattenSeq([i \in DOMAIN m.headers |-> <<m.headers[i], CR, LF>>])
    \o <<CR, LF>> \o m.body

\* What a client that sends these messages sends.
StreamOf(ms) == FlattenSeq([i \in DOMAIN ms |-> Wire(ms[i])])
Stream == StreamOf(messages)

\* An HttpResponse has a version, a status, headers and so many bytes of body.
ResponseKeys == {"Connection", "Content-Length"}

\* The constructor and onConnection for a new connection.
Init ==
  /\ ParserInit
  /\ messages \in UNION {[1..n -> Messages] : n \in 1..MaxPipelined}
  /\ delivered = 0
  /\ pc = "idle"
  /\ connState = "kConnected"
  /\ context = "HttpServerContext"
  /\ response_ = [version |-> "1.1", status |-> 200, body |-> 0,
                  headers |-> [k \in ResponseKeys |-> "absent"]]
  /\ served = <<>> /\ sent = <<>>

-----------------------------------------------------------------------------
(* The connection.                                                         *)

\* onMessage's any_cast: the context that onConnection left after a
\* disconnection is a nullptr_t, and the cast throws out of the loop.
Receive(n) ==
  /\ pc \in {"idle", "afterError"}
  /\ buffer' = buffer \o SubSeq(Stream, delivered + 1, delivered + n)
  /\ delivered' = delivered + n
  /\ pc' = IF context = "HttpServerContext" THEN "onMessage" ELSE "terminated"
  /\ UNCHANGED <<parser, request_, result, messages, connState, context, response_,
                 served, sent>>

\* handleClose calls onConnection.
Disconnected ==
  /\ connState' = "kDisconnected"
  /\ context' = "nullptr"
  /\ UNCHANGED <<parserVars, messages, delivered, response_, served, sent>>

\* The read handler finds the end of the stream.
PeerCloses ==
  /\ pc \in {"idle", "afterError"}
  /\ pc' = "closed"
  /\ Disconnected

\* A reset: handleError closes, and the same event goes on to the read handler.
PeerResets ==
  /\ pc = "idle"
  /\ pc' = "afterError"
  /\ Disconnected

-----------------------------------------------------------------------------
(* onMessage.                                                              *)

\* The loop asks for something left to read, and for nothing else.
Turn ==
  /\ pc = "onMessage" /\ result = "kNeedMore"
  /\ IF buffer = <<>>
     THEN pc' = "idle" /\ result' = result
     ELSE pc' = pc /\ result' = "parsing"
  /\ UNCHANGED <<parser, request_, buffer, messages, delivered, connState, context,
                 response_, served, sent>>

Parse ==
  /\ pc = "onMessage"
  /\ ParseTurn
  /\ UNCHANGED serverVars

isKeepAlive(r) ==
  IF r.version = "1.1" THEN r.headers["connection"] # "close"
                       ELSE r.headers["connection"] = "keep-alive"

setHeader(response, key, value) == [response EXCEPT !.headers[key] = value]

\* The answer of onRequest: 404 without a handler for the path; a handler may
\* set the version, and leaves the rest as it is.
onRequest(r) ==
  IF r.path = "unregistered"
  THEN {setHeader([response_ EXCEPT !.version = r.version, !.status = 404,
                                    !.body = 9], "Content-Length", "10")}
  ELSE {response_, [response_ EXCEPT !.version = r.version]}

\* A request of a pipeline starts with the headers of the one before it.
MutantCleared == [EmptyRequest EXCEPT !.headers = request_.headers]

\* HttpRequest::reset.
Cleared == EmptyRequest

\* HttpResponse::reset.
ClearedResponse == [version |-> "", status |-> 200, body |-> 0,
                    headers |-> [k \in ResponseKeys |-> "absent"]]

resetContext ==
  /\ reset
  /\ request_' = Cleared
  /\ response_' = ClearedResponse

\* Answers go out on a connection that is being closed.
MutantTaken(answer) == Append(sent, answer)

\* TcpConnection::send drops what comes after shutdown().
Taken(answer) == IF connState = "kConnected" THEN Append(sent, answer) ELSE sent

Shuts(answer) == answer.headers["Connection"] = "close"

\* One request is taken per message callback.
MutantAfterReply == "idle"

\* The loop goes on, after a shutdown() too.
AfterReply == "onMessage"

\* resetContext, send() and shutdown().
Reply(answer) ==
  /\ resetContext
  /\ sent' = Taken(answer)
  /\ connState' = IF connState = "kConnected" /\ Shuts(answer)
                  THEN "kDisconnecting" ELSE connState
  /\ result' = "kNeedMore"
  /\ pc' = AfterReply
  /\ UNCHANGED <<buffer, messages, delivered, context>>

OnSuccess ==
  /\ pc = "onMessage" /\ result = "kSuccess"
  /\ served' = Append(served, request_)
  /\ \E answer \in onRequest(request_) :
       Reply(setHeader(answer, "Connection",
                       IF isKeepAlive(request_) THEN "keep-alive" ELSE "close"))

OnError ==
  /\ pc = "onMessage" /\ result = "kError"
  /\ Reply(setHeader([response_ EXCEPT !.status = 400, !.body = 11],
                     "Connection", "close"))
  /\ UNCHANGED served

-----------------------------------------------------------------------------
onMessage == Turn \/ Parse \/ OnSuccess \/ OnError

Next ==
  \/ onMessage
  \/ \E n \in 1..(Len(Stream) - delivered) : Receive(n)
  \/ PeerCloses \/ PeerResets

Spec == Init /\ [][Next]_vars

\* Fairness: the loop thread runs.  The client need not send or close.
FairSpec == Spec /\ WF_vars(onMessage)

-----------------------------------------------------------------------------
(* What the client meant.                                                  *)

\* The value of the last of these headers with that key.
Header(headers, key) ==
  LET i == SelectLastInSeq(headers, LAMBDA h : h[2] = key)
  IN  IF i = 0 THEN "absent" ELSE headers[i][3]

Meant(m) == [version |-> m.line[2], path |-> m.line[3],
             headers |-> [k \in Keys |-> Header(m.headers, k)], body |-> m.body]

\* Lengths that a message may announce.
Announced == {"absent", "0", "1", "2"}

WellFormed(m) ==
  /\ m.line[1] = "request"
  /\ \A i \in DOMAIN m.headers : m.headers[i][1] = "header"
  /\ Header(m.headers, "content-length") \in Announced

\* The messages up to the i-th are all well formed.
Intact(i) == \A j \in DOMAIN messages : j <= i => WellFormed(messages[j])

\* Where the i-th message ends in the stream.
EndOf(i) == Len(StreamOf(SubSeq(messages, 1, i)))

\* The text of a line, and a byte.
Texts == ({"request"} \X STRING \X STRING) \cup ({"header"} \X Keys \X STRING)
           \cup ({"junk"} \X STRING \X STRING)
Bytes == {"byte"} \X STRING \X STRING

\* Messages are lines and bytes; where a message ends is what it announces, if
\* that is a length.  No client sends as much as stoul makes of "-1".
ASSUME HttpConstants ==
  /\ MaxPipelined \in Nat /\ Huge \in Nat /\ Huge > 2
  /\ \A m \in Messages :
       /\ m.line \in Texts /\ m.headers \in Seq(Texts) /\ m.body \in Seq(Bytes)
       /\ LET length == Header(m.headers, "content-length")
          IN  length \in Announced =>
                Len(m.body) = IF length = "absent" THEN 0 ELSE stoul[length]
  /\ \A n \in 1..MaxPipelined : \A ms \in [1..n -> Messages] : Len(StreamOf(ms)) < Huge

\* What onMessage's loop does not get past: a line that has not arrived
\* whole, or one that parseCString rejects without consuming it.
Stuck ==
  /\ buffer # <<>> /\ state_ # "kBody"
  /\ \/ LineEnds = {}
     \/ state_ = "kStartLine" /\ ~IsRequestLine
     \/ state_ = "kHeaders" /\ Line # <<>> /\ ~IsHeaderLine

-----------------------------------------------------------------------------
\* Types; the body never outgrows its announced length, so that the unsigned
\* difference in parseCString does not wrap, and no two results are pending.
TypeOK ==
  /\ state_ \in {"kStartLine", "kHeaders", "kBody"}
  /\ contentLength_ \in 0..Huge /\ bodyReceived_ \in 0..contentLength_
  /\ DOMAIN request_ = DOMAIN EmptyRequest /\ DOMAIN request_.headers = Keys
  /\ result \in {"parsing", "kNeedMore", "kSuccess", "kError"}
  /\ pc \in {"idle", "onMessage", "afterError", "closed", "terminated"}
  /\ pc # "onMessage" => result = "kNeedMore"
  /\ connState \in {"kConnected", "kDisconnecting", "kDisconnected"}
  /\ context \in {"HttpServerContext", "nullptr"}
  /\ delivered \in 0..Len(Stream)

\* Whatever pieces a pipeline arrives in, the requests handed to the handlers
\* are the messages that were sent, in order, each with its own headers and
\* its own body, as long as none of them was broken.
RequestsAsSent ==
  \A i \in DOMAIN served :
    Intact(i) => i \in DOMAIN messages /\ served[i] = Meant(messages[i])

Persistent(m) ==
  \/ Header(m.headers, "connection") = "keep-alive"
  \/ m.line[2] = "1.1" /\ Header(m.headers, "connection") # "close"

\* Each message is answered by one response, the i-th by the i-th: 400 for a
\* broken one, and for the others the status and the Connection header that
\* belong to it.  Nothing follows a response that announces the close, and the
\* connection is shut down exactly when the client has been told so.
AnswersInOrder ==
  /\ \A i \in DOMAIN sent :
       /\ i \in DOMAIN messages
       /\ Intact(i) =>
            /\ sent[i].status = (IF messages[i].line[3] = "unregistered" THEN 404 ELSE 200)
            /\ Shuts(sent[i]) <=> ~Persistent(messages[i])
       /\ Intact(i - 1) /\ ~Intact(i) => sent[i].status = 400
       /\ i < Len(sent) => ~Shuts(sent[i])
  /\ connState # "kDisconnected" =>
       (connState = "kDisconnecting" <=> sent # <<>> /\ Shuts(Last(sent)))

\* A well-formed message that has arrived whole is answered, unless the
\* connection ended before: later input, complete or not, does not hold it up.
CompleteIsAnswered ==
  \A i \in 1..MaxPipelined :
    i \in DOMAIN messages /\ Intact(i) /\ delivered >= EndOf(i)
      ~> Len(sent) >= i \/ connState # "kConnected"

\* onMessage comes to an end on all other input.
OnMessageEnds == pc = "onMessage" ~> pc # "onMessage" \/ Stuck

\* "more data is needed" (HttpParser.h:14): a piece of a request is kept until
\* the rest arrives.  The loop in onMessage does not return for it.
OnMessageReturns == pc = "onMessage" ~> pc # "onMessage"

\* "the connection's context does not exist, return at once" (HttpServer.cc:48).
MissingContextReturns == pc # "terminated"

\* Every response names its version, as the initial value of version_ does.
\* It does not hold after the first answer: HttpResponse::reset clears it.
ResponsesVersioned == \A i \in DOMAIN sent : sent[i].version # ""

\* A response that announces a length has a body of that length.  The 404
\* does not.
ResponsesFramed ==
  \A i \in DOMAIN sent :
    sent[i].headers["Content-Length"] \in {"absent", ToString(sent[i].body)}
=============================================================================
