----------------------------- MODULE HttpParser -----------------------------
(***************************************************************************)
(* net::http::HttpParser: parseRequest takes requests out of a connection's*)
(* input buffer, whatever pieces it arrives in.  One action is one turn of *)
(* parseCString's loop; `result' is "parsing" while that loop runs.        *)
(*                                                                         *)
(* Input is a sequence of symbols.  CR, LF and the bytes of a body are     *)
(* symbols of their own, so that input can break off anywhere; the text of *)
(* a line, which has no effect before its CR LF is there, is one symbol    *)
(* <<kind, a, b>>: a request line with version and path, a header line     *)
(* with key (in whatever case) and value (however padded), or text with    *)
(* neither two blanks nor a colon.                                         *)
(***************************************************************************)
EXTENDS Naturals, Sequences, SequencesExt

CONSTANT Huge     \* what stoul makes of "-1"; more than ever arrives

VARIABLES
  state_, contentLength_, bodyReceived_,   \* the parser
  request_,       \* the request being built
  buffer,         \* the readable bytes of the input buffer
  result          \* what the last parseRequest returned, or "parsing"

parser == <<state_, contentLength_, bodyReceived_>>
parserVars == <<parser, request_, buffer, result>>

CR == <<"byte", "CR", "">>
LF == <<"byte", "LF", "">>

Keys == {"connection", "content-length", "other"}

\* An HttpRequest with nothing in it.
EmptyRequest == [version |-> "", path |-> "",
                 headers |-> [k \in Keys |-> "absent"], body |-> <<>>]

ParserInit ==
  /\ state_ = "kStartLine" /\ contentLength_ = 0 /\ bodyReceived_ = 0
  /\ request_ = EmptyRequest
  /\ buffer = <<>>
  /\ result = "kNeedMore"

\* HttpParser::reset.
reset ==
  /\ state_' = "kStartLine"
  /\ contentLength_' = 0
  /\ bodyReceived_' = 0

-----------------------------------------------------------------------------
\* splitLine: where the first CR LF of the buffer is, and what it divides.
LineEnds == {i \in 1..(Len(buffer) - 1) : buffer[i] = CR /\ buffer[i + 1] = LF}
Line == SubSeq(buffer, 1, Min(LineEnds) - 1)
Rest == SubSeq(buffer, Min(LineEnds) + 2, Len(buffer))

\* parseRequestLine and parseHeaders succeed.  Bytes of a body that nobody
\* took may stand before the text: they end up in the method or in the key.
IsRequestLine == Line # <<>> /\ Last(Line)[1] = "request"
IsHeaderLine == Line # <<>> /\ Last(Line)[1] = "header"
KeyOf == IF Len(Line) = 1 THEN Last(Line)[2] ELSE "other"

\* std::stoul on the numbers in use, a sign included; it throws on others.
stoul == [n \in {"0", "1", "2", "-1"} |->
            CASE n = "0" -> 0 [] n = "1" -> 1 [] n = "2" -> 2 [] n = "-1" -> Huge]

\* A line that cannot be parsed, or has not arrived whole.
Break(r) == result' = r /\ UNCHANGED <<parser, request_, buffer>>

\* The data ends between two turns of the loop.
Exhausted ==
  /\ result = "parsing"
  /\ buffer = <<>>
  /\ Break("kNeedMore")

ParseStartLine ==
  /\ result = "parsing" /\ buffer # <<>>
  /\ state_ = "kStartLine"
  /\ \/ LineEnds = {} /\ Break("kNeedMore")
     \/ LineEnds # {} /\ ~IsRequestLine /\ Break("kError")
     \/ /\ LineEnds # {} /\ IsRequestLine
        /\ request_' = [request_ EXCEPT !.version = Last(Line)[2],
                                        !.path = Last(Line)[3]]
        /\ buffer' = Rest
        /\ state_' = "kHeaders"
        /\ UNCHANGED <<contentLength_, bodyReceived_, result>>

\* A later header replaces an earlier one of the same name.
Stored(key, value) == [request_.headers EXCEPT ![key] = value]

ParseHeaderLine ==
  /\ result = "parsing" /\ buffer # <<>>
  /\ state_ = "kHeaders"
  /\ \/ LineEnds = {} /\ Break("kNeedMore")
     \/ LineEnds # {} /\ Line # <<>> /\ ~IsHeaderLine /\ Break("kError")
     \/ /\ LineEnds # {} /\ IsHeaderLine
        /\ request_' = [request_ EXCEPT !.headers = Stored(KeyOf, Last(Line)[3])]
        /\ buffer' = Rest
        /\ UNCHANGED <<parser, result>>

\* The empty line: the request is complete unless a body is announced.
ParseBlankLine ==
  LET length == request_.headers["content-length"]
  IN  /\ result = "parsing" /\ buffer # <<>>
      /\ state_ = "kHeaders"
      /\ LineEnds # {} /\ Line = <<>>
      /\ buffer' = Rest
      /\ \/ /\ length = "absent"
            /\ result' = "kSuccess"
            /\ UNCHANGED parser
         \/ /\ length \notin {"absent"} \cup DOMAIN stoul
            /\ state_' = "kBody"
            /\ result' = "kError"
            /\ UNCHANGED <<contentLength_, bodyReceived_>>
         \/ /\ length \in DOMAIN stoul
            /\ state_' = "kBody"
            /\ contentLength_' = stoul[length]
            /\ result' = IF contentLength_' = 0 THEN "kSuccess" ELSE result
            /\ UNCHANGED bodyReceived_
      /\ UNCHANGED request_

Need == contentLength_ - bodyReceived_

\* A body is taken only when it is there whole.
MutantAbsorb == Break("kNeedMore")

\* Part of the body: all of it is taken.
Absorb ==
  /\ request_' = [request_ EXCEPT !.body = @ \o buffer]
  /\ bodyReceived_' = bodyReceived_ + Len(buffer)
  /\ buffer' = <<>>
  /\ result' = "kNeedMore"
  /\ UNCHANGED <<state_, contentLength_>>

ParseBody ==
  /\ result = "parsing" /\ buffer # <<>>
  /\ state_ = "kBody"
  /\ \/ /\ Len(buffer) >= Need
        /\ request_' = [request_ EXCEPT !.body = @ \o SubSeq(buffer, 1, Need)]
        /\ buffer' = SubSeq(buffer, Need + 1, Len(buffer))
        /\ reset
        /\ result' = "kSuccess"
     \/ Len(buffer) < Need /\ Absorb

\* One turn of parseCString's loop.
ParseTurn ==
  Exhausted \/ ParseStartLine \/ ParseHeaderLine \/ ParseBlankLine \/ ParseBody
=============================================================================
