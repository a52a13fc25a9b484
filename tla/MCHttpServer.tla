---------------------------- MODULE MCHttpServer ----------------------------
(* Instances of HttpServer for TLC: messages with and without a body, that  *)
(* keep the connection and that end it, and broken ones of every kind.      *)
EXTENDS HttpServer

Request(version, path, headers, body) ==
  [line |-> <<"request", version, path>>, headers |-> headers, body |-> body]

Length(n) == <<"header", "content-length", n>>
Connection(v) == <<"header", "connection", v>>
Host == <<"header", "other", "host">>
Junk == <<"junk", "", "">>
Byte == <<"byte", "x", "">>

GoodMessages == {
  Request("1.1", "/", <<Host>>, <<>>),
  Request("1.1", "unregistered", <<Connection("close")>>, <<>>),
  Request("1.0", "/", <<Connection("close"), Connection("keep-alive")>>, <<>>),
  Request("1.0", "unregistered", <<>>, <<>>),
  Request("1.1", "/", <<Length("2")>>, <<CR, LF>>),
  Request("1.1", "/", <<Length("1"), Length("0")>>, <<>>) }

BrokenMessages == {
  [line |-> Junk, headers |-> <<>>, body |-> <<>>],
  Request("1.1", "/", <<Host, Junk>>, <<>>),
  Request("1.1", "/", <<<<"request", "1.1", "/">>>>, <<>>),
  Request("1.1", "/", <<Length("two")>>, <<Byte>>),
  Request("1.1", "/", <<Length("-1")>>, <<Byte>>) }

AllMessages == GoodMessages \cup BrokenMessages
=============================================================================
