------------------------------ MODULE Opening ------------------------------
(***************************************************************************)
(* The opening handshake of the websocket library under FX4Src, at both    *)
(* ends: the request and the response as they cross the stream, cut into   *)
(* reads anywhere (http/impl/request.hpp, response.hpp, parser.hpp), what  *)
(* the server makes of the one and the client of the other                 *)
(* (impl/connection_impl.hpp, processors/hybi13.hpp, hybi00.hpp), their    *)
(* timers, and the frames that follow behind the headers.                  *)
(*                                                                         *)
(* Either end can be the library or somebody else, who sends what a        *)
(* scenario says.  The stream is a sequence of tokens: the text of a line, *)
(* CR, LF, a byte of a body or key, a frame.  Handlers are run one by one  *)
(* by an end's io_service.  After terminate the operations under way end   *)
(* with operation_aborted, and their handlers find the connection closed   *)
(* and do nothing; here they just do not come.                             *)
(***************************************************************************)
EXTENDS Integers, Sequences, FiniteSets, HttpValues
LOCAL INSTANCE SequencesExt

CONSTANTS
  Scenarios,     \* who the ends are, what the foreign one sends, and what the server's
                 \* user may do: [http, validate, choose]; see MCOpening
  Answers,       \* responses of a foreign server
  Key3Bytes,     \* bytes of version 0's third key (8 in the code)
  MaxHeaderSize, \* http::max_header_size, in tokens
  LineSize,      \* bytes of a line's text, by its name, where it is not 1
  MaxAcceptErrors \* bound: connections that fail to be accepted

ASSUME ConstAssumption ==
  /\ Key3Bytes \in Nat \ {0} /\ MaxHeaderSize \in Nat /\ MaxAcceptErrors \in Nat

VARIABLES
  scenario, policy,
  toServer, toClient, \* the stream, each way
  gone,               \* ends whose socket is closed
  s, c,               \* the connections of the library's server and client
  acceptErrors,
  sent                \* history: messages sent to each end

vars == <<scenario, policy, toServer, toClient, gone, s, c, acceptErrors, sent>>

HeaderNames == {"Host", "Upgrade", "Connection", "Version", "Key", "Key1", "Key2", "Key3",
                "Protocol", "Extensions", "Length", "Accept", "Cookie"}

Tok(k, name, value) == [k |-> k, name |-> name, value |-> value]
Text(line) == Tok("text", line.name, line.value)
CrLf == <<Tok("cr", "", <<>>), Tok("lf", "", <<>>)>>
Frame(m) == Tok("frame", m, <<>>)
Line(name, value) == [name |-> name, value |-> value]

\* request::raw, response::raw without the body
Raw(lines) == FlattenSeq([i \in 1..Len(lines) |-> <<Text(lines[i])>> \o CrLf]) \o CrLf

-----------------------------------------------------------------------------
(* The parser of requests and responses. *)

NewParser(kind) ==
  [kind |-> kind, phase |-> "start", start |-> <<>>,
   headers |-> [h \in HeaderNames |-> <<>>], buf |-> <<>>, bytes |-> 0,
   need |-> 0, error |-> 0, rest |-> <<>>]

Fail(p, code) == [p EXCEPT !.phase = "error", !.error = code]

\* append_header: values of one name are joined.
AppendHeader(p, name, value) ==
  IF name \notin HeaderNames THEN Fail(p, 400)
  ELSE [p EXCEPT !.headers[name] = IF @ = <<>> THEN value ELSE @ \o <<",", " ">> \o value]

\* process: a start line has three words, and a method is a token.
ProcessStart(p, line) ==
  IF line.name # p.kind \/ Len(line.value) # 2 THEN Fail(p, 400)
  ELSE [p EXCEPT !.phase = "headers", !.start = line.value]

\* process_header: what has no colon is no header.
ProcessHeader(p, line) == AppendHeader(p, line.name, StripLws(line.value))

ProcessLine(p, line) ==
  IF p.phase = "start" THEN ProcessStart(p, line) ELSE ProcessHeader(p, line)

\* strtoul, and >> in a response, which tells a number from none.
LengthOf(value) == IF value = <<"1">> THEN 1 ELSE IF value = <<"huge">> THEN 2 ELSE 0
MaxBodySize == 1

\* process_body.  A response without a length is done when more comes.
ProcessBody(p) ==
  LET n == IF Len(p.rest) < p.need THEN Len(p.rest) ELSE p.need
  IN [p EXCEPT !.need = @ - n, !.rest = SubSeq(@, n + 1, Len(@)),
               !.phase = IF n = p.need THEN "done" ELSE "body"]

\* The blank line; what is left in the buffer comes after the headers.
Blank(p) ==
  LET length == p.headers["Length"]
      q == [p EXCEPT !.rest = SubSeq(p.buf, 3, Len(p.buf)), !.buf = <<>>, !.bytes = 0,
                     !.need = LengthOf(length)]
  IN CASE p.kind = "request" ->
            IF p.phase = "start" \/ p.headers["Host"] = <<>> THEN Fail(p, 400)
            ELSE IF q.need > MaxBodySize THEN Fail(p, 413)
            ELSE ProcessBody(q)
       [] p.kind = "status" ->
            IF p.phase = "start" \/ length = <<"x">> THEN Fail(p, 400)
            ELSE IF q.rest = <<>> THEN [q EXCEPT !.phase = "body"]
            ELSE ProcessBody(q)

LineEnd(buf) ==
  LET ends == {i \in 1..(Len(buf) - 1) : buf[i].k = "cr" /\ buf[i + 1].k = "lf"}
  IN IF ends = {} THEN 0 ELSE CHOOSE i \in ends : \A j \in ends : i <= j

RECURSIVE SizeOf(_)
SizeOf(toks) ==
  IF toks = <<>> THEN 0
  ELSE SizeOf(Tail(toks)) +
       (IF Head(toks).k = "text" /\ Head(toks).name \in DOMAIN LineSize
        THEN LineSize[Head(toks).name] ELSE 1)

\* The lines of the buffer.  The delimiter is counted with its terminating zero, and
\* once more for each read that ends within a line.
RECURSIVE Lines(_)
Lines(p) ==
  LET e == LineEnd(p.buf)
      width == SizeOf(IF e = 0 THEN p.buf ELSE SubSeq(p.buf, 1, e - 1))
      q == [p EXCEPT !.bytes = @ + width + 3]
      r == ProcessLine([q EXCEPT !.buf = SubSeq(@, e + 2, Len(@))], p.buf[1])
  IN IF q.bytes > MaxHeaderSize THEN Fail(q, 431)
     ELSE IF e = 0 THEN [q EXCEPT !.bytes = @ - width, !.rest = <<>>]
     ELSE IF e = 1 THEN Blank(q)
     ELSE IF r.phase = "error" THEN r
     ELSE Lines(r)

\* consume: afterwards `rest' is what it has not processed.
Consume(p, toks) ==
  CASE p.phase = "done" -> [p EXCEPT !.rest = toks]
    [] p.phase = "body" -> ProcessBody([p EXCEPT !.rest = toks])
    [] OTHER            -> Lines([p EXCEPT !.buf = @ \o toks])

-----------------------------------------------------------------------------
(* What both ends' connections have. *)

NewConnection(kind) ==
  [state |-> "connecting", pending |-> "init", timer |-> FALSE, due |-> FALSE,
   parser |-> NewParser(kind), told |-> <<>>, got |-> <<>>, out |-> <<>>, version |-> 13,
   partial |-> "HEADER", message |-> "",
   \* server
   status |-> 0, offered |-> <<>>, chosen |-> <<>>, accepted |-> <<>>, listed |-> FALSE,
   isHttp |-> FALSE, http |-> "init", ec |-> "ok",
   \* client
   subprotocols |-> <<>>, uri |-> NoUri(FALSE)]

Says(d, what) == [d EXCEPT !.told = Append(@, what)]
SetTimer(d) == [d EXCEPT !.timer = TRUE]
\* The handler of a timer that is due already comes all the same.
CancelTimer(d) == [d EXCEPT !.timer = FALSE]

\* terminate, and handle_terminate, which is called at once.
Terminate(d, ec) ==
  With([CancelTimer(d) EXCEPT !.state = "closed", !.pending = "none",
                              !.ec = IF ec = "ok" THEN @ ELSE ec,
                              !.http = IF d.isHttp THEN "closed" ELSE @],
       LAMBDA e : CASE d.state = "connecting" -> IF e.ec = "ended" THEN e ELSE Says(e, "fail")
                    [] d.state \in {"open", "closing"} -> Says(e, "close")
                    [] d.state = "closed" -> CancelTimer(d))

\* Frames of the message m, prepared by the processor.
Prepared(d, m) ==
  IF d.version = 0 THEN <<Tok("hdr", "", <<>>), Tok("byte", m, <<>>), Tok("ftr", "", <<>>)>>
  ELSE <<Frame(m)>>

\* hybi00::consume and get_message, one byte; the other processors' is Hybi13.
Consume00(d, tok) ==
  CASE d.partial = "HEADER" /\ tok.k = "hdr" -> [d EXCEPT !.partial = "PAYLOAD", !.message = ""]
    [] d.partial = "HEADER" /\ tok.k # "hdr" -> [d EXCEPT !.partial = "FATAL_ERROR"]
    [] d.partial = "PAYLOAD" /\ tok.k = "ftr" ->
         [d EXCEPT !.partial = "HEADER", !.got = Append(@, d.message)]
    [] OTHER -> [d EXCEPT !.message = tok.name]

\* A protocol error is answered by a close frame; nothing is read any more, and the
\* close handshake's timer ends the connection.
CloseOnError(d) ==
  [SetTimer(d) EXCEPT !.state = "closing", !.pending = "none",
                      !.out = @ \o <<Tok("close", "", <<>>)>>]

\* handle_read_frame
RECURSIVE ReadFrames(_, _)
ReadFrames(d, toks) ==
  LET e == IF d.version = 0 THEN Consume00(d, Head(toks))
           ELSE [d EXCEPT !.got = Append(@, Head(toks).name)]
  IN IF toks = <<>> THEN [d EXCEPT !.pending = "frame"]
     ELSE IF e.partial = "FATAL_ERROR" THEN CloseOnError(e)
     ELSE ReadFrames(e, Tail(toks))

\* The connection opens; the user's open handler sends a message.
Opens(d) ==
  With(Says([d EXCEPT !.state = "open", !.parser.rest = <<>>], "open"),
       LAMBDA e : ReadFrames([e EXCEPT !.out = @ \o Prepared(e, "hello")], d.parser.rest))

-----------------------------------------------------------------------------
(* The server's connection. *)

Header(d, name) == d.parser.headers[name]

\* mutant: the timer is not set
ReadHandshakeUntimed(d) == [d EXCEPT !.pending = "handshake"]

\* The start of the accepted connection: read_handshake(1).
ReadHandshake(d) == [SetTimer(d) EXCEPT !.pending = "handshake"]

\* is_websocket_handshake
IsWebsocketHandshake(d) ==
  /\ "websocket" \in ToSet(Header(d, "Upgrade"))
  /\ "upgrade" \in ToSet(Header(d, "Connection"))

\* get_websocket_version: no header means the first version, 0.
Versions == [v \in {"0", "7", "8", "13", "5"} |->
               CASE v = "0" -> 0 [] v = "7" -> 7 [] v = "8" -> 8 [] v = "13" -> 13 [] OTHER -> 5]
WebsocketVersion(d) ==
  LET v == Header(d, "Version")
  IN IF v = <<>> THEN 0 ELSE IF Head(v) \in DOMAIN Versions THEN Versions[Head(v)] ELSE -1

\* get_processor
Supported == {0, 7, 8, 13}

\* A response with a status, whatever the rest of the call's outcome.
Responds(d, status, ec) == [d EXCEPT !.status = status, !.ec = ec]

\* initialize_processor
InitializeProcessor(d) ==
  LET v == WebsocketVersion(d)
  IN IF ~IsWebsocketHandshake(d) THEN [d EXCEPT !.version = -1]
     ELSE IF v < 0 THEN Responds(d, 400, "invalid_version")
     ELSE IF v \in Supported THEN [d EXCEPT !.version = v]
     ELSE [Responds(d, 400, "unsupported_version") EXCEPT !.listed = TRUE]

\* response::raw, and the first version's digest behind it
ResponseText(d) ==
  Raw(<<Line("status", <<ToString(d.status), "reason">>)>>
      \o (IF d.accepted = <<>> THEN <<>> ELSE <<Line("Accept", d.accepted)>>)
      \o (IF d.status # 101 THEN <<>>
          ELSE <<Line("Connection", <<"upgrade">>), Line("Upgrade", <<"websocket">>)>>)
      \o (IF d.isHttp THEN <<Line("Length", <<"1">>)>> ELSE <<>>)
      \o (IF d.listed THEN <<Line("Version", <<"0", "7", "8", "13">>)>> ELSE <<>>)
      \o (IF d.chosen = <<>> THEN <<>> ELSE <<Line("Protocol", d.chosen)>>))
  \o (IF d.isHttp THEN <<Tok("byte", "body", <<>>)>> ELSE <<>>)
  \o (IF d.version = 0 /\ d.status = 101 THEN <<Tok("byte", "digest", <<>>)>> ELSE <<>>)

\* write_http_response: without a status the user has forgotten to set one.
WriteHttpResponse(d) ==
  With(IF d.status = 0 THEN Responds(d, 500, "general") ELSE d,
       LAMBDA e : [e EXCEPT !.out = @ \o ResponseText(e), !.pending = "response"])

\* validate_handshake of the processor
ValidHandshake(d) ==
  /\ d.parser.start = <<"GET", "HTTP/1.1">>
  /\ IF d.version = 0
     THEN \A key \in {"Key1", "Key2", "Key3"} : Header(d, key) # <<>>
     ELSE Header(d, "Key") # <<>>

\* negotiate_extensions: none is implemented in this build, but the list is parsed.
BadExtensions(d) == d.version # 0 /\ HeaderAsPlist(Header(d, "Extensions")).error

\* extract_subprotocols: a list with an error in it asks for nothing.
Offered(d) ==
  LET list == HeaderAsPlist(Header(d, "Protocol"))
  IN IF list.error THEN <<>> ELSE list.names

\* select_subprotocol, called by the validate handler: only what was asked for.
SelectSubprotocol(d, value) ==
  IF value \in ToSet(d.offered) THEN [d EXCEPT !.chosen = value] ELSE d

\* process_handshake: the key's digest, or the three keys' digest.
ProcessHandshake(d) ==
  [d EXCEPT !.status = 101, !.ec = "ok",
            !.accepted = IF d.version = 0 THEN <<>> ELSE <<"accept">> \o Header(d, "Key")]

\* The user's validate handler.
Validate(d) ==
  CASE policy.validate = "accept" -> ProcessHandshake(SelectSubprotocol(d, policy.choose))
    [] policy.validate = "reject" -> Responds(d, 400, "rejected")
    [] policy.validate = "forbid" -> Responds(d, 403, "rejected")

\* process_handshake_request of a websocket
ProcessWebsocket(d) ==
  IF ~ValidHandshake(d) THEN Responds(d, 400, "invalid_handshake")
  ELSE IF BadExtensions(d) THEN Responds(d, 400, "extension_parse_error")
  ELSE IF ~UriFromHost(Header(d, "Host"), FALSE).valid THEN Responds(d, 400, "invalid_uri")
  ELSE Validate([d EXCEPT !.offered = Offered(d), !.uri = UriFromHost(Header(d, "Host"), FALSE)])

\* process_handshake_request of anything else: the http handler sets a status, or
\* nothing, or defers its response, which stops the timer (defer_http_response).
ProcessHttp(d) ==
  LET e == [d EXCEPT !.isHttp = TRUE]
  IN IF ~UriFromHost(Header(d, "Host"), FALSE).valid THEN Responds(d, 400, "invalid_uri")
     ELSE CASE policy.http = "none"    -> Responds(d, 426, "upgrade_required")
            [] policy.http = "answers" -> [e EXCEPT !.status = 200]
            [] policy.http = "quiet"   -> e
            [] policy.http = "defers"  ->
                 [CancelTimer(e) EXCEPT !.http = "deferred", !.pending = "user"]

ProcessHandshakeRequest(d) ==
  With(IF IsWebsocketHandshake(d) THEN ProcessWebsocket(d) ELSE ProcessHttp(d),
       LAMBDA e : IF e.http = "deferred" THEN e ELSE WriteHttpResponse(e))

\* Version 0 has its third key behind the headers, and wants it in the same read.
TakeKey3(d) ==
  [d EXCEPT !.parser.headers["Key3"] = <<"key3">>,
            !.parser.rest = SubSeq(@, Key3Bytes + 1, Len(@))]

\* The request has been read.
RequestReady(d) ==
  With(InitializeProcessor(d), LAMBDA e :
    IF e.ec # "ok" THEN WriteHttpResponse(e)
    ELSE IF e.version # 0 THEN ProcessHandshakeRequest(e)
    ELSE IF Len(e.parser.rest) < Key3Bytes
    THEN WriteHttpResponse(Responds(e, 500, "short_key3"))
    ELSE ProcessHandshakeRequest(TakeKey3(e)))

\* mutant: what came behind the request is not kept
HandleReadHandshakeOnly(d, toks) ==
  With([d EXCEPT !.parser = Consume(@, toks)], LAMBDA e :
    CASE e.parser.phase = "error" ->
           WriteHttpResponse(Responds([e EXCEPT !.version = -1], e.parser.error, "http_parse_error"))
      [] e.parser.phase = "done" -> RequestReady([e EXCEPT !.parser.rest = <<>>])
      [] OTHER -> e)

\* handle_read_handshake
HandleReadHandshake(d, toks) ==
  With([d EXCEPT !.parser = Consume(@, toks)], LAMBDA e :
    CASE e.parser.phase = "error" ->
           WriteHttpResponse(Responds([e EXCEPT !.version = -1], e.parser.error, "http_parse_error"))
      [] e.parser.phase = "done" -> RequestReady(e)
      [] OTHER -> e)

\* handle_write_http_response
HandleWriteHttpResponse(d, ok) ==
  IF ~ok THEN Terminate(d, "write")
  ELSE IF d.status # 101
  THEN Terminate(CancelTimer(d), IF d.isHttp THEN "ended" ELSE d.ec)
  ELSE Opens(CancelTimer(d))

-----------------------------------------------------------------------------
(* The client's connection. *)

\* client_handshake_request and request::raw, in the order of the header map.
RequestText(d) ==
  Raw(<<Line("request", <<"GET", "HTTP/1.1">>),
        Line("Connection", <<"upgrade">>), Line("Host", HostPort(d.uri)),
        Line("Key", <<"key">>)>>
      \o (IF d.subprotocols = <<>> THEN <<>>
          ELSE <<Line("Protocol", FoldLeft(LAMBDA list, p :
                        IF list = <<>> THEN p ELSE list \o <<",", " ">> \o p,
                        <<>>, d.subprotocols))>>)
      \o <<Line("Version", <<"13">>), Line("Upgrade", <<"websocket">>)>>)

\* add_subprotocol: a token, or it is refused.
AddSubprotocol(d, value) ==
  IF value = <<>> \/ ToSet(value) \ TokenChars # {} THEN d
  ELSE [d EXCEPT !.subprotocols = Append(@, value)]

\* send_http_request
SendHttpRequest(d) ==
  [SetTimer(d) EXCEPT !.out = @ \o RequestText(d), !.pending = "request"]

\* mutant: any digest will do
ValidResponseUnkeyed(d) ==
  /\ d.parser.start[1] = "101"
  /\ IsWebsocketHandshake(d)
  /\ Header(d, "Accept") # <<>>

\* validate_server_handshake_response
ValidResponse(d) ==
  /\ d.parser.start[1] = "101"
  /\ IsWebsocketHandshake(d)
  /\ Header(d, "Accept") = <<"accept", "key">>

\* The response's headers have been read.  After an extension list that cannot be
\* read the connection is terminated, and opened all the same.
ResponseReady(d) ==
  With(CancelTimer(d), LAMBDA e :
    IF ~ValidResponse(e) THEN Terminate(e, "invalid_response")
    ELSE IF BadExtensions(e)
    THEN [Opens(Terminate(e, "extension_neg_failed")) EXCEPT !.pending = "dead", !.out = <<>>]
    ELSE Opens(e))

\* handle_read_http_response
HandleReadHttpResponse(d, toks) ==
  With([d EXCEPT !.parser = Consume(@, toks)], LAMBDA e :
    CASE e.parser.phase = "error" -> Terminate(e, "general")
      [] e.parser.phase \in {"body", "done"} -> ResponseReady(e)
      [] OTHER -> e)

-----------------------------------------------------------------------------
(* Steps. *)

Library(e) == e \in scenario.library
Takes(toks, n) == SubSeq(toks, n + 1, Len(toks))

Closes(e, d) == IF d.state = "closed" THEN {e} ELSE {}
\* Messages among tokens: whole frames, and what the first version's bytes make.
Messages(toks) ==
  LET own == SelectSeq(toks, LAMBDA t : t.k \in {"frame", "byte"} /\ t.name \notin {"body", "digest"})
  IN [i \in 1..Len(own) |-> own[i].name]

\* What the handler has made of the server's connection.
ServerBecomes(becomes) == \E d \in {becomes} :
  /\ s' = [d EXCEPT !.out = <<>>]
  /\ toClient' = toClient \o d.out
  /\ gone' = gone \cup Closes("server", d)
  /\ sent' = [sent EXCEPT !.client = @ \o Messages(d.out)]
  /\ UNCHANGED <<scenario, policy, c, acceptErrors>>

ClientBecomes(becomes) == \E d \in {becomes} :
  /\ c' = [d EXCEPT !.out = <<>>]
  /\ toServer' = toServer \o d.out
  /\ gone' = gone \cup Closes("client", d)
  /\ sent' = [sent EXCEPT !.server = @ \o Messages(d.out)]
  /\ UNCHANGED <<scenario, policy, s, acceptErrors>>

\* handle_accept: the connection starts, and the next one is accepted into.
Accept ==
  /\ Library("server") /\ s.pending = "init"
  /\ ServerBecomes(ReadHandshake(s)) /\ UNCHANGED toServer

\* An accept that fails ends the connection it was for; start_accept makes another.
AcceptFails ==
  /\ Library("server") /\ s.pending = "init" /\ acceptErrors < MaxAcceptErrors
  /\ Terminate(s, "accept").told = <<"fail">>
  /\ acceptErrors' = acceptErrors + 1
  /\ UNCHANGED <<scenario, policy, toServer, toClient, gone, s, c, sent>>

ServerReads ==
  \E n \in 1..Len(toServer) :
    /\ Library("server") /\ s.pending \in {"handshake", "frame"}
    /\ scenario.whole => n = Len(toServer)
    /\ toServer' = Takes(toServer, n)
    /\ ServerBecomes(IF s.pending = "frame" THEN ReadFrames(s, SubSeq(toServer, 1, n))
                     ELSE HandleReadHandshake(s, SubSeq(toServer, 1, n)))

\* A read or write that finds the other end gone.
ServerReadsEof ==
  /\ s.pending \in {"handshake", "frame"} /\ toServer = <<>> /\ "client" \in gone
  /\ ServerBecomes(Terminate(s, "eof")) /\ UNCHANGED toServer

ServerWrites ==
  \E ok \in BOOLEAN :
    /\ s.pending = "response" /\ (ok \/ "client" \in gone)
    /\ ServerBecomes(HandleWriteHttpResponse(s, ok)) /\ UNCHANGED toServer

\* send_http_response, by any thread of the user.
SendHttpResponse ==
  \E status \in {0, 200} :
    /\ s.pending = "user" /\ s.http = "deferred"
    /\ ServerBecomes(WriteHttpResponse([s EXCEPT !.http = "body_written", !.status = status]))
    /\ UNCHANGED toServer

ServerTimerExpires ==
  /\ s.timer /\ ~s.due /\ ServerBecomes([s EXCEPT !.due = TRUE]) /\ UNCHANGED toServer
\* handle_open_handshake_timeout, handle_close_handshake_timeout
ServerTimesOut ==
  /\ s.due /\ ServerBecomes(Terminate([s EXCEPT !.due = FALSE], "timeout")) /\ UNCHANGED toServer

ClientStarts ==
  /\ Library("client") /\ c.pending = "init"
  /\ ClientBecomes(SendHttpRequest(c)) /\ UNCHANGED toClient

\* handle_send_http_request
ClientWrites ==
  \E ok \in BOOLEAN :
    /\ c.pending = "request" /\ (ok \/ "server" \in gone)
    /\ ClientBecomes(IF ok THEN [c EXCEPT !.pending = "handshake"] ELSE Terminate(c, "write"))
    /\ UNCHANGED toClient

ClientReads ==
  \E n \in 1..Len(toClient) :
    /\ c.pending \in {"handshake", "frame"}
    /\ scenario.whole => n = Len(toClient)
    /\ toClient' = Takes(toClient, n)
    /\ ClientBecomes(IF c.pending = "frame" THEN ReadFrames(c, SubSeq(toClient, 1, n))
                     ELSE HandleReadHttpResponse(c, SubSeq(toClient, 1, n)))

ClientReadsEof ==
  /\ c.pending \in {"handshake", "frame"} /\ toClient = <<>> /\ "server" \in gone
  /\ ClientBecomes(Terminate(c, "eof")) /\ UNCHANGED toClient

\* The read on the socket that terminate has closed.
ClientReadsDead ==
  /\ c.pending = "dead" /\ ClientBecomes(Terminate(c, "aborted")) /\ UNCHANGED toClient

ClientTimerExpires ==
  /\ c.timer /\ ~c.due /\ ClientBecomes([c EXCEPT !.due = TRUE]) /\ UNCHANGED toClient
ClientTimesOut ==
  /\ c.due /\ ClientBecomes(Terminate([c EXCEPT !.due = FALSE], "timeout")) /\ UNCHANGED toClient

\* A foreign server answers a request, at once with what it has to say.  (s.status
\* remembers that it has.)
ForeignAnswers ==
  \E a \in Answers :
    /\ ~Library("server") /\ toServer # <<>> /\ s.status = 0
    /\ toServer' = <<>>
    /\ toClient' = Raw(a.lines) \o a.tail
    /\ s' = [s EXCEPT !.status = IF a.good THEN 101 ELSE 400]
    /\ sent' = [sent EXCEPT !.client = Messages(a.tail)]
    /\ UNCHANGED <<scenario, policy, gone, c, acceptErrors>>

\* The foreign end leaves, before or after what it has sent is read.
ForeignLeaves ==
  \E e \in {"server", "client"} \ scenario.library :
    /\ e \notin gone
    /\ gone' = gone \cup {e}
    /\ UNCHANGED <<scenario, policy, toServer, toClient, s, c, acceptErrors, sent>>

Init ==
  /\ scenario \in Scenarios /\ policy \in scenario.policies
  /\ toServer = IF Library("client") THEN <<>> ELSE Raw(scenario.lines) \o scenario.tail
  /\ toClient = <<>> /\ gone = {} /\ acceptErrors = 0
  /\ s = NewConnection("request")
  /\ c = IF Library("client")
         THEN [FoldLeft(AddSubprotocol, NewConnection("status"), scenario.offers)
                 EXCEPT !.uri = UriOfString(scenario.uri)]
         ELSE NewConnection("status")
  /\ sent = [server |-> IF Library("client") THEN <<>> ELSE Messages(scenario.tail),
             client |-> <<>>]

Server == Accept \/ ServerReads \/ ServerReadsEof \/ ServerWrites
Client == ClientStarts \/ ClientWrites \/ ClientReads \/ ClientReadsEof \/ ClientReadsDead
Timers == ServerTimerExpires \/ ServerTimesOut \/ ClientTimerExpires \/ ClientTimesOut
Foreign == ForeignAnswers \/ ForeignLeaves

Next == Server \/ Client \/ Timers \/ Foreign \/ AcceptFails \/ SendHttpResponse

\* A read, by what it does to the stream: a step of Next that takes from a stream is
\* the read of the end it leads to (or the answer of a foreign server).
ServerTakes == /\ Library("server") /\ s.pending \in {"handshake", "frame"}
               /\ \E n \in 1..Len(toServer) : toServer' = Takes(toServer, n)
ClientTakes == /\ c.pending \in {"handshake", "frame"}
               /\ \E n \in 1..Len(toClient) : toClient' = Takes(toClient, n)

\* The io_services run what is ready, and time passes; a foreign end, a user who has
\* deferred his response and a failing accept are not to be relied on.
Fairness ==
  /\ WF_vars(Accept \/ ServerWrites \/ ServerReadsEof) /\ WF_toServer(ServerTakes)
  /\ WF_vars(ClientStarts \/ ClientWrites \/ ClientReadsEof \/ ClientReadsDead)
  /\ WF_toClient(ClientTakes)
  /\ WF_vars(ServerTimerExpires) /\ WF_vars(ServerTimesOut)
  /\ WF_vars(ClientTimerExpires) /\ WF_vars(ClientTimesOut)

Spec == Init /\ [][Next]_vars /\ Fairness

-----------------------------------------------------------------------------
(* Properties.                                                             *)

\* What a request calls for, told from its lines alone: the codes of everything that
\* is wrong with it, or what its user wants.
Given(lines, name) == {lines[i].value : i \in {j \in 2..Len(lines) : lines[j].name = name}}
Wants(lines) == Given(lines, "Upgrade") = {<<"websocket">>} /\ Given(lines, "Connection") = {<<"upgrade">>}
OfVersion0(lines) == Wants(lines) /\ Given(lines, "Version") \in {{}, {<<"0">>}}

Wrong(lines) ==
  LET Missing(name) == Given(lines, name) \subseteq {<<>>}
      port == {v \in Given(lines, "Host") : v \in {<<"h", ":", "0">>, <<"h", ":", "70000">>, <<"h", ":", "h">>}}
      version == Given(lines, "Version")
      badList == \E v \in Given(lines, "Extensions") : v # <<>> /\ Head(v) \notin TokenChars
  IN {code \in {400, 413, 431} :
       CASE code = 413 -> Given(lines, "Length") = {<<"huge">>}
         [] code = 431 -> Given(lines, "Cookie") # {}
         [] code = 400 ->
              \/ lines[1].name # "request" \/ Len(lines[1].value) # 2
              \/ \E i \in 2..Len(lines) : lines[i].name \notin HeaderNames
              \/ Missing("Host") \/ port # {}
              \/ Wants(lines) /\ ~OfVersion0(lines) /\
                   \/ version \notin {{<<"7">>}, {<<"8">>}, {<<"13">>}}
                   \/ lines[1].value # <<"GET", "HTTP/1.1">>
                   \/ Missing("Key") \/ badList
              \/ OfVersion0(lines) /\
                   \/ lines[1].value # <<"GET", "HTTP/1.1">>
                   \/ Missing("Key1") \/ Missing("Key2")}

Demanded(lines) ==
  IF Wrong(lines) # {} THEN Wrong(lines)
  ELSE IF Wants(lines)
  THEN {CASE policy.validate = "accept" -> 101 [] policy.validate = "forbid" -> 403 [] OTHER -> 400}
  ELSE CASE policy.http = "none" -> {426} [] policy.http = "answers" -> {200}
         [] policy.http = "quiet" -> {500} [] OTHER -> {200, 500}

\* The server answers as the request and its user call for, wherever the reads cut it:
\* only of version 0, whose key is behind the headers, one may be refused that came in
\* two reads.
AnswersRightly ==
  Library("server") /\ ~Library("client") /\ s.status # 0 =>
    s.status \in Demanded(scenario.lines) \cup (IF OfVersion0(scenario.lines) THEN {500} ELSE {})

\* Between two ends of the library, both mean the same host and port, and the server
\* is asked for what the client's user may ask for: unless the host is a literal
\* IPv6 address, whose brackets the client's Host header lacks.
UnderstoodRightly ==
  Library("server") /\ Library("client") /\ s.status = 101 =>
    /\ s.offered = c.subprotocols
    /\ ":" \notin ToSet(c.uri.host) => s.uri.host = c.uri.host /\ s.uri.port = c.uri.port

\* An end opens once, and is told of a failure or of its end, not of both; unless the
\* client cannot read the response's extensions, when it hears all three.
ToldRightly ==
  \A d \in {s, c} : \/ d.told \in {<<>>, <<"open">>, <<"fail">>, <<"open", "close">>}
                    \/ d.told \in {<<"fail", "open">>, <<"fail", "open", "close">>} /\ BadExtensions(d)

\* A connection opens only between ends that agree that it does, on a subprotocol
\* that was asked for; all others are answered and told for what they are.
HandshakeIsTrue ==
  /\ AnswersRightly /\ UnderstoodRightly /\ ToldRightly
  /\ "open" \in ToSet(c.told) => s.status = 101
  /\ s.chosen # <<>> =>
       \E v \in Given(scenario.lines, "Protocol") \cup ToSet(scenario.offers) :
          s.chosen \in {SubSeq(v, i, j) : i, j \in 1..Len(v)}

\* What comes behind a header is neither lost nor read twice, wherever the stream is
\* cut: an open end that has read all has got every message, in order.
StreamsWhole ==
  /\ IsPrefix(s.got, sent.server) /\ IsPrefix(c.got, sent.client)
  /\ s.state = "open" /\ s.pending = "frame" /\ toServer = <<>> => s.got = sent.server
  /\ c.state = "open" /\ c.pending = "frame" /\ toClient = <<>> => c.got = sent.client

\* Every opening comes to an end, open or closed, whatever the other end does, except
\* where the server's user has put off his response.
Settled(e, d) == Library(e) => d.state \in {"open", "closed"} \/ d.pending = "user"
Settles == <>[](Settled("server", s) /\ Settled("client", c))
=============================================================================
