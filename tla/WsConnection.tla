---------------------------- MODULE WsConnection ----------------------------
(***************************************************************************)
(* One client connection of the websocket library under FX4Src, from       *)
(* client::connect to the end: resolving and connecting with their timers  *)
(* (asio/endpoint.hpp), the opening handshake, reading and writing frames, *)
(* the closing handshake and terminate (impl/connection_impl.hpp).         *)
(*                                                                         *)
(* One thread runs the io_service: a completed operation, an expired timer *)
(* or a posted function is a handler in `ready', and Run runs the first to *)
(* its end.  Other threads call send(), in the three steps its locks make  *)
(* of it.  The security policy is security/none.hpp, so that init and      *)
(* async_shutdown call back at once; there is no proxy.                    *)
(*                                                                         *)
(* Code that this program does not call is left out: close(), ping() and   *)
(* pause_reading() by the user, the http handler, the server's handshake.  *)
(***************************************************************************)
EXTENDS Naturals, Sequences, FiniteSets, SequencesExt

CONSTANTS
  Senders,     \* threads that call send(), other than the io_service's
  MaxSends,    \* bound: calls by each of them
  MaxMessages, \* bound: messages of the peer
  MaxPartials  \* bound: reads that give only a part of the response's headers

ASSUME ConstAssumption ==
  /\ IsFiniteSet(Senders) /\ "io" \notin Senders
  /\ MaxSends \in Nat /\ MaxMessages \in Nat /\ MaxPartials \in Nat

VARIABLES
  state,      \* m_state
  istate,     \* m_internal_state
  timer,      \* the timer m_handshake_timer points to
  flag,       \* m_write_flag
  current,    \* m_current_msgs
  queue,      \* m_send_queue
  clean,      \* m_was_clean
  ready,      \* the io_service: handlers to be run
  pending,    \* operations of the system under way, with their handlers
  armed,      \* timers that wait
  overdue,    \* timers whose time has come: is_neg(expires_from_now())
  sender,     \* where each sending thread is
  \* history
  answers,    \* what the connect callback was called with
  told,       \* calls of the user's handlers
  pushed,     \* messages given to write_push
  written,    \* messages whose write has succeeded
  received,   \* messages of the peer, so far
  sends,      \* calls of send() by each thread
  partials

conn == <<state, istate, timer, flag, current, queue, clean>>
io   == <<ready, pending, armed, overdue>>
hist == <<answers, told, pushed, written, received, partials>>
vars == <<conn, io, sender, hist, sends>>

\* The connection and the io_service as one record, so that a handler that
\* calls another is a function of it.
Con == [state |-> state, istate |-> istate, timer |-> timer, flag |-> flag,
        current |-> current, queue |-> queue, clean |-> clean, ready |-> ready,
        pending |-> pending, armed |-> armed, answers |-> answers, told |-> told,
        pushed |-> pushed, written |-> written]

Becomes(c) ==
  /\ state' = c.state /\ istate' = c.istate /\ timer' = c.timer /\ flag' = c.flag
  /\ current' = c.current /\ queue' = c.queue /\ clean' = c.clean
  /\ ready' = c.ready /\ pending' = c.pending /\ armed' = c.armed
  /\ answers' = c.answers /\ told' = c.told /\ pushed' = c.pushed /\ written' = c.written
  /\ UNCHANGED <<overdue, sender, received, sends, partials>>

Handler(h, ec, data) == [h |-> h, ec |-> ec, data |-> data]
\* Timers, by what they are for; those of the closing handshake are numbered.
None    == <<"none", 0>>
DnsTimer == <<"dns", 0>>
ConTimer == <<"con", 0>>
OpenTimer == <<"open", 0>>
PostTimer == <<"post", 0>>
ShutTimer == <<"shut", 0>>

-----------------------------------------------------------------------------
(* What the handlers are made of. *)

Post(c, h)       == [c EXCEPT !.ready = Append(@, Handler(h, "ok", <<>>))]
StartOp(c, op, h) == [c EXCEPT !.pending = @ \cup {[op |-> op, h |-> h]}]

SetTimer(c, t) == [c EXCEPT !.armed = @ \cup {t}]
\* The handler of a cancelled timer only logs; one that is already in `ready'
\* is not stopped.
CancelTimer(c, t) == [c EXCEPT !.armed = @ \ {t}]

\* asio resolver::cancel and cancel_socket_checked: the operation ends with
\* operation_aborted, if it has not ended yet.
CancelOps(c) ==
  [c EXCEPT !.pending = {},
            !.ready = @ \o SetToSeq({Handler(p.h, "aborted", <<>>) : p \in c.pending})]

Says(c, what) == [c EXCEPT !.told = Append(@, what)]

\* mutant: the handler is told of the end once more by a second terminate
TerminateAgain(c) ==
  LET d == [CancelTimer(c, c.timer) EXCEPT !.timer = None, !.state = "closed"]
  IN IF c.state = "connecting" THEN Says(d, "fail") ELSE Says(d, "close")

HandleTerminate(c, from) ==
  CASE from = "connecting"         -> Says(c, "fail")
    [] from \in {"open", "closing"} -> Says(c, "close")
    [] OTHER                       -> c

\* async_shutdown: the socket of security/none is shut down at once, long before its
\* timer is overdue; an error of it changes nothing for handle_terminate.
AsyncShutdown(c) == CancelTimer(SetTimer(c, ShutTimer), ShutTimer)

Terminate(c) ==
  LET d == [CancelTimer(c, c.timer) EXCEPT !.timer = None, !.state = "closed"]
  IN IF c.state = "closed" THEN d ELSE HandleTerminate(AsyncShutdown(d), c.state)

WritePush(c, msg) == [c EXCEPT !.queue = Append(@, msg), !.pushed = Append(@, msg)]

PushAndPost(c, msg) ==
  IF ~c.flag THEN Post(WritePush(c, msg), "write_frame") ELSE WritePush(c, msg)

Message(kind, by, terminal) == [kind |-> kind, by |-> by, terminal |-> terminal]

\* send() by a handler of the user, on the io_service's thread.
SendHere(c) == IF c.state = "open" THEN PushAndPost(c, Message("data", "io", FALSE)) ELSE c

\* mutant: the timer is left to the acknowledgement
SendCloseFrameUntimed(c, ack, terminal) ==
  PushAndPost([c EXCEPT !.state = "closing", !.clean = @ \/ ack],
              Message("close", "io", terminal))

\* send_close_frame.  The timer set for the first close frame is forgotten, not
\* cancelled, when a second is sent.
SendCloseFrame(c, ack, terminal) ==
  LET t == <<"close", Cardinality({i \in 1..Len(c.pushed) : c.pushed[i].kind = "close"})>>
      d == [SetTimer(c, t) EXCEPT !.state = "closing", !.timer = t, !.clean = @ \/ ack]
  IN PushAndPost(d, Message("close", "io", terminal))

\* mutant: a ping is answered in any state
ProcessControlFrameAnyState(c, m) ==
  CASE m = "ping" -> PushAndPost(c, Message("pong", "io", FALSE))
    [] m = "badclose" /\ c.state # "closed" -> SendCloseFrame(c, TRUE, FALSE)
    [] m = "close" /\ c.state = "open"    -> SendCloseFrame(c, TRUE, FALSE)
    [] m = "close" /\ c.state = "closing" -> [c EXCEPT !.clean = TRUE]
    [] OTHER -> c

\* process_control_frame: "badclose" has a code or a reason that must not be.
ProcessControlFrame(c, m) ==
  CASE m = "ping" /\ c.state = "open"     -> PushAndPost(c, Message("pong", "io", FALSE))
    [] m = "badclose" /\ c.state # "closed" -> SendCloseFrame(c, TRUE, FALSE)
    [] m = "close" /\ c.state = "open"    -> SendCloseFrame(c, TRUE, FALSE)
    [] m = "close" /\ c.state = "closing" -> [c EXCEPT !.clean = TRUE]
    [] OTHER -> c

\* A turn of handle_read_frame's loop: a message, which the user's handler may
\* answer ("ask"), a control frame, or bytes that are no frame ("bad"), for
\* which close() is called, or terminate() when that fails.
OneMessage(s, m) ==
  LET c == s.c
  IN IF s.left THEN s
     ELSE CASE m = "bad" -> [left |-> TRUE, c |-> IF c.state = "open"
                                                    THEN SendCloseFrame(c, FALSE, TRUE)
                                                    ELSE Terminate(c)]
            [] m \in {"data", "ask"} /\ c.state = "open" ->
                 [s EXCEPT !.c = IF m = "ask" THEN SendHere(Says(c, "message")) ELSE Says(c, "message")]
            [] m \in {"data", "ask"} /\ c.state # "open" -> s
            [] OTHER -> [s EXCEPT !.c = ProcessControlFrame(c, m)]

ReadFrames(c, msgs) ==
  LET turn[i \in 0..Len(msgs)] ==
        IF i = 0 THEN [left |-> FALSE, c |-> c] ELSE OneMessage(turn[i - 1], msgs[i])
      s == turn[Len(msgs)]
  IN IF s.left THEN s.c ELSE StartOp(s.c, "read", "handle_read_frame")

-----------------------------------------------------------------------------
(* The handlers. *)

SendHttpRequest(c) ==
  StartOp([SetTimer(c, OpenTimer) EXCEPT !.timer = OpenTimer, !.istate = "WRITE_HTTP_REQUEST"],
          "write", "handle_send_http_request")

\* init to handle_post_init: without a proxy, and with a socket that calls back at
\* once, only the timer of the second stage comes and goes.
TransportInit(c) == CancelTimer(SetTimer(c, PostTimer), PostTimer)

\* start and handle_transport_init; start ends the connection when it is not the first.
Start(c) == IF c.istate # "USER_INIT" THEN Terminate(c) ELSE SendHttpRequest(TransportInit(c))

\* client::handle_connect, the callback of asio's async_connect.
Connected(c, ec) ==
  LET d == [c EXCEPT !.answers = Append(@, ec)]
  IN IF ec = "ok" THEN Start(d) ELSE Terminate(d)

\* Whether handle_resolve and handle_connect leave the callback to the timer's
\* handler.
LeftToTimer(c, t, ec) == ec = "aborted" \/ t \in overdue

HandleResolve(c, e) ==
  IF LeftToTimer(c, DnsTimer, e.ec) THEN c
  ELSE IF e.ec # "ok" THEN Connected(CancelTimer(c, DnsTimer), e.ec)
  ELSE StartOp(SetTimer(CancelTimer(c, DnsTimer), ConTimer), "connect", "handle_connect")

HandleConnect(c, e) ==
  IF LeftToTimer(c, ConTimer, e.ec) THEN c ELSE Connected(CancelTimer(c, ConTimer), e.ec)

\* The resolver's operation is cancelled, or the socket's.
HandleResolveTimeout(c) == Connected(CancelOps(c), "timeout")
HandleConnectTimeout(c) == Connected(CancelOps(c), "timeout")

HandleSendHttpRequest(c, e) ==
  IF e.ec = "ok" /\ c.state = "connecting" /\ c.istate = "WRITE_HTTP_REQUEST"
    THEN StartOp([c EXCEPT !.istate = "READ_HTTP_RESPONSE"], "read", "handle_read_http_response")
    ELSE Terminate(c)

\* The state is "closed" when the timer has ended it: terminate does nothing more.
HandleReadHttpResponse(c, e) ==
  LET d == [CancelTimer(c, c.timer) EXCEPT !.timer = None]
      resp == e.data[1]
  IN IF ~(e.ec = "ok" /\ c.state = "connecting" /\ c.istate = "READ_HTTP_RESPONSE")
       THEN Terminate(c)
     ELSE CASE resp = "malformed" -> Terminate(c)
            [] resp = "partial"   -> StartOp(c, "read", "handle_read_http_response")
            [] resp = "refused"   -> Terminate(d)
            [] resp = "accepted"  ->
                 ReadFrames(Says([d EXCEPT !.istate = "PROCESS_CONNECTION", !.state = "open"],
                                 "open"), Tail(e.data))

HandleReadFrame(c, e) ==
  IF e.ec = "ok" /\ c.istate = "PROCESS_CONNECTION" THEN ReadFrames(c, e.data)
  ELSE Terminate(c)

\* write_frame pops messages up to a terminal one.
WriteFrame(c) ==
  LET ends == {i \in 1..Len(c.queue) : c.queue[i].terminal}
      n == IF ends = {} THEN Len(c.queue) ELSE CHOOSE i \in ends : \A j \in ends : i <= j
  IN IF c.flag \/ c.queue = <<>> THEN c
     ELSE StartOp([c EXCEPT !.current = SubSeq(c.queue, 1, n),
                            !.queue = SubSeq(c.queue, n + 1, Len(c.queue)), !.flag = TRUE],
                  "write", "handle_write_frame")

\* mutant: what has come meanwhile is left to the next send
HandleWriteFrameOnly(c, e) ==
  LET d == [c EXCEPT !.current = <<>>, !.written = IF e.ec = "ok" THEN @ \o c.current ELSE @]
  IN IF e.ec # "ok" \/ c.current[Len(c.current)].terminal THEN Terminate(d)
     ELSE [d EXCEPT !.flag = FALSE]

HandleWriteFrame(c, e) ==
  LET d == [c EXCEPT !.current = <<>>, !.written = IF e.ec = "ok" THEN @ \o c.current ELSE @]
  IN IF e.ec # "ok" \/ c.current[Len(c.current)].terminal THEN Terminate(d)
     ELSE IF c.queue # <<>> THEN Post([d EXCEPT !.flag = FALSE], "write_frame")
     ELSE [d EXCEPT !.flag = FALSE]

Result(c, e) ==
  CASE e.h = "handle_resolve"            -> HandleResolve(c, e)
    [] e.h = "dns"                       -> HandleResolveTimeout(c)
    [] e.h = "con"                       -> HandleConnectTimeout(c)
    [] e.h = "handle_connect"            -> HandleConnect(c, e)
    [] e.h = "handle_send_http_request"  -> HandleSendHttpRequest(c, e)
    [] e.h = "handle_read_http_response" -> HandleReadHttpResponse(c, e)
    [] e.h \in {"open", "close"}         -> Terminate(c)
    [] e.h = "handle_read_frame"         -> HandleReadFrame(c, e)
    [] e.h = "write_frame"               -> WriteFrame(c)
    [] e.h = "handle_write_frame"        -> HandleWriteFrame(c, e)

\* The io_service's thread runs the first handler.
Run ==
  /\ ready # <<>>
  /\ Becomes(Result([Con EXCEPT !.ready = Tail(@)], Head(ready)))

-----------------------------------------------------------------------------
(***************************************************************************)
(* The system: operations end and timers run out, in any order.  After the *)
(* socket is shut down a read ends with eof and a write may fail.          *)
(***************************************************************************)
Ends(p, ec, data) ==
  /\ pending' = pending \ {p}
  /\ ready' = Append(ready, Handler(p.h, ec, data))
  /\ UNCHANGED <<conn, armed, overdue, sender, answers, told, pushed, written, sends>>

\* A read of frames gives one message of the peer, or two that came together.
Kinds == {"data", "ask", "ping", "close", "badclose", "bad"}
Batches == {<<>>} \cup {<<m>> : m \in Kinds} \cup {<<"close", m>> : m \in Kinds}

ReadEnds(p) ==
  /\ state # "closed"
  /\ \E msgs \in Batches :
       LET data == IF p.h = "handle_read_frame" THEN msgs ELSE <<"accepted">> \o msgs
       IN /\ data # <<>>
          /\ received + Len(msgs) <= MaxMessages /\ received' = received + Len(msgs)
          /\ Ends(p, "ok", data)
  /\ UNCHANGED partials

ResponseFails(p) ==
  /\ p.h = "handle_read_http_response" /\ state # "closed"
  /\ \E resp \in {"malformed", "partial", "refused"} :
       /\ resp = "partial" => partials < MaxPartials
       /\ partials' = IF resp = "partial" THEN partials + 1 ELSE partials
       /\ Ends(p, "ok", <<resp>>)
  /\ UNCHANGED received

OpEnds(p) ==
  \/ p.op = "read" /\ ReadEnds(p)
  \/ p.op = "read" /\ ResponseFails(p)
  \/ p.op = "read" /\ Ends(p, "eof", <<>>) /\ UNCHANGED <<received, partials>>
  \/ p.op # "read" /\ \E ec \in {"ok", "error"} : Ends(p, ec, <<>>)
                  /\ UNCHANGED <<received, partials>>

\* The time of a timer comes, and then the reactor sees it.
TimerIsDue(t) ==
  /\ t \in armed \ overdue
  /\ overdue' = overdue \cup {t}
  /\ UNCHANGED <<conn, ready, pending, armed, sender, hist, sends>>

TimerFires(t) ==
  /\ t \in armed \cap overdue
  /\ armed' = armed \ {t}
  /\ ready' = Append(ready, Handler(t[1], "ok", <<>>))
  /\ UNCHANGED <<conn, pending, overdue, sender, hist, sends>>

(***************************************************************************)
(* send() by another thread: the state is looked at under one lock, the    *)
(* message pushed under another, write_frame posted under none.            *)
(***************************************************************************)
SendChecks(s) ==
  /\ sender[s] = "idle" /\ sends[s] < MaxSends /\ state = "open"
  /\ sender' = [sender EXCEPT ![s] = "checked"]
  /\ sends' = [sends EXCEPT ![s] = @ + 1]
  /\ UNCHANGED <<conn, io, hist>>

SendPushes(s) ==
  /\ sender[s] = "checked"
  /\ queue' = Append(queue, Message("data", s, FALSE))
  /\ pushed' = Append(pushed, Message("data", s, FALSE))
  /\ sender' = [sender EXCEPT ![s] = IF flag THEN "idle" ELSE "posting"]
  /\ UNCHANGED <<state, istate, timer, flag, current, clean, io, answers, told, written,
                 received, partials, sends>>

SendPosts(s) ==
  /\ sender[s] = "posting"
  /\ ready' = Append(ready, Handler("write_frame", "ok", <<>>))
  /\ sender' = [sender EXCEPT ![s] = "idle"]
  /\ UNCHANGED <<conn, pending, armed, overdue, hist, sends>>

\* client::connect: the name is being resolved and the timer runs.
Init ==
  /\ state = "connecting" /\ istate = "USER_INIT" /\ timer = None /\ flag = FALSE
  /\ current = <<>> /\ queue = <<>> /\ clean = FALSE
  /\ ready = <<>> /\ pending = {[op |-> "resolve", h |-> "handle_resolve"]}
  /\ armed = {DnsTimer} /\ overdue = {}
  /\ sender = [s \in Senders |-> "idle"] /\ sends = [s \in Senders |-> 0]
  /\ answers = <<>> /\ told = <<>> /\ pushed = <<>> /\ written = <<>>
  /\ received = 0 /\ partials = 0

Next ==
  \/ Run
  \/ \E p \in pending : OpEnds(p)
  \/ \E t \in armed : TimerIsDue(t) \/ TimerFires(t)
  \/ \E s \in Senders : SendChecks(s) \/ SendPushes(s) \/ SendPosts(s)

\* The thread that runs the io_service goes on, and time passes.
Spec ==
  /\ Init /\ [][Next]_vars
  /\ WF_vars(Run)
  /\ WF_vars(\E t \in armed : TimerIsDue(t) \/ TimerFires(t))

-----------------------------------------------------------------------------
TimerNames == {None, DnsTimer, ConTimer, OpenTimer} \cup {<<"close", n>> : n \in 0..MaxMessages}

Queued(h) == \E i \in 1..Len(ready) : ready[i].h = h
UnderWay(h) == Queued(h) \/ \E p \in pending : p.h = h

TypeOK ==
  /\ state \in {"connecting", "open", "closing", "closed"}
  /\ istate \in {"USER_INIT", "WRITE_HTTP_REQUEST", "READ_HTTP_RESPONSE", "PROCESS_CONNECTION"}
  /\ timer \in TimerNames /\ armed \cup overdue \subseteq TimerNames
  /\ flag \in BOOLEAN /\ clean \in BOOLEAN
  \* one read and one write at a time, and something to end for the latter
  /\ \A p, q \in pending : p.op = q.op => p = q
  /\ \A i, j \in 1..Len(ready) : ready[i].h = ready[j].h => i = j \/ ready[i].h \in {"write_frame", "close"}
  /\ flag /\ state # "closed" => current # <<>>

\* However the timers and the results cross, the callback of async_connect is
\* called once at most: of a result and the timer that was to limit it, one
\* gives way (handle_resolve, handle_connect and their timeouts).
AnsweredOnce == Len(answers) <= 1

\* The user is told of one life: open or fail first, messages in between, close
\* last, each but the messages once; and of the end exactly when it has come
\* (terminate, handle_terminate).
ToldInOrder ==
  /\ \A i \in 1..Len(told) :
       /\ told[i] \in {"open", "fail"} <=> i = 1
       /\ told[i] \in {"fail", "close"} => i = Len(told)
  /\ state = "connecting" <=> told = <<>>
  /\ state = "closed" <=> told # <<>> /\ told[Len(told)] \in {"fail", "close"}

\* The user hears of each end of a wait once and in order, whatever ends it.
ToldOnce == AnsweredOnce /\ ToldInOrder

\* What waits to be written is waited for: a write is under way whose handler
\* will look, or write_frame is posted, or a thread is about to post it
\* (send, write_frame and handle_write_frame share m_write_flag).  And what goes out
\* goes in the order in which write_push took it, nothing lost.
NothingStranded ==
  state # "closed" =>
    /\ queue # <<>> => \/ flag \/ Queued("write_frame")
                       \/ \E s \in Senders : sender[s] = "posting"
    /\ flag => UnderWay("handle_write_frame")
    /\ pushed = written \o current \o queue

\* After a close frame come only close frames and, for a thread that had passed
\* send()'s look at m_state before it, one message each.
CloseIsLast ==
  \A i, j \in 1..Len(pushed) :
    i < j /\ pushed[i].kind = "close" =>
      \/ pushed[j].kind = "close"
      \/ /\ pushed[j].kind = "data" /\ pushed[j].by \in Senders
         /\ \A k \in j + 1..Len(pushed) : pushed[k].by # pushed[j].by

\* Connecting, the opening handshake and the closing handshake all come to an
\* end, by the peer or by their timers: the connection is open or closed again and
\* again (timeout_dns_resolve, timeout_connect and the two handshake timeouts).
Settles == []<>(state \in {"open", "closed"})
=============================================================================
