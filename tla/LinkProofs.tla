----------------------------- MODULE LinkProofs -----------------------------
(***************************************************************************)
(* Proofs about the links whose messages cross: the websocket connection   *)
(* under the FX4's driver, and the commands and packets of the T4U's two   *)
(* drivers.                                                                *)
(*                                                                         *)
(* WsConnection, for any threads that send, any number of messages of the  *)
(* peer and of partial reads: the callback of async_connect is called once *)
(* at most and the user hears of one life in order; nothing waits to be    *)
(* written that nobody will write; after a close frame nothing else goes   *)
(* out but what was already past the check.  A handler is a function of    *)
(* the connection's record, and so is the invariant: Whole says of such a  *)
(* record what every handler needs and every handler leaves.  It is the    *)
(* conjunction of the stages of connecting (StagePart), of writing         *)
(* (WritePart) and of the conversation (Sound).  Most of what a handler    *)
(* does is calm: it starts no operation and answers nobody, so that only   *)
(* the conversation must be looked at.                                     *)
(*                                                                         *)
(* T4UDirect, for any settings written, lengths of the ring buffer, limits *)
(* of the ticks and losses: one command is under way at a time (LinkPart:  *)
(* the phases of an answer), what the driver knows of the registers is so  *)
(* (KnownPart: what is under way says the same), and settings take effect  *)
(* (SettingsPart: what is under way leads each register to its values).    *)
(*                                                                         *)
(* T4U, for any scenarios and numbers of tells and faults: as              *)
(* long as nothing fails the pieces on each socket follow one another      *)
(* through messages (RepliesPart, ReadingsPart), and what is under way to  *)
(* the T4U and back leads each register, and the parameter that a client   *)
(* or the T4U has told of, to the same value (QtKnown).                    *)
(***************************************************************************)
EXTENDS WsConnection, T4UDirect, T4U, SequenceTheorems, FiniteSetTheorems, WellFoundedInduction, TLAPS

-----------------------------------------------------------------------------
(***************************************************************************)
(* Handlers, wherever they are: in `ready' or with an operation.           *)
(***************************************************************************)
\* A handler of X is in the list r or waits with an operation of P.
Some(r, P, X) == (\E i \in 1..Len(r) : r[i].h \in X) \/ (\E p \in P : p.h \in X)

\* There is one such handler at most.
Single(r, P, X) ==
  /\ \A i, j \in 1..Len(r) : r[i].h \in X /\ r[j].h \in X => i = j
  /\ \A p, q \in P : p.h \in X /\ q.h \in X => p = q
  /\ \A i \in 1..Len(r), p \in P : ~(r[i].h \in X /\ p.h \in X)

\* The first handler is taken.
LEMMA TakenIs ==
  ASSUME NEW S, NEW r \in Seq(S), r # <<>>, NEW P, NEW X
  PROVE  /\ Some(Tail(r), P, X) => Some(r, P, X)
         /\ Head(r).h \notin X => (Some(r, P, X) <=> Some(Tail(r), P, X))
         /\ Single(r, P, X) => Single(Tail(r), P, X)
         /\ Single(r, P, X) /\ Head(r).h \in X => ~Some(Tail(r), P, X)
         /\ Head(r).h \in X => Some(r, P, X)
  <1> DEFINE t == Tail(r)
  <1>1. /\ Len(r) \in Nat \ {0} /\ Len(t) = Len(r) - 1 /\ Head(r) = r[1]
        /\ \A i \in 1..Len(t) : t[i] = r[i + 1]
    <2>1. Len(r) \in Nat /\ Len(r) # 0
      BY EmptySeq, LenProperties
    <2> QED BY <2>1, HeadTailProperties
  <1> HIDE DEF t
  <1>2. \A i \in 1..Len(t) : i + 1 \in 1..Len(r) /\ i + 1 # 1
    BY <1>1
  <1>3. \A j \in 1..Len(r) : j # 1 => j - 1 \in 1..Len(t) /\ t[j - 1] = r[j]
    BY <1>1
  <1>4. Some(t, P, X) => Some(r, P, X)
    BY <1>1, <1>2 DEF Some
  <1>5. Head(r).h \notin X => (Some(r, P, X) <=> Some(t, P, X))
    BY <1>1, <1>2, <1>3 DEF Some
  <1>6. ASSUME Single(r, P, X) PROVE Single(t, P, X)
    <2>1. ASSUME NEW i \in 1..Len(t), NEW j \in 1..Len(t), t[i].h \in X, t[j].h \in X PROVE i = j
      <3>1. i + 1 = j + 1
        BY <1>1, <1>2, <1>6, <2>1 DEF Single
      <3> QED BY <1>1, <3>1
    <2> QED BY <1>1, <1>2, <1>6, <2>1 DEF Single
  <1>7. Single(r, P, X) /\ Head(r).h \in X => ~Some(t, P, X)
    <2>1. 1 \in 1..Len(r)
      BY <1>1
    <2> QED BY <1>1, <1>2, <2>1 DEF Single, Some
  <1>8. Head(r).h \in X => Some(r, P, X)
    BY <1>1 DEF Some
  <1> QED BY <1>4, <1>5, <1>6, <1>7, <1>8 DEF t

\* A handler is appended.
LEMMA AppendedIs ==
  ASSUME NEW S, NEW r \in Seq(S), NEW e, NEW P, NEW X
  PROVE  /\ Some(Append(r, e), P, X) <=> (Some(r, P, X) \/ e.h \in X)
         /\ e.h \notin X /\ Single(r, P, X) => Single(Append(r, e), P, X)
         /\ ~Some(r, P, X) => Single(Append(r, e), P, X)
  <1> DEFINE t == Append(r, e)
  <1>1. /\ Len(r) \in Nat /\ Len(t) = Len(r) + 1 /\ t[Len(r) + 1] = e
        /\ \A i \in 1..Len(r) : t[i] = r[i]
    <2>1. r \in Seq(S \cup {e}) /\ Len(r) \in Nat
      BY SeqMonotonic, LenProperties
    <2> QED BY <2>1, AppendProperties
  <1> HIDE DEF t
  <1>2. Len(r) + 1 \in 1..Len(t) /\ \A i \in 1..Len(t) : i \in 1..Len(r) \/ i = Len(r) + 1
    BY <1>1
  <1>3. \A i \in 1..Len(r) : i \in 1..Len(t)
    BY <1>1
  <1>4. Some(t, P, X) <=> (Some(r, P, X) \/ e.h \in X)
    BY <1>1, <1>2, <1>3 DEF Some
  <1>5. e.h \notin X /\ Single(r, P, X) => Single(t, P, X)
    BY <1>1, <1>2, <1>3 DEF Single
  <1>6. ~Some(r, P, X) => Single(t, P, X)
    BY <1>1, <1>2, <1>3 DEF Single, Some
  <1> QED BY <1>4, <1>5, <1>6 DEF t

\* An operation is started.
LEMMA StartedIs ==
  ASSUME NEW r, NEW P, NEW o, NEW X
  PROVE  /\ Some(r, P \cup {o}, X) <=> (Some(r, P, X) \/ o.h \in X)
         /\ o.h \notin X /\ Single(r, P, X) => Single(r, P \cup {o}, X)
         /\ ~Some(r, P, X) => Single(r, P \cup {o}, X)
  BY DEF Some, Single

\* An operation ends: its handler goes to the list.
LEMMA MovedIs ==
  ASSUME NEW S, NEW r \in Seq(S), NEW P, NEW p \in P, NEW e, e.h = p.h, NEW X
  PROVE  /\ Some(Append(r, e), P \ {p}, X) <=> Some(r, P, X)
         /\ Single(r, P, X) => Single(Append(r, e), P \ {p}, X)
  <1>1. Some(Append(r, e), P \ {p}, X) <=> (Some(r, P \ {p}, X) \/ e.h \in X)
    BY AppendedIs
  <1>2. Some(r, P, X) <=> (Some(r, P \ {p}, X) \/ p.h \in X)
    BY DEF Some
  <1>3. ASSUME Single(r, P, X), p.h \in X PROVE ~Some(r, P \ {p}, X)
    BY <1>3 DEF Some, Single
  <1>4. Single(r, P, X) => Single(r, P \ {p}, X)
    BY DEF Single
  <1>5. ASSUME Single(r, P, X) PROVE Single(Append(r, e), P \ {p}, X)
    BY <1>3, <1>4, <1>5, AppendedIs
  <1> QED BY <1>1, <1>2, <1>5

\* All operations end.
LEMMA CancelledIs ==
  ASSUME NEW S, NEW r \in Seq(S), NEW P, IsFiniteSet(P)
  PROVE  LET A == {Handler(p.h, "aborted", <<>>) : p \in P}
             t == r \o SetToSeq(A)
         IN  /\ t \in Seq(S \cup A)
             /\ \A X : Some(t, {}, X) <=> Some(r, P, X)
             /\ \A X : Single(r, P, X) => Single(t, {}, X)
  <1> DEFINE Aborted(p) == Handler(p.h, "aborted", <<>>)
             A == {Aborted(p) : p \in P}
             u == SetToSeq(A)
             t == r \o u
  <1>1. \A p \in P : Aborted(p).h = p.h
    BY DEF Handler
  <1>2. IsFiniteSet(A)
    <2> DEFINE f == [p \in P |-> Aborted(p)]
    <2>1. f \in Surjection(P, A)
      BY DEF Surjection
    <2> HIDE DEF f, A, Aborted
    <2> QED BY <2>1, FS_Surjection
  <1>3. /\ Cardinality(A) \in Nat /\ u \in [1..Cardinality(A) -> A] /\ IsInjective(u)
        /\ \A a \in A : \E i \in 1..Cardinality(A) : u[i] = a
    <2> HIDE DEF A
    <2> DEFINE n == Cardinality(A)
    <2>1. n \in Nat /\ ExistsBijection(1..n, A)
      BY <1>2, FS_CardinalityType
    <2>2. \E f \in [1..n -> A] : IsInjective(f)
      BY <2>1 DEF ExistsBijection, Bijection, Injection
    <2>3. u \in [1..n -> A] /\ IsInjective(u)
      BY <2>2 DEF SetToSeq
    <2>4. u \in Injection(1..n, A)
      BY <2>3 DEF Injection
    <2>5. IsFiniteSet(1..n) /\ Cardinality(1..n) = n
      BY <2>1, FS_Interval
    <2>6. u \in Surjection(1..n, A)
      BY <2>4, <2>5, <1>2, FS_Injection
    <2>7. \A a \in A : \E i \in 1..n : u[i] = a
      BY <2>6 DEF Surjection
    <2> QED BY <2>1, <2>3, <2>7
  <1> DEFINE n == Cardinality(A)
  <1>4. u \in Seq(A) /\ Len(u) = n
    <2> HIDE DEF A, u
    <2> QED BY <1>3
  <1> HIDE DEF u
  <1>5. /\ t \in Seq(S \cup A) /\ Len(r) \in Nat /\ Len(t) = Len(r) + n
        /\ \A i \in 1..Len(r) : t[i] = r[i]
        /\ \A i \in 1..n : t[Len(r) + i] = u[i]
    <2>1. r \in Seq(S \cup A) /\ u \in Seq(S \cup A) /\ Len(r) \in Nat
      BY <1>4, SeqMonotonic, LenProperties
    <2>2. /\ t \in Seq(S \cup A) /\ Len(t) = Len(r) + Len(u)
          /\ \A i \in 1..Len(r) + Len(u) : t[i] = IF i <= Len(r) THEN r[i] ELSE u[i - Len(r)]
      BY <2>1, ConcatProperties
    <2> HIDE DEF t, A
    <2> QED BY <1>3, <1>4, <2>1, <2>2
  <1> HIDE DEF t, n
  <1>6. \A i \in 1..Len(t) : i \in 1..Len(r) \/ (i - Len(r) \in 1..n /\ t[i] = u[i - Len(r)])
    BY <1>3, <1>5 DEF n
  <1>7. \A i \in 1..n : Len(r) + i \in 1..Len(t)
    BY <1>3, <1>5 DEF n
  <1>8. \A i \in 1..Len(r) : i \in 1..Len(t)
    BY <1>3, <1>5 DEF n
  <1>9. \A i \in 1..n : \E p \in P : u[i] = Aborted(p) /\ u[i].h = p.h
    <2> SUFFICES ASSUME NEW i \in 1..n PROVE \E p \in P : u[i] = Aborted(p) /\ u[i].h = p.h
      OBVIOUS
    <2>1. u[i] \in A
      BY <1>3 DEF n
    <2>2. PICK p \in P : u[i] = Aborted(p)
      BY <2>1
    <2>3. u[i].h = p.h
      BY <2>2, <1>1
    <2> QED BY <2>2, <2>3
  <1>10. \A p \in P : \E i \in 1..n : u[i].h = p.h /\ u[i] = Aborted(p)
    <2> SUFFICES ASSUME NEW p \in P PROVE \E i \in 1..n : u[i].h = p.h /\ u[i] = Aborted(p)
      OBVIOUS
    <2>1. Aborted(p) \in A
      OBVIOUS
    <2>2. PICK i \in 1..n : u[i] = Aborted(p)
      BY <1>3, <2>1 DEF n
    <2> QED BY <1>1, <2>2
  <1> HIDE DEF A, Aborted
  <1>11. ASSUME NEW X PROVE Some(t, {}, X) <=> Some(r, P, X)
    <2>1. ASSUME Some(t, {}, X) PROVE Some(r, P, X)
      <3>1. PICK i \in 1..Len(t) : t[i].h \in X
        BY <2>1 DEF Some
      <3>2. CASE i \in 1..Len(r)
        BY <1>5, <3>1, <3>2 DEF Some
      <3>3. CASE i - Len(r) \in 1..n /\ t[i] = u[i - Len(r)]
        BY <1>9, <3>1, <3>3 DEF Some
      <3> QED BY <1>6, <3>2, <3>3
    <2>2. ASSUME Some(r, P, X) PROVE Some(t, {}, X)
      <3>1. CASE \E i \in 1..Len(r) : r[i].h \in X
        BY <1>5, <1>8, <3>1 DEF Some
      <3>2. CASE \E p \in P : p.h \in X
        <4>1. PICK p \in P : p.h \in X
          BY <3>2
        <4>2. PICK i \in 1..n : u[i].h = p.h
          BY <1>10, <4>1
        <4>3. t[Len(r) + i].h \in X /\ Len(r) + i \in 1..Len(t)
          BY <1>5, <1>7, <4>1, <4>2 DEF n
        <4> QED BY <4>3 DEF Some
      <3> QED BY <2>2, <3>1, <3>2 DEF Some
    <2> QED BY <2>1, <2>2
  <1>12. ASSUME NEW X, Single(r, P, X) PROVE Single(t, {}, X)
    <2>1. ASSUME NEW i \in 1..Len(t), NEW j \in 1..Len(t), t[i].h \in X, t[j].h \in X PROVE i = j
      <3>1. CASE i \in 1..Len(r) /\ j \in 1..Len(r)
        BY <1>5, <1>12, <2>1, <3>1 DEF Single
      <3>2. CASE i \in 1..Len(r) /\ j - Len(r) \in 1..n /\ t[j] = u[j - Len(r)]
        BY <1>5, <1>9, <1>12, <2>1, <3>2 DEF Single
      <3>3. CASE j \in 1..Len(r) /\ i - Len(r) \in 1..n /\ t[i] = u[i - Len(r)]
        BY <1>5, <1>9, <1>12, <2>1, <3>3 DEF Single
      <3>4. CASE /\ i - Len(r) \in 1..n /\ t[i] = u[i - Len(r)]
                 /\ j - Len(r) \in 1..n /\ t[j] = u[j - Len(r)]
        <4>1. PICK p \in P : u[i - Len(r)] = Aborted(p) /\ u[i - Len(r)].h = p.h
          BY <1>9, <3>4
        <4>2. PICK q \in P : u[j - Len(r)] = Aborted(q) /\ u[j - Len(r)].h = q.h
          BY <1>9, <3>4
        <4>3. p = q
          BY <1>12, <2>1, <3>4, <4>1, <4>2 DEF Single
        <4>4. u[i - Len(r)] = u[j - Len(r)]
          BY <4>1, <4>2, <4>3
        <4>5. i - Len(r) = j - Len(r)
          BY <1>3, <3>4, <4>4 DEF IsInjective, n
        <4> QED BY <1>5, <4>5
      <3> QED BY <1>6, <3>1, <3>2, <3>3, <3>4
    <2> QED BY <2>1 DEF Single
  <1> QED BY <1>5, <1>11, <1>12 DEF t, u, A, Aborted

-----------------------------------------------------------------------------
(***************************************************************************)
(* Types.                                                                  *)
(***************************************************************************)
\* One read or one step towards the first is under way at a time, and one write.
Chain == {"handle_resolve", "handle_connect", "handle_send_http_request",
          "handle_read_http_response", "handle_read_frame"}
Writing == {"handle_write_frame"}
Names == Chain \cup Writing \cup {"dns", "con", "open", "close", "write_frame"}

Timers == {DnsTimer, ConTimer, OpenTimer} \cup {<<"close", n>> : n \in Nat}
Texts == [kind : {"data", "pong", "close"}, by : Senders \cup {"io"}, terminal : BOOLEAN]
Codes == {"ok", "aborted", "eof", "error"}
Pieces == Kinds \cup {"accepted", "malformed", "partial", "refused"}

Response(pieces) ==
  \/ pieces \in {<<"malformed">>, <<"partial">>, <<"refused">>}
  \/ pieces # <<>> /\ Head(pieces) = "accepted" /\ Tail(pieces) \in Batches

\* A handler with what it is given.
Handlers ==
  {e \in [h : Names, ec : Codes, data : Seq(Pieces)] :
     e.ec = "ok" => /\ e.h = "handle_read_frame" => e.data \in Batches
                    /\ e.h = "handle_read_http_response" => Response(e.data)}

Ops ==
  {o \in [op : {"resolve", "connect", "read", "write"}, h : Chain \cup Writing] :
     o.h = "handle_read_http_response" => o.op = "read"}

Says4 == {"open", "fail", "message", "close"}

Conns ==
  [state : {"connecting", "open", "closing", "closed"},
   istate : {"USER_INIT", "WRITE_HTTP_REQUEST", "READ_HTTP_RESPONSE", "PROCESS_CONNECTION"},
   timer : Timers \cup {None}, flag : BOOLEAN, current : Seq(Texts), queue : Seq(Texts),
   clean : BOOLEAN, ready : Seq(Handlers), pending : SUBSET Ops, armed : SUBSET Timers,
   answers : Seq(Codes \cup {"timeout"}), told : Seq(Says4),
   pushed : Seq(Texts), written : Seq(Texts)]

\* The members that no call of the user's handlers, no message pushed and no end of
\* the connection touches.
Untouched(c, d) ==
  /\ d.flag = c.flag /\ d.current = c.current /\ d.pending = c.pending
  /\ d.answers = c.answers /\ d.written = c.written

\* And those that an end of the connection leaves.
Unsaid(c, d) ==
  Untouched(c, d) /\ d.queue = c.queue /\ d.pushed = c.pushed /\ d.ready = c.ready

\* A call of the user's handler adds to what he was told and to nothing else (on_open to on_close).
LEMMA SaysIs ==
  ASSUME NEW c \in Conns, NEW w \in Says4
  PROVE  /\ Says(c, w) \in Conns
         /\ Says(c, w).told = Append(c.told, w)
         /\ Says(c, w).state = c.state /\ Says(c, w).istate = c.istate
         /\ Says(c, w).armed = c.armed
         /\ Unsaid(c, Says(c, w))
  <1> DEFINE a == Append(c.told, w)
  <1>1. c.told \in Seq(Says4)
    BY DEF Conns
  <1>2. a \in Seq(Says4)
    BY <1>1, AppendProperties
  <1>3. Says(c, w) = [c EXCEPT !.told = a]
    BY DEF Says
  <1> HIDE DEF a
  <1>4. [c EXCEPT !.told = a] \in Conns
    BY <1>2 DEF Conns
  <1>5. /\ [c EXCEPT !.told = a].told = a
        /\ [c EXCEPT !.told = a].state = c.state /\ [c EXCEPT !.told = a].istate = c.istate
        /\ [c EXCEPT !.told = a].armed = c.armed
        /\ Unsaid(c, [c EXCEPT !.told = a])
    BY DEF Conns, Unsaid, Untouched
  <1> QED BY <1>3, <1>4, <1>5 DEF a

\* terminate closes the connection and tells the user of the end once, by where it came from.
LEMMA TerminateIs ==
  ASSUME NEW c \in Conns
  PROVE  /\ Terminate(c) \in Conns
         /\ Terminate(c).state = "closed" /\ Terminate(c).istate = c.istate
         /\ Terminate(c).armed \subseteq c.armed
         /\ c.state = "closed" => Terminate(c).told = c.told
         /\ c.state = "connecting" => Terminate(c).told = Append(c.told, "fail")
         /\ c.state \in {"open", "closing"} => Terminate(c).told = Append(c.told, "close")
         /\ Unsaid(c, Terminate(c))
  <1> DEFINE e == [CancelTimer(c, c.timer) EXCEPT !.timer = None, !.state = "closed"]
             f == AsyncShutdown(e)
  <1>1. /\ e \in Conns /\ e.state = "closed" /\ e.armed \subseteq c.armed /\ e.told = c.told
        /\ e.istate = c.istate /\ Unsaid(c, e)
    BY DEF CancelTimer, Conns, Unsaid, Untouched
  <1>2. Terminate(c) = IF c.state = "closed" THEN e ELSE HandleTerminate(f, c.state)
    BY DEF Terminate
  <1> HIDE DEF e
  <1>3. f = [e EXCEPT !.armed = e.armed \ {ShutTimer}]
    <2>1. f = [[e EXCEPT !.armed = e.armed \cup {ShutTimer}] EXCEPT
                 !.armed = [e EXCEPT !.armed = e.armed \cup {ShutTimer}].armed \ {ShutTimer}]
      BY DEF AsyncShutdown, SetTimer, CancelTimer
    <2>2. (e.armed \cup {ShutTimer}) \ {ShutTimer} = e.armed \ {ShutTimer}
      OBVIOUS
    <2> QED BY <1>1, <2>1, <2>2 DEF Conns
  <1>4. /\ f \in Conns /\ f.state = "closed" /\ f.armed \subseteq c.armed /\ f.told = c.told
        /\ f.istate = c.istate /\ Unsaid(c, f)
    <2> DEFINE A == e.armed \ {ShutTimer}
    <2>1. A \subseteq e.armed /\ A \in SUBSET Timers
      BY <1>1 DEF Conns
    <2> HIDE DEF A, f
    <2>2. f = [e EXCEPT !.armed = A]
      BY <1>3 DEF A
    <2>3. /\ f \in Conns /\ f.armed = A /\ f.state = e.state /\ f.told = e.told
          /\ f.istate = e.istate /\ Unsaid(e, f)
      BY <1>1, <2>1, <2>2 DEF Conns, Unsaid, Untouched
    <2>4. Unsaid(c, f)
      BY <1>1, <2>3 DEF Unsaid, Untouched
    <2> QED BY <1>1, <2>1, <2>3, <2>4
  <1> HIDE DEF f
  <1>5. CASE c.state = "closed"
    BY <1>1, <1>2, <1>5
  <1>6. ASSUME NEW w \in Says4, Terminate(c) = Says(f, w)
        PROVE  /\ Terminate(c) \in Conns
               /\ Terminate(c).state = "closed" /\ Terminate(c).istate = c.istate
               /\ Terminate(c).armed \subseteq c.armed
               /\ Terminate(c).told = Append(c.told, w)
               /\ Unsaid(c, Terminate(c))
    <2>1. /\ Says(f, w) \in Conns /\ Says(f, w).told = Append(f.told, w)
          /\ Says(f, w).state = f.state /\ Says(f, w).istate = f.istate
          /\ Says(f, w).armed = f.armed /\ Unsaid(f, Says(f, w))
      BY <1>4, SaysIs
    <2>2. Unsaid(c, Says(f, w))
      BY <1>4, <2>1 DEF Unsaid, Untouched
    <2> QED BY <1>4, <1>6, <2>1, <2>2
  <1>7. CASE c.state = "connecting"
    <2>1. Terminate(c) = Says(f, "fail") /\ "fail" \in Says4
      BY <1>2, <1>7 DEF HandleTerminate, Says4
    <2> QED BY <2>1, <1>6, <1>7
  <1>8. CASE c.state \in {"open", "closing"}
    <2>1. Terminate(c) = Says(f, "close") /\ "close" \in Says4
      BY <1>2, <1>8 DEF HandleTerminate, Says4
    <2> QED BY <2>1, <1>6, <1>8
  <1>9. c.state \in {"connecting", "open", "closing", "closed"}
    BY DEF Conns
  <1> QED BY <1>5, <1>7, <1>8, <1>9

\* write_frame is posted: one handler more at the end of the list.
LEMMA PostIs ==
  ASSUME NEW c \in Conns
  PROVE  /\ Post(c, "write_frame") \in Conns
         /\ Post(c, "write_frame") = [c EXCEPT !.ready = Append(c.ready, Handler("write_frame", "ok", <<>>))]
         /\ Post(c, "write_frame").ready = Append(c.ready, Handler("write_frame", "ok", <<>>))
  <1> DEFINE a == Append(c.ready, Handler("write_frame", "ok", <<>>))
  <1>1. Handler("write_frame", "ok", <<>>) \in Handlers
    BY DEF Handler, Handlers, Names, Codes
  <1>2. a \in Seq(Handlers)
    BY <1>1, AppendProperties DEF Conns
  <1>3. Post(c, "write_frame") = [c EXCEPT !.ready = a]
    BY DEF Post
  <1> HIDE DEF a
  <1>4. [c EXCEPT !.ready = a] \in Conns /\ [c EXCEPT !.ready = a].ready = a
    BY <1>2 DEF Conns
  <1> QED BY <1>3, <1>4 DEF a

\* The list after a message is pushed.
Woken(c) == IF c.flag THEN c.ready ELSE Append(c.ready, Handler("write_frame", "ok", <<>>))

\* send and its like: the message is pushed, and write_frame posted unless a write is under way.
LEMMA PushAndPostIs ==
  ASSUME NEW c \in Conns, NEW m \in Texts
  PROVE  LET d == PushAndPost(c, m)
         IN  /\ d \in Conns
             /\ d.state = c.state /\ d.istate = c.istate /\ d.armed = c.armed /\ d.told = c.told
             /\ Untouched(c, d)
             /\ d.ready = Woken(c)
             /\ d.queue = Append(c.queue, m) /\ d.pushed = Append(c.pushed, m)
  <1> DEFINE a == Append(c.queue, m)
             b == Append(c.pushed, m)
             e == WritePush(c, m)
             d == PushAndPost(c, m)
  <1>1. a \in Seq(Texts) /\ b \in Seq(Texts)
    BY AppendProperties DEF Conns
  <1>2. e = [c EXCEPT !.queue = a, !.pushed = b]
    BY DEF WritePush
  <1>3. d = IF ~c.flag THEN Post(e, "write_frame") ELSE e
    BY DEF PushAndPost
  <1> HIDE DEF a, b, e, d
  <1>4. /\ e \in Conns /\ e.queue = a /\ e.pushed = b
        /\ e.state = c.state /\ e.istate = c.istate /\ e.armed = c.armed /\ e.told = c.told
        /\ Untouched(c, e) /\ e.ready = c.ready
    BY <1>1, <1>2 DEF Conns, Untouched
  <1>5. CASE c.flag
    <2>1. d = e /\ Woken(c) = c.ready
      BY <1>3, <1>5 DEF Woken
    <2> QED BY <1>4, <2>1 DEF a, b, d
  <1>6. CASE ~c.flag
    <2>1. d = Post(e, "write_frame") /\ Woken(c) = Append(c.ready, Handler("write_frame", "ok", <<>>))
      BY <1>3, <1>6 DEF Woken
    <2> DEFINE r == Append(c.ready, Handler("write_frame", "ok", <<>>))
    <2>2. d = [e EXCEPT !.ready = r] /\ d \in Conns /\ d.ready = r
      BY <1>4, <2>1, PostIs
    <2> HIDE DEF r
    <2>3. /\ d.queue = a /\ d.pushed = b
          /\ d.state = c.state /\ d.istate = c.istate /\ d.armed = c.armed /\ d.told = c.told
          /\ Untouched(c, d)
      BY <1>4, <2>2 DEF Conns, Untouched
    <2> QED BY <2>1, <2>2, <2>3 DEF a, b, d, r
  <1> QED BY <1>5, <1>6

-----------------------------------------------------------------------------
(***************************************************************************)
(* The conversation: what the user is told, what is pushed and written.    *)
(***************************************************************************)
ToldPart(c) ==
  /\ c.state = "connecting" => c.told = <<>>
  /\ c.state \in {"open", "closing"} =>
       /\ Len(c.told) > 0 /\ c.told[1] = "open"
       /\ \A i \in 2..Len(c.told) : c.told[i] = "message"
  /\ c.state = "closed" =>
       \/ Len(c.told) = 1 /\ c.told[1] = "fail"
       \/ /\ Len(c.told) > 1 /\ c.told[1] = "open" /\ c.told[Len(c.told)] = "close"
          /\ \A i \in 2..Len(c.told) - 1 : c.told[i] = "message"
  /\ c.istate = "PROCESS_CONNECTION" => c.state # "connecting"

OrderPart(c) == c.state # "closed" => c.pushed = c.written \o c.current \o c.queue

WakePart(c, where) ==
  c.state # "closed" /\ c.queue # <<>> =>
    \/ c.flag \/ Some(c.ready, {}, {"write_frame"}) \/ \E s \in Senders : where[s] = "posting"

Late(q, where, j) ==
  /\ q[j].kind = "data" /\ q[j].by \in Senders /\ where[q[j].by] # "checked"
  /\ \A k \in 1..Len(q) : j < k => q[k].by # q[j].by

ClosePart(c, where) ==
  /\ \A i \in 1..Len(c.pushed) :
       c.pushed[i].kind = "close" => c.state \in {"closing", "closed"}
  /\ \A i, j \in 1..Len(c.pushed) :
       i < j /\ c.pushed[i].kind = "close" =>
         c.pushed[j].kind = "close" \/ Late(c.pushed, where, j)

Sound(c, where) ==
  ToldPart(c) /\ OrderPart(c) /\ WakePart(c, where) /\ ClosePart(c, where)

\* Nothing is started or answered meanwhile, and no timer of connecting begins.
Calm(c, d) ==
  /\ d \in Conns
  /\ Untouched(c, d)
  /\ \A X : "write_frame" \notin X =>
       \A P : /\ Some(d.ready, P, X) <=> Some(c.ready, P, X)
              /\ Single(c.ready, P, X) => Single(d.ready, P, X)
  /\ \A P : Some(c.ready, P, {"write_frame"}) => Some(d.ready, P, {"write_frame"})
  /\ \A t \in {DnsTimer, ConTimer} : t \in d.armed => t \in c.armed
  /\ c.state = "closed" => d.state = "closed"
  /\ c.state # "connecting" => d.state # "connecting"

\* One calm step after another is calm.
LEMMA CalmTransitive ==
  ASSUME NEW a, NEW b, NEW c, Calm(a, b), Calm(b, c)
  PROVE  Calm(a, c)
  <1>1. \A X : "write_frame" \notin X =>
          \A P : /\ Some(c.ready, P, X) <=> Some(a.ready, P, X)
                 /\ Single(a.ready, P, X) => Single(c.ready, P, X)
    BY DEF Calm
  <1>2. \A P : Some(a.ready, P, {"write_frame"}) => Some(c.ready, P, {"write_frame"})
    BY DEF Calm
  <1>3. Untouched(a, c)
    BY DEF Calm, Untouched
  <1> QED BY <1>1, <1>2, <1>3 DEF Calm

\* To do nothing is calm.
LEMMA CalmReflexive ==
  ASSUME NEW c \in Conns
  PROVE  Calm(c, c)
  BY DEF Calm, Untouched

\* What starts nothing, answers nothing and pushes nothing is calm.
LEMMA UnsaidIsCalm ==
  ASSUME NEW c, NEW d \in Conns, Unsaid(c, d), d.armed \subseteq c.armed,
         c.state = "closed" => d.state = "closed",
         c.state # "connecting" => d.state # "connecting"
  PROVE  Calm(c, d)
  BY DEF Calm, Unsaid

\* The end of the connection leaves the conversation in order (terminate).
LEMMA EndSound ==
  ASSUME NEW c \in Conns, NEW where, ToldPart(c), ClosePart(c, where)
  PROVE  Calm(c, Terminate(c)) /\ Sound(Terminate(c), where)
  <1> DEFINE d == Terminate(c)
  <1>1. /\ d \in Conns /\ d.state = "closed" /\ d.istate = c.istate /\ d.armed \subseteq c.armed
        /\ c.state = "closed" => d.told = c.told
        /\ c.state = "connecting" => d.told = Append(c.told, "fail")
        /\ c.state \in {"open", "closing"} => d.told = Append(c.told, "close")
        /\ Unsaid(c, d)
    BY TerminateIs
  <1> HIDE DEF d
  <1>2. Calm(c, d)
    BY <1>1, UnsaidIsCalm
  <1>3. ToldPart(d)
    <2>1. CASE c.state = "closed"
      BY <1>1, <2>1 DEF ToldPart
    <2>2. CASE c.state = "connecting"
      <3>1. d.told = <<"fail">>
        BY <1>1, <2>2 DEF ToldPart
      <3> QED BY <1>1, <3>1 DEF ToldPart
    <2>3. CASE c.state \in {"open", "closing"}
      <3> DEFINE t == c.told
                 u == Append(t, "close")
      <3>1. t \in Seq(Says4) /\ "close" \in Says4
        BY DEF Conns, Says4
      <3>2. /\ Len(t) > 0 /\ t[1] = "open" /\ \A i \in 2..Len(t) : t[i] = "message"
        BY <2>3 DEF ToldPart
      <3>3. /\ Len(t) \in Nat /\ Len(u) = Len(t) + 1 /\ u[Len(u)] = "close"
            /\ \A i \in 1..Len(t) : u[i] = t[i]
        BY <3>1, AppendProperties, LenProperties
      <3>4. d.told = u
        BY <1>1, <2>3
      <3> HIDE DEF t, u
      <3>5. Len(u) > 1 /\ u[1] = "open" /\ \A i \in 2..Len(u) - 1 : u[i] = "message"
        BY <3>2, <3>3
      <3> QED BY <1>1, <3>3, <3>4, <3>5 DEF ToldPart
    <2> QED BY <2>1, <2>2, <2>3 DEF Conns
  <1>4. OrderPart(d) /\ WakePart(d, where)
    BY <1>1 DEF OrderPart, WakePart
  <1>5. ClosePart(d, where)
    BY <1>1 DEF ClosePart, Unsaid, Late
  <1> QED BY <1>2, <1>3, <1>4, <1>5 DEF Sound, d

\* A message of the peer is given to the user.
LEMMA MessageSound ==
  ASSUME NEW c \in Conns, NEW where, Sound(c, where), c.state = "open"
  PROVE  Calm(c, Says(c, "message")) /\ Sound(Says(c, "message"), where)
         /\ Says(c, "message").state = "open"
  <1> DEFINE d == Says(c, "message")
  <1>0. "message" \in Says4
    BY DEF Says4
  <1>1. /\ d \in Conns /\ d.told = Append(c.told, "message")
        /\ d.state = c.state /\ d.istate = c.istate /\ d.armed = c.armed /\ Unsaid(c, d)
    BY <1>0, SaysIs
  <1> HIDE DEF d
  <1>2. Calm(c, d)
    BY <1>1, UnsaidIsCalm
  <1>3. ToldPart(d)
    <2> DEFINE t == c.told
               u == Append(t, "message")
    <2>1. t \in Seq(Says4)
      BY DEF Conns
    <2>2. /\ Len(t) > 0 /\ t[1] = "open" /\ \A i \in 2..Len(t) : t[i] = "message"
      BY DEF ToldPart, Sound
    <2>3. /\ Len(t) \in Nat /\ Len(u) = Len(t) + 1 /\ u[Len(u)] = "message"
          /\ \A i \in 1..Len(t) : u[i] = t[i]
      BY <1>0, <2>1, AppendProperties, LenProperties
    <2>4. d.told = u
      BY <1>1
    <2> HIDE DEF t, u
    <2>5. Len(u) > 0 /\ u[1] = "open" /\ \A i \in 2..Len(u) : u[i] = "message"
      BY <2>2, <2>3
    <2> QED BY <1>1, <2>4, <2>5 DEF ToldPart
  <1>4. OrderPart(d) /\ WakePart(d, where)
    BY <1>1 DEF OrderPart, WakePart, Unsaid, Untouched, Sound
  <1>5. ClosePart(d, where)
    BY <1>1 DEF ClosePart, Unsaid, Late, Sound
  <1> QED BY <1>1, <1>2, <1>3, <1>4, <1>5 DEF Sound, d

\* To append to the second of two sequences is to append to both.
AppendsToSecond(S) ==
  \A a, b \in Seq(S) : \A m \in S : Append(a \o b, m) = a \o Append(b, m)

\* It holds of every set of elements.
LEMMA AppendToConcat == \A S : AppendsToSecond(S)
  <1> SUFFICES ASSUME NEW S, NEW a \in Seq(S), NEW b \in Seq(S), NEW m \in S
               PROVE  Append(a \o b, m) = a \o Append(b, m)
    BY DEF AppendsToSecond
  <1>1. <<m>> \in Seq(S) /\ a \o b \in Seq(S)
    BY ConcatProperties
  <1>2. (a \o b) \o <<m>> = a \o (b \o <<m>>)
    BY <1>1, ConcatAssociative
  <1>3. Append(a \o b, m) = (a \o b) \o <<m>>
    BY <1>1, AppendIsConcat
  <1>4. Append(b, m) = b \o <<m>>
    BY AppendIsConcat
  <1> QED BY ONLY <1>2, <1>3, <1>4, Zenon

\* A message is pushed: anything while the connection is open, else a close frame.
LEMMA PushSound ==
  ASSUME NEW c \in Conns, NEW where, Sound(c, where), NEW m \in Texts, m.by = "io",
         \/ c.state = "open" /\ m.kind # "close"
         \/ c.state = "closing" /\ m.kind = "close"
  PROVE  Calm(c, PushAndPost(c, m)) /\ Sound(PushAndPost(c, m), where)
  <1> DEFINE d == PushAndPost(c, m)
             p == c.pushed
             q == Append(p, m)
             e == Handler("write_frame", "ok", <<>>)
  <1>1. /\ d \in Conns
        /\ d.state = c.state /\ d.istate = c.istate /\ d.armed = c.armed /\ d.told = c.told
        /\ Untouched(c, d)
        /\ d.ready = Woken(c)
        /\ d.queue = Append(c.queue, m) /\ d.pushed = q
    BY PushAndPostIs
  <1> HIDE DEF d
  <1>2. /\ p \in Seq(Texts) /\ c.queue \in Seq(Texts) /\ c.current \in Seq(Texts)
        /\ c.written \in Seq(Texts) /\ c.ready \in Seq(Handlers)
    BY DEF Conns
  <1>3. e.h = "write_frame"
    BY DEF Handler
  <1>4. Calm(c, d)
    <2>1. CASE c.flag
      BY <1>1, <2>1 DEF Calm, Woken
    <2>2. CASE ~c.flag
      <3>1. d.ready = Append(c.ready, e)
        BY <1>1, <2>2 DEF Woken
      <3> HIDE DEF e
      <3>2. ASSUME NEW X, "write_frame" \notin X, NEW P
            PROVE  /\ Some(d.ready, P, X) <=> Some(c.ready, P, X)
                   /\ Single(c.ready, P, X) => Single(d.ready, P, X)
        BY <1>2, <1>3, <3>1, <3>2, AppendedIs
      <3>3. \A P : Some(d.ready, P, {"write_frame"})
        BY <1>2, <1>3, <3>1, AppendedIs
      <3> QED BY <1>1, <3>2, <3>3 DEF Calm
    <2> QED BY <2>1, <2>2
  <1>5. ToldPart(d)
    BY <1>1 DEF ToldPart, Sound
  <1>6. OrderPart(d)
    <2>1. p = c.written \o c.current \o c.queue
      BY DEF OrderPart, Sound
    <2> DEFINE b == c.written \o c.current
    <2>2. b \in Seq(Texts)
      BY <1>2, ConcatProperties
    <2> HIDE DEF b
    <2>3. Append(b \o c.queue, m) = b \o Append(c.queue, m)
      <3>1. AppendsToSecond(Texts)
        BY AppendToConcat
      <3> QED BY <1>2, <2>2, <3>1 DEF AppendsToSecond
    <2>4. q = b \o Append(c.queue, m)
      BY <2>1, <2>3 DEF b
    <2> HIDE DEF q
    <2> QED BY <1>1, <2>4 DEF OrderPart, b, Untouched
  <1>7. WakePart(d, where)
    <2>1. CASE c.flag
      BY <1>1, <2>1 DEF WakePart, Untouched
    <2>2. CASE ~c.flag
      <3>1. d.ready = Append(c.ready, e)
        BY <1>1, <2>2 DEF Woken
      <3> HIDE DEF e
      <3>2. Some(d.ready, {}, {"write_frame"})
        BY <1>2, <1>3, <3>1, AppendedIs
      <3> QED BY <3>2 DEF WakePart
    <2> QED BY <2>1, <2>2
  <1>8. ClosePart(d, where)
    <2>1. /\ Len(p) \in Nat /\ Len(q) = Len(p) + 1 /\ q[Len(p) + 1] = m
          /\ \A i \in 1..Len(p) : q[i] = p[i]
      BY <1>2, AppendProperties, LenProperties
    <2>2. /\ \A i \in 1..Len(p) : p[i].kind = "close" => c.state \in {"closing", "closed"}
          /\ \A i, j \in 1..Len(p) :
               i < j /\ p[i].kind = "close" => p[j].kind = "close" \/ Late(p, where, j)
      BY DEF ClosePart, Sound
    <2> HIDE DEF p, q
    <2>3. \A i \in 1..Len(q) : i \in 1..Len(p) \/ i = Len(p) + 1
      BY <2>1
    <2>4. \A j \in 1..Len(p) : Late(p, where, j) => Late(q, where, j)
      <3> SUFFICES ASSUME NEW j \in 1..Len(p), Late(p, where, j) PROVE Late(q, where, j)
        OBVIOUS
      <3>1. m.by # p[j].by
        BY ConstAssumption DEF Late
      <3>2. \A k \in 1..Len(q) : j < k => q[k].by # p[j].by
        BY <2>1, <2>3, <3>1 DEF Late
      <3> QED BY <2>1, <3>2 DEF Late
    <2>5. \A i \in 1..Len(q) : q[i].kind = "close" => c.state \in {"closing", "closed"}
      BY <2>1, <2>2, <2>3
    <2>6. ASSUME NEW i \in 1..Len(q), NEW j \in 1..Len(q), i < j, q[i].kind = "close"
          PROVE  q[j].kind = "close" \/ Late(q, where, j)
      <3>1. i \in 1..Len(p)
        BY <2>1, <2>3, <2>6
      <3>2. c.state # "open"
        BY <2>1, <2>2, <2>6, <3>1
      <3>3. CASE j = Len(p) + 1
        BY <2>1, <3>2, <3>3
      <3>4. CASE j \in 1..Len(p)
        BY <2>1, <2>2, <2>4, <2>6, <3>1, <3>4
      <3> QED BY <2>3, <3>3, <3>4
    <2> QED BY <1>1, <2>5, <2>6 DEF ClosePart
  <1> QED BY <1>4, <1>5, <1>6, <1>7, <1>8 DEF Sound, d

\* A close frame: the state and its timer are set first.
LEMMA CloseSound ==
  ASSUME NEW c \in Conns, NEW where, Sound(c, where), c.state \in {"open", "closing"},
         NEW ack \in BOOLEAN, NEW terminal \in BOOLEAN
  PROVE  Calm(c, SendCloseFrame(c, ack, terminal)) /\ Sound(SendCloseFrame(c, ack, terminal), where)
  <1> DEFINE n == Cardinality({i \in 1..Len(c.pushed) : c.pushed[i].kind = "close"})
             t == <<"close", n>>
             d == [SetTimer(c, t) EXCEPT !.state = "closing", !.timer = t, !.clean = @ \/ ack]
             m == Message("close", "io", terminal)
  <1>1. n \in Nat
    <2> DEFINE S == {i \in 1..Len(c.pushed) : c.pushed[i].kind = "close"}
    <2>1. IsFiniteSet(1..Len(c.pushed)) /\ S \in SUBSET (1..Len(c.pushed))
      <3>1. Len(c.pushed) \in Nat
        BY LenProperties DEF Conns
      <3>2. 1 \in Int /\ Len(c.pushed) \in Int
        BY <3>1
      <3>3. IsFiniteSet(1..Len(c.pushed))
        BY <3>2, FS_Interval, Zenon
      <3>4. S \in SUBSET (1..Len(c.pushed))
        OBVIOUS
      <3> QED BY <3>3, <3>4
    <2> HIDE DEF S
    <2>2. IsFiniteSet(S)
      BY <2>1, FS_Subset
    <2>3. Cardinality(S) \in Nat
      BY <2>2, FS_CardinalityType
    <2> QED BY <2>3 DEF S
  <1>2. SendCloseFrame(c, ack, terminal) = PushAndPost(d, m)
    BY DEF SendCloseFrame
  <1> HIDE DEF n
  <1>3. t \in Timers /\ t \notin {DnsTimer, ConTimer}
    BY <1>1 DEF Timers, DnsTimer, ConTimer
  <1> HIDE DEF t
  <1>4. /\ d \in Conns /\ d.state = "closing" /\ d.armed = c.armed \cup {t} /\ d.told = c.told
        /\ d.istate = c.istate /\ Unsaid(c, d)
    <2> DEFINE k == c.clean \/ ack
    <2>1. k \in BOOLEAN
      OBVIOUS
    <2>2. d = [c EXCEPT !.armed = c.armed \cup {t}, !.state = "closing", !.timer = t, !.clean = k]
      BY DEF SetTimer, Conns
    <2> HIDE DEF k, d
    <2> QED BY <1>3, <2>1, <2>2 DEF Conns, Unsaid, Untouched
  <1> HIDE DEF d
  <1>5. Calm(c, d)
    BY <1>3, <1>4 DEF Calm, Unsaid
  <1>6. Sound(d, where)
    <2>1. ToldPart(d)
      BY <1>4 DEF Sound, ToldPart
    <2>2. OrderPart(d) /\ WakePart(d, where)
      BY <1>4 DEF Sound, OrderPart, WakePart, Unsaid, Untouched
    <2>3. ClosePart(d, where)
      <3>1. d.pushed = c.pushed
        BY <1>4 DEF Unsaid
      <3>2. \A i, j \in 1..Len(c.pushed) :
              i < j /\ c.pushed[i].kind = "close" =>
                c.pushed[j].kind = "close" \/ Late(c.pushed, where, j)
        BY DEF Sound, ClosePart
      <3> QED BY <1>4, <3>1, <3>2 DEF ClosePart
    <2> QED BY <2>1, <2>2, <2>3 DEF Sound
  <1>7. m \in Texts /\ m.by = "io" /\ m.kind = "close"
    BY DEF Message, Texts
  <1> HIDE DEF m
  <1>8. Calm(d, PushAndPost(d, m)) /\ Sound(PushAndPost(d, m), where)
    BY <1>4, <1>6, <1>7, PushSound
  <1> QED BY <1>2, <1>5, <1>8, CalmTransitive

-----------------------------------------------------------------------------
(***************************************************************************)
(* What comes from the peer.                                               *)
(***************************************************************************)
\* A ping, a close frame or one that must not be: order is kept (process_control_frame).
LEMMA ControlSound ==
  ASSUME NEW c \in Conns, NEW where, Sound(c, where), c.state # "connecting",
         NEW m \in {"ping", "close", "badclose"}
  PROVE  Calm(c, ProcessControlFrame(c, m)) /\ Sound(ProcessControlFrame(c, m), where)
  <1>0. c.state \in {"open", "closing", "closed"} /\ c \in Conns
    BY DEF Conns
  <1>1. CASE m = "ping" /\ c.state = "open"
    <2> DEFINE p == Message("pong", "io", FALSE)
    <2>1. ProcessControlFrame(c, m) = PushAndPost(c, p)
      BY <1>1 DEF ProcessControlFrame
    <2>2. p \in Texts /\ p.by = "io" /\ p.kind # "close"
      BY DEF Message, Texts
    <2> HIDE DEF p
    <2> QED BY <1>1, <2>1, <2>2, PushSound
  <1>2. CASE (m = "badclose" /\ c.state # "closed") \/ (m = "close" /\ c.state = "open")
    <2>1. ProcessControlFrame(c, m) = SendCloseFrame(c, TRUE, FALSE)
      BY <1>2 DEF ProcessControlFrame
    <2>2. c.state \in {"open", "closing"}
      BY <1>0, <1>2
    <2> QED BY <2>1, <2>2, CloseSound
  <1>3. CASE m = "close" /\ c.state = "closing"
    <2> DEFINE d == [c EXCEPT !.clean = TRUE]
    <2>1. ProcessControlFrame(c, m) = d
      BY <1>3 DEF ProcessControlFrame
    <2>2. /\ d \in Conns /\ d.state = c.state /\ d.armed = c.armed /\ d.told = c.told
          /\ d.istate = c.istate /\ Unsaid(c, d)
      BY DEF Conns, Unsaid, Untouched
    <2> HIDE DEF d
    <2>3. Calm(c, d)
      BY <2>2, UnsaidIsCalm
    <2>4. Sound(d, where)
      <3>1. ToldPart(d)
        BY <2>2 DEF Sound, ToldPart
      <3>2. OrderPart(d) /\ WakePart(d, where)
        BY <2>2 DEF Sound, OrderPart, WakePart, Unsaid, Untouched
      <3>3. ClosePart(d, where)
        BY <2>2 DEF Sound, ClosePart, Unsaid
      <3> QED BY <3>1, <3>2, <3>3 DEF Sound
    <2> QED BY <2>1, <2>3, <2>4
  <1>4. CASE /\ ~(m = "ping" /\ c.state = "open") /\ ~(m = "badclose" /\ c.state # "closed")
             /\ ~(m = "close" /\ c.state = "open") /\ ~(m = "close" /\ c.state = "closing")
    <2>1. ProcessControlFrame(c, m) = c
      BY <1>4 DEF ProcessControlFrame
    <2> QED BY <1>0, <2>1, CalmReflexive
  <1> QED BY <1>1, <1>2, <1>3, <1>4

\* A turn of the loop leaves it or goes on.
Turn(l, c) == [left |-> l, c |-> c]

\* Whatever one turn of handle_read_frame's loop reads, the conversation stays in order.
LEMMA OneMessageSound ==
  ASSUME NEW l \in BOOLEAN, NEW c \in Conns, NEW where, Sound(c, where), c.state # "connecting",
         NEW m \in Kinds
  PROVE  \E k \in BOOLEAN, d \in Conns :
           /\ OneMessage(Turn(l, c), m) = Turn(k, d)
           /\ Calm(c, d) /\ Sound(d, where)
  <1> DEFINE s == Turn(l, c)
  <1>0. s = Turn(l, c) /\ s.left = l /\ s.c = c /\ \A d : [s EXCEPT !.c = d] = Turn(l, d)
    BY DEF Turn
  <1> HIDE DEF s
  <1>1. CASE l
    <2>1. OneMessage(s, m) = Turn(l, c)
      BY <1>0, <1>1 DEF OneMessage
    <2>2. Calm(c, c)
      BY CalmReflexive
    <2> QED BY <1>0, <2>1, <2>2
  <1>2. CASE ~l /\ m = "bad"
    <2> DEFINE d == IF c.state = "open" THEN SendCloseFrame(c, FALSE, TRUE) ELSE Terminate(c)
    <2>1. OneMessage(s, m) = Turn(TRUE, d)
      BY <1>0, <1>2 DEF OneMessage, Turn
    <2>2. Calm(c, d) /\ Sound(d, where)
      BY CloseSound, EndSound DEF Sound
    <2>3. d \in Conns
      BY <2>2 DEF Calm
    <2> QED BY <1>0, <2>1, <2>2, <2>3
  <1>3. CASE ~l /\ m = "data" /\ c.state = "open"
    <2> DEFINE d == Says(c, "message")
    <2> DEFINE x == IF m = "ask" THEN SendHere(Says(s.c, "message")) ELSE Says(s.c, "message")
    <2>9. OneMessage(s, m) = [s EXCEPT !.c = x]
      BY <1>0, <1>3 DEF OneMessage
    <2>8. x = d
      BY <1>0, <1>3
    <2> HIDE DEF x, d
    <2>0. OneMessage(s, m) = [s EXCEPT !.c = d]
      BY <2>8, <2>9
    <2>1. OneMessage(s, m) = Turn(l, d)
      BY <1>0, <2>0
    <2>2. Calm(c, d) /\ Sound(d, where)
      BY <1>3, MessageSound DEF d
    <2>3. d \in Conns
      BY <2>2 DEF Calm
    <2> QED BY <1>0, <2>1, <2>2, <2>3
  <1>4. CASE ~l /\ m = "ask" /\ c.state = "open"
    <2> DEFINE e == Says(c, "message")
               p == Message("data", "io", FALSE)
               d == PushAndPost(e, p)
    <2>1. Calm(c, e) /\ Sound(e, where) /\ e.state = "open" /\ e \in Conns
      BY <1>4, MessageSound DEF Calm
    <2> DEFINE x == IF m = "ask" THEN SendHere(Says(s.c, "message")) ELSE Says(s.c, "message")
    <2>9. OneMessage(s, m) = [s EXCEPT !.c = x]
      BY <1>0, <1>4 DEF OneMessage
    <2>8. x = SendHere(e)
      BY <1>0, <1>4
    <2> HIDE DEF x
    <2>0. OneMessage(s, m) = [s EXCEPT !.c = SendHere(e)]
      BY <2>8, <2>9
    <2>2. OneMessage(s, m) = Turn(l, SendHere(e))
      BY <1>0, <2>0
    <2> HIDE DEF e
    <2>3. SendHere(e) = d
      BY <2>1 DEF SendHere
    <2>4. p \in Texts /\ p.by = "io" /\ p.kind # "close"
      BY DEF Message, Texts
    <2> HIDE DEF p
    <2>5. Calm(e, d) /\ Sound(d, where)
      BY <2>1, <2>4, PushSound
    <2>6. d \in Conns
      BY <2>5 DEF Calm
    <2> QED BY <1>0, <2>1, <2>2, <2>3, <2>5, <2>6, CalmTransitive
  <1>5. CASE ~l /\ m \in {"data", "ask"} /\ c.state # "open"
    <2>1. OneMessage(s, m) = Turn(l, c)
      BY <1>0, <1>5 DEF OneMessage
    <2>2. Calm(c, c)
      BY CalmReflexive
    <2> QED BY <1>0, <2>1, <2>2
  <1>6. CASE ~l /\ m \in {"ping", "close", "badclose"}
    <2> DEFINE d == ProcessControlFrame(c, m)
    <2> DEFINE x == ProcessControlFrame(s.c, m)
    <2>9. OneMessage(s, m) = [s EXCEPT !.c = x]
      BY <1>0, <1>6 DEF OneMessage
    <2>8. x = d
      BY <1>0, <1>6
    <2> HIDE DEF x, d
    <2>0. OneMessage(s, m) = [s EXCEPT !.c = d]
      BY <2>8, <2>9
    <2>1. OneMessage(s, m) = Turn(l, d)
      BY <1>0, <2>0
    <2>2. Calm(c, d) /\ Sound(d, where)
      BY <1>6, ControlSound DEF d
    <2>3. d \in Conns
      BY <2>2 DEF Calm
    <2> QED BY <1>0, <2>1, <2>2, <2>3
  <1> QED BY <1>1, <1>2, <1>3, <1>4, <1>5, <1>6 DEF Kinds, s

\* After the loop the next read is started, unless it was left.
AfterTurns(s) == IF s.left THEN s.c ELSE StartOp(s.c, "read", "handle_read_frame")

\* The loop over a batch of none, one or two messages, turn by turn.
LEMMA ReadFramesIs ==
  ASSUME NEW c
  PROVE  /\ ReadFrames(c, <<>>) = AfterTurns(Turn(FALSE, c))
         /\ \A m : ReadFrames(c, <<m>>) = AfterTurns(OneMessage(Turn(FALSE, c), m))
         /\ \A m, n : ReadFrames(c, <<m, n>>)
                        = AfterTurns(OneMessage(OneMessage(Turn(FALSE, c), m), n))
  <1> DEFINE Rec(q, f) ==
               f = [i \in 0..Len(q) |-> IF i = 0 THEN [left |-> FALSE, c |-> c]
                                                 ELSE OneMessage(f[i - 1], q[i])]
             turn(q) == CHOOSE f : Rec(q, f)
  <1>1. \A q : ReadFrames(c, q) = AfterTurns(turn(q)[Len(q)])
    BY DEF ReadFrames, AfterTurns
  <1> HIDE DEF turn
  <1> DEFINE t0 == Turn(FALSE, c)
  <1>2. ASSUME NEW q, \E g : Rec(q, g)
        PROVE  \E f : /\ f = turn(q)
                      /\ f = [i \in 0..Len(q) |-> IF i = 0 THEN t0 ELSE OneMessage(f[i - 1], q[i])]
    <2>1. Rec(q, turn(q))
      BY <1>2 DEF turn
    <2> QED BY <2>1 DEF Turn
  <1>3. turn(<<>>)[Len(<<>>)] = t0
    <2> DEFINE g == [i \in 0..0 |-> t0]
    <2>1. Len(<<>>) = 0
      OBVIOUS
    <2>2. Rec(<<>>, g)
      BY <2>1 DEF Turn
    <2> HIDE DEF g, t0, Rec
    <2>3. PICK f : /\ f = turn(<<>>)
                   /\ f = [i \in 0..Len(<<>>) |-> IF i = 0 THEN t0 ELSE OneMessage(f[i - 1], <<>>[i])]
      BY <1>2, <2>2
    <2>4. f[0] = t0
      BY <2>1, <2>3
    <2> QED BY <2>1, <2>3, <2>4
  <1>4. ASSUME NEW m PROVE turn(<<m>>)[Len(<<m>>)] = OneMessage(t0, m)
    <2> DEFINE q == <<m>>
               t1 == OneMessage(t0, m)
               g == [i \in 0..1 |-> IF i = 0 THEN t0 ELSE t1]
    <2>1. Len(q) = 1 /\ q[1] = m
      OBVIOUS
    <2> HIDE DEF q
    <2>2. Rec(q, g)
      BY <2>1 DEF Turn
    <2> HIDE DEF g, t0, Rec
    <2>3. PICK f : /\ f = turn(q)
                   /\ f = [i \in 0..Len(q) |-> IF i = 0 THEN t0 ELSE OneMessage(f[i - 1], q[i])]
      BY <1>2, <2>2
    <2>4. f[0] = t0 /\ f[1] = OneMessage(f[0], m)
      BY <2>1, <2>3
    <2> QED BY <2>1, <2>3, <2>4 DEF q
  <1>5. ASSUME NEW m, NEW n PROVE turn(<<m, n>>)[Len(<<m, n>>)] = OneMessage(OneMessage(t0, m), n)
    <2> DEFINE q == <<m, n>>
               t1 == OneMessage(t0, m)
               t2 == OneMessage(t1, n)
               g == [i \in 0..2 |-> IF i = 0 THEN t0 ELSE IF i = 1 THEN t1 ELSE t2]
    <2>1. Len(q) = 2 /\ q[1] = m /\ q[2] = n
      OBVIOUS
    <2> HIDE DEF q
    <2>2. Rec(q, g)
      BY <2>1 DEF Turn
    <2> HIDE DEF g, t0, Rec
    <2>3. PICK f : /\ f = turn(q)
                   /\ f = [i \in 0..Len(q) |-> IF i = 0 THEN t0 ELSE OneMessage(f[i - 1], q[i])]
      BY <1>2, <2>2
    <2>4. f[0] = t0 /\ f[1] = OneMessage(f[0], m) /\ f[2] = OneMessage(f[1], n)
      BY <2>1, <2>3
    <2> QED BY <2>1, <2>3, <2>4 DEF q
  <1> HIDE DEF t0
  <1> QED BY <1>1, <1>3, <1>4, <1>5 DEF t0

\* The loop: what it does to the connection, and the read after it.
LEMMA ReadFramesSound ==
  ASSUME NEW c \in Conns, NEW where, Sound(c, where), c.state # "connecting",
         NEW msgs \in Batches
  PROVE  \E d \in Conns :
           /\ Calm(c, d) /\ Sound(d, where)
           /\ ReadFrames(c, msgs) \in {d, StartOp(d, "read", "handle_read_frame")}
  <1> DEFINE Good(s) == \E k \in BOOLEAN, d \in Conns :
                          s = Turn(k, d) /\ Calm(c, d) /\ Sound(d, where)
  <1>1. Good(Turn(FALSE, c))
    BY CalmReflexive
  <1>2. ASSUME NEW s, Good(s), NEW m \in Kinds PROVE Good(OneMessage(s, m))
    <2>1. PICK k \in BOOLEAN, d \in Conns : s = Turn(k, d) /\ Calm(c, d) /\ Sound(d, where)
      BY <1>2
    <2>2. d.state # "connecting"
      BY <2>1 DEF Calm
    <2>3. PICK l \in BOOLEAN, e \in Conns :
            OneMessage(s, m) = Turn(l, e) /\ Calm(d, e) /\ Sound(e, where)
      BY <2>1, <2>2, OneMessageSound
    <2>4. Calm(c, e)
      BY <2>1, <2>3, CalmTransitive
    <2> QED BY <2>3, <2>4
  <1>3. ASSUME NEW s, Good(s), ReadFrames(c, msgs) = AfterTurns(s)
        PROVE  \E d \in Conns :
                 /\ Calm(c, d) /\ Sound(d, where)
                 /\ ReadFrames(c, msgs) \in {d, StartOp(d, "read", "handle_read_frame")}
    <2>1. PICK k \in BOOLEAN, d \in Conns : s = Turn(k, d) /\ Calm(c, d) /\ Sound(d, where)
      BY <1>3
    <2>2. AfterTurns(s) \in {d, StartOp(d, "read", "handle_read_frame")}
      BY <2>1 DEF AfterTurns, Turn
    <2> QED BY <1>3, <2>1, <2>2
  <1> HIDE DEF Good
  <1>4. CASE msgs = <<>>
    BY <1>1, <1>3, <1>4, ReadFramesIs
  <1>5. CASE \E m \in Kinds : msgs = <<m>>
    <2>1. PICK m \in Kinds : msgs = <<m>>
      BY <1>5
    <2>2. ReadFrames(c, msgs) = AfterTurns(OneMessage(Turn(FALSE, c), m))
      BY <2>1, ReadFramesIs
    <2> QED BY <1>1, <1>2, <1>3, <2>2
  <1>6. CASE \E m \in Kinds : msgs = <<"close", m>>
    <2>1. PICK m \in Kinds : msgs = <<"close", m>>
      BY <1>6
    <2>2. ReadFrames(c, msgs) = AfterTurns(OneMessage(OneMessage(Turn(FALSE, c), "close"), m))
      BY <2>1, ReadFramesIs
    <2>3. "close" \in Kinds
      BY DEF Kinds
    <2> QED BY <1>1, <1>2, <1>3, <2>2, <2>3
  <1> QED BY <1>4, <1>5, <1>6 DEF Batches

-----------------------------------------------------------------------------
(***************************************************************************)
(* The way to an answer, and the way of what is written.                   *)
(***************************************************************************)
\* The timer waits, or its handler is to be run.
Live(c, which) == <<which, 0>> \in c.armed \/ Some(c.ready, {}, {which})

\* A timer fires once, when its time has come.
Fired(c, late, which) ==
  /\ Single(c.ready, {}, {which})
  /\ Some(c.ready, {}, {which}) => <<which, 0>> \in late /\ <<which, 0>> \notin c.armed

StagePart(c, late) ==
  /\ Single(c.ready, c.pending, Chain)
  /\ Fired(c, late, "dns") /\ Fired(c, late, "con")
  /\ Len(c.answers) <= 1
  /\ Live(c, "dns") =>
       c.answers = <<>> /\ ~Live(c, "con") /\ ~Some(c.ready, c.pending, {"handle_connect"})
  /\ Live(c, "con") =>
       /\ c.answers = <<>> /\ ~Live(c, "dns")
       /\ Some(c.ready, c.pending, {"handle_resolve"}) => <<"dns", 0>> \in late
  /\ Some(c.ready, c.pending, {"handle_resolve"}) =>
       <<"dns", 0>> \in late \/ (c.answers = <<>> /\ ~Live(c, "con"))
  /\ Some(c.ready, c.pending, {"handle_connect"}) =>
       <<"con", 0>> \in late \/ (c.answers = <<>> /\ ~Live(c, "dns"))

OneWrite(c) ==
  /\ Single(c.ready, c.pending, Writing)
  /\ Some(c.ready, c.pending, Writing) => c.flag /\ c.current # <<>>
  /\ ~Some(c.ready, c.pending, Writing) => c.current = <<>>

WritePart(c) ==
  OneWrite(c) /\ (c.flag /\ c.state # "closed" => Some(c.ready, c.pending, Writing))

Whole(c, late, where) ==
  /\ c \in Conns /\ IsFiniteSet(c.pending)
  /\ StagePart(c, late) /\ WritePart(c) /\ Sound(c, where)

\* Fewer handlers and timers of connecting change nothing.
LEMMA StageKept ==
  ASSUME NEW c, NEW d, NEW late, StagePart(c, late),
         Single(d.ready, d.pending, Chain), d.answers = c.answers,
         \A n \in {"dns", "con"} :
           /\ Single(d.ready, {}, {n}) /\ (Some(d.ready, {}, {n}) => Some(c.ready, {}, {n}))
           /\ <<n, 0>> \in d.armed => <<n, 0>> \in c.armed,
         \A h \in {"handle_resolve", "handle_connect"} :
           Some(d.ready, d.pending, {h}) => Some(c.ready, c.pending, {h})
  PROVE  StagePart(d, late)
  <1>1. Fired(d, late, "dns") /\ Fired(d, late, "con")
    BY DEF StagePart, Fired
  <1>2. (Live(d, "dns") => Live(c, "dns")) /\ (Live(d, "con") => Live(c, "con"))
    BY DEF Live
  <1> QED BY <1>1, <1>2 DEF StagePart

\* What is calm and leaves the conversation in order keeps the whole invariant.
LEMMA WholeCalm ==
  ASSUME NEW c, NEW d, NEW late, NEW where,
         c \in Conns, IsFiniteSet(c.pending), StagePart(c, late), OneWrite(c),
         c.flag /\ d.state # "closed" => Some(c.ready, c.pending, Writing),
         Calm(c, d), Sound(d, where)
  PROVE  Whole(d, late, where)
  <1>1. /\ d \in Conns /\ Untouched(c, d) /\ d.pending = c.pending
        /\ \A t \in {DnsTimer, ConTimer} : t \in d.armed => t \in c.armed
        /\ c.state = "closed" => d.state = "closed"
    BY DEF Calm, Untouched
  <1>2. \A X : "write_frame" \notin X =>
          \A P : /\ Some(d.ready, P, X) <=> Some(c.ready, P, X)
                 /\ Single(c.ready, P, X) => Single(d.ready, P, X)
    BY DEF Calm
  <1>3. "write_frame" \notin Chain /\ "write_frame" \notin Writing
    BY DEF Chain, Writing
  <1>4. StagePart(d, late)
    <2>1. Single(d.ready, d.pending, Chain) /\ d.answers = c.answers
      BY <1>1, <1>2, <1>3 DEF StagePart, Untouched
    <2>2. \A n \in {"dns", "con"} :
            /\ Single(d.ready, {}, {n}) /\ (Some(d.ready, {}, {n}) => Some(c.ready, {}, {n}))
            /\ <<n, 0>> \in d.armed => <<n, 0>> \in c.armed
      BY <1>1, <1>2 DEF StagePart, Fired, DnsTimer, ConTimer
    <2>3. \A h \in {"handle_resolve", "handle_connect"} :
            Some(d.ready, d.pending, {h}) => Some(c.ready, c.pending, {h})
      BY <1>1, <1>2
    <2> QED BY <2>1, <2>2, <2>3, StageKept
  <1>5. WritePart(d)
    <2>1. /\ Some(d.ready, d.pending, Writing) <=> Some(c.ready, c.pending, Writing)
          /\ Single(c.ready, c.pending, Writing) => Single(d.ready, d.pending, Writing)
      BY <1>1, <1>2, <1>3
    <2> QED BY <1>1, <2>1 DEF OneWrite, WritePart, Untouched
  <1> QED BY <1>1, <1>4, <1>5 DEF Whole

\* What the conversation is made of stays.
LEMMA SoundKept ==
  ASSUME NEW c, NEW d, NEW where, Sound(c, where), Unsaid(c, d),
         d.state = c.state, d.told = c.told,
         d.istate = c.istate \/ d.istate # "PROCESS_CONNECTION"
  PROVE  Sound(d, where)
  <1>1. ToldPart(d)
    BY DEF Sound, ToldPart
  <1>2. OrderPart(d)
    BY DEF Sound, OrderPart, Unsaid, Untouched
  <1>3. WakePart(d, where)
    BY DEF Sound, WakePart, Unsaid, Untouched
  <1>4. ClosePart(d, where)
    BY DEF Sound, ClosePart, Unsaid
  <1> QED BY <1>1, <1>2, <1>3, <1>4 DEF Sound

\* The end of the connection keeps it, even while a write's handler has not reset m_write_flag.
LEMMA EndWhole ==
  ASSUME NEW c \in Conns, NEW late, NEW where, IsFiniteSet(c.pending), StagePart(c, late),
         OneWrite(c), ToldPart(c), ClosePart(c, where)
  PROVE  Whole(Terminate(c), late, where)
  <1>1. Calm(c, Terminate(c)) /\ Sound(Terminate(c), where)
    BY EndSound
  <1>2. Terminate(c).state = "closed"
    BY TerminateIs
  <1> QED BY <1>1, <1>2, WholeCalm

\* A step of the chain other than connecting starts.
LEMMA ChainStarts ==
  ASSUME NEW c, NEW late, NEW where, Whole(c, late, where),
         ~Some(c.ready, c.pending, Chain), NEW op, NEW h, [op |-> op, h |-> h] \in Ops,
         h \in {"handle_send_http_request", "handle_read_http_response", "handle_read_frame"}
  PROVE  Whole(StartOp(c, op, h), late, where)
  <1> DEFINE o == [op |-> op, h |-> h]
             P == c.pending \cup {o}
             d == StartOp(c, op, h)
  <1>0. o \in Ops /\ o.h = h
    OBVIOUS
  <1>1. d = [c EXCEPT !.pending = P]
    BY DEF StartOp
  <1> HIDE DEF o
  <1>2. c \in Conns /\ P \in SUBSET Ops
    BY <1>0 DEF Whole, Conns
  <1> HIDE DEF P, d
  <1>3. /\ d \in Conns /\ d.pending = P /\ d.ready = c.ready /\ d.armed = c.armed
        /\ d.answers = c.answers /\ d.flag = c.flag /\ d.current = c.current /\ d.state = c.state
        /\ d.istate = c.istate /\ d.told = c.told
        /\ d.queue = c.queue /\ d.pushed = c.pushed /\ d.written = c.written
    BY <1>1, <1>2 DEF Conns
  <1>4. IsFiniteSet(P)
    BY FS_AddElement DEF Whole, P
  <1>5. h \in Chain /\ h \notin Writing /\ h \notin {"handle_resolve", "handle_connect"}
    BY DEF Chain, Writing
  <1>6. StagePart(d, late)
    <2>1. Single(d.ready, d.pending, Chain)
      <3>1. Single(c.ready, c.pending \cup {o}, Chain)
        BY StartedIs
      <3> QED BY <1>3, <3>1 DEF P
    <2>2. \A n \in {"dns", "con"} :
            /\ Single(d.ready, {}, {n}) /\ (Some(d.ready, {}, {n}) => Some(c.ready, {}, {n}))
            /\ <<n, 0>> \in d.armed => <<n, 0>> \in c.armed
      BY <1>3 DEF Whole, StagePart, Fired
    <2>3. \A k \in {"handle_resolve", "handle_connect"} :
            Some(d.ready, d.pending, {k}) => Some(c.ready, c.pending, {k})
      <3> SUFFICES ASSUME NEW k \in {"handle_resolve", "handle_connect"}
                   PROVE  Some(d.ready, d.pending, {k}) => Some(c.ready, c.pending, {k})
        OBVIOUS
      <3>1. o.h \notin {k}
        BY <1>0, <1>5
      <3> QED BY <1>3, <3>1, StartedIs DEF P
    <2>4. StagePart(c, late)
      BY DEF Whole
    <2> QED BY <1>3, <2>1, <2>2, <2>3, <2>4, StageKept
  <1>7. WritePart(d)
    <2>1. /\ Some(d.ready, d.pending, Writing) <=> Some(c.ready, c.pending, Writing)
          /\ Single(c.ready, c.pending, Writing) => Single(d.ready, d.pending, Writing)
      BY <1>0, <1>3, <1>5, StartedIs DEF P
    <2> QED BY <1>3, <2>1 DEF Whole, OneWrite, WritePart
  <1>8. Sound(d, where)
    <2>0. Sound(c, where)
      BY DEF Whole
    <2>1. ToldPart(d)
      BY <1>3, <2>0 DEF Sound, ToldPart
    <2>2. OrderPart(d)
      BY <1>3, <2>0 DEF Sound, OrderPart
    <2>3. WakePart(d, where)
      BY <1>3, <2>0 DEF Sound, WakePart
    <2>4. ClosePart(d, where)
      BY <1>3, <2>0 DEF Sound, ClosePart
    <2> QED BY <2>1, <2>2, <2>3, <2>4 DEF Sound
  <1> QED BY <1>3, <1>4, <1>6, <1>7, <1>8 DEF Whole, d

-----------------------------------------------------------------------------
(***************************************************************************)
(* The io_service takes a handler.                                         *)
(***************************************************************************)
Took(b) == [b EXCEPT !.ready = Tail(b.ready)]

\* The io_service's list loses its first handler and nothing else changes.
LEMMA TookIs ==
  ASSUME NEW b \in Conns, b.ready # <<>>
  PROVE  /\ Took(b) \in Conns /\ Head(b.ready) \in Handlers
         /\ Took(b).ready = Tail(b.ready) /\ Took(b).armed = b.armed
         /\ Took(b).told = b.told /\ Took(b).queue = b.queue /\ Took(b).pushed = b.pushed
         /\ Took(b).state = b.state /\ Took(b).istate = b.istate
         /\ Untouched(b, Took(b))
  <1> DEFINE t == Tail(b.ready)
  <1>0. b.ready \in Seq(Handlers)
    BY DEF Conns
  <1>1. t \in Seq(Handlers) /\ Head(b.ready) \in Handlers
    <2> DEFINE r == b.ready
    <2>1. r \in Seq(Handlers) /\ r # <<>>
      BY <1>0
    <2> HIDE DEF r
    <2>2. Tail(r) \in Seq(Handlers) /\ Head(r) \in Handlers
      BY <2>1, HeadTailProperties
    <2> QED BY <2>2 DEF r
  <1> HIDE DEF t
  <1>2. Took(b) = [b EXCEPT !.ready = t]
    BY DEF Took, t
  <1>3. /\ Took(b) \in Conns /\ Took(b).ready = t /\ Took(b).armed = b.armed
        /\ Took(b).told = b.told /\ Took(b).queue = b.queue /\ Took(b).pushed = b.pushed
        /\ Took(b).state = b.state /\ Took(b).istate = b.istate
        /\ Untouched(b, Took(b))
    BY <1>1, <1>2 DEF Conns, Untouched
  <1> QED BY <1>1, <1>3 DEF t

\* The timers and the callback are as they must be for an answer.
Answerable(c, late) ==
  /\ c.answers = <<>> /\ ~Live(c, "dns") /\ ~Live(c, "con")
  /\ Some(c.ready, c.pending, {"handle_resolve"}) => <<"dns", 0>> \in late
  /\ Some(c.ready, c.pending, {"handle_connect"}) => <<"con", 0>> \in late

\* The first handler, e, has been taken, and c is left.
Taking(c, e, late, where) ==
  /\ e \in Handlers
  /\ c \in Conns /\ IsFiniteSet(c.pending) /\ StagePart(c, late)
  /\ ToldPart(c) /\ OrderPart(c) /\ ClosePart(c, where)
  /\ e.h # "write_frame" => Sound(c, where)
  /\ e.h \notin Writing => WritePart(c)
  /\ e.h \in Writing => c.flag /\ c.current # <<>> /\ ~Some(c.ready, c.pending, Writing)
  /\ e.h \in Chain => ~Some(c.ready, c.pending, Chain)
  /\ e.h \in {"dns", "con"} => Answerable(c, late)
  /\ e.h = "handle_resolve" /\ DnsTimer \notin late =>
       c.answers = <<>> /\ ~Live(c, "con") /\ ~Some(c.ready, {}, {"dns"})
  /\ e.h = "handle_connect" /\ ConTimer \notin late =>
       c.answers = <<>> /\ ~Live(c, "dns") /\ ~Some(c.ready, {}, {"con"})

\* What is known of the connection when a handler has been taken and not yet run.
LEMMA TookWhole ==
  ASSUME NEW b, NEW late, NEW where, Whole(b, late, where), b.ready # <<>>,
         NEW c, c = Took(b), NEW e, e = Head(b.ready)
  PROVE  Taking(c, e, late, where)
  <1> DEFINE h == e.h
  <1>1. /\ c \in Conns /\ c.ready = Tail(b.ready) /\ c.armed = b.armed
        /\ c.told = b.told /\ c.queue = b.queue /\ c.pushed = b.pushed
        /\ c.state = b.state /\ c.istate = b.istate
        /\ c.flag = b.flag /\ c.current = b.current /\ c.pending = b.pending
        /\ c.answers = b.answers /\ c.written = b.written
    <2>1. b \in Conns
      BY DEF Whole
    <2>2. Took(b) \in Conns /\ Untouched(b, Took(b))
      BY <2>1, TookIs
    <2>3. /\ Took(b).ready = Tail(b.ready) /\ Took(b).armed = b.armed
          /\ Took(b).told = b.told /\ Took(b).queue = b.queue /\ Took(b).pushed = b.pushed
          /\ Took(b).state = b.state /\ Took(b).istate = b.istate
      BY <2>1, TookIs
    <2> QED BY <2>2, <2>3 DEF Untouched
  <1>2. ASSUME NEW P, NEW X
        PROVE  /\ Some(c.ready, P, X) => Some(b.ready, P, X)
               /\ h \notin X => (Some(b.ready, P, X) <=> Some(c.ready, P, X))
               /\ Single(b.ready, P, X) => Single(c.ready, P, X)
               /\ Single(b.ready, P, X) /\ h \in X => ~Some(c.ready, P, X)
               /\ h \in X => Some(b.ready, P, X)
    <2>1. b.ready \in Seq(Handlers)
      BY DEF Whole, Conns
    <2>2. e.h = Head(b.ready).h
      OBVIOUS
    <2> QED BY <1>1, <2>1, <2>2, TakenIs
  <1>3. StagePart(b, late) /\ WritePart(b) /\ Sound(b, where) /\ IsFiniteSet(c.pending)
    BY <1>1 DEF Whole
  <1>4. StagePart(c, late)
    <2>1. Single(c.ready, c.pending, Chain)
      BY <1>1, <1>2, <1>3 DEF StagePart
    <2>2. \A n \in {"dns", "con"} :
            /\ Single(c.ready, {}, {n}) /\ (Some(c.ready, {}, {n}) => Some(b.ready, {}, {n}))
            /\ <<n, 0>> \in c.armed => <<n, 0>> \in b.armed
      BY <1>1, <1>2, <1>3 DEF StagePart, Fired
    <2>3. \A k \in {"handle_resolve", "handle_connect"} :
            Some(c.ready, c.pending, {k}) => Some(b.ready, b.pending, {k})
      BY <1>1, <1>2
    <2> QED BY <1>1, <1>3, <2>1, <2>2, <2>3, StageKept
  <1>5. ToldPart(c) /\ OrderPart(c)
    <2>1. ToldPart(c)
      BY <1>1, <1>3 DEF Sound, ToldPart
    <2>2. OrderPart(c)
      BY <1>1, <1>3 DEF Sound, OrderPart
    <2> QED BY <2>1, <2>2
  <1>6. ClosePart(c, where)
    BY <1>1, <1>3 DEF Sound, ClosePart
  <1>7. h # "write_frame" => Sound(c, where)
    <2>1. ASSUME h # "write_frame" PROVE WakePart(c, where)
      <3>1. Some(b.ready, {}, {"write_frame"}) <=> Some(c.ready, {}, {"write_frame"})
        BY <1>2, <2>1
      <3> QED BY <1>1, <1>3, <3>1 DEF Sound, WakePart
    <2> QED BY <1>5, <1>6, <2>1 DEF Sound
  <1>8. h \notin Writing => WritePart(c)
    BY <1>1, <1>2, <1>3 DEF OneWrite, WritePart
  <1>9. h \in Writing => c.flag /\ c.current # <<>> /\ ~Some(c.ready, c.pending, Writing)
    BY <1>1, <1>2, <1>3 DEF OneWrite, WritePart
  <1>10. h \in Chain => ~Some(c.ready, c.pending, Chain)
    BY <1>1, <1>2, <1>3 DEF StagePart
  <1>11. ASSUME h = "dns" PROVE Answerable(c, late)
    <2>1. Some(b.ready, {}, {"dns"}) /\ ~Some(c.ready, {}, {"dns"})
      BY <1>2, <1>3, <1>11 DEF StagePart, Fired
    <2>2. <<"dns", 0>> \in late /\ <<"dns", 0>> \notin b.armed
      BY <1>3, <2>1 DEF StagePart, Fired
    <2>3. Live(b, "dns")
      BY <2>1 DEF Live
    <2>4. b.answers = <<>> /\ ~Live(b, "con") /\ ~Some(b.ready, b.pending, {"handle_connect"})
      BY <1>3, <2>3 DEF StagePart
    <2>5. ~Live(c, "dns") /\ ~Live(c, "con") /\ ~Some(c.ready, c.pending, {"handle_connect"})
      BY <1>1, <1>2, <2>1, <2>2, <2>4 DEF Live
    <2> QED BY <1>1, <2>2, <2>4, <2>5 DEF Answerable
  <1>12. ASSUME h = "con" PROVE Answerable(c, late)
    <2>1. Some(b.ready, {}, {"con"}) /\ ~Some(c.ready, {}, {"con"})
      BY <1>2, <1>3, <1>12 DEF StagePart, Fired
    <2>2. <<"con", 0>> \in late /\ <<"con", 0>> \notin b.armed
      BY <1>3, <2>1 DEF StagePart, Fired
    <2>3. Live(b, "con")
      BY <2>1 DEF Live
    <2>4. /\ b.answers = <<>> /\ ~Live(b, "dns")
          /\ Some(b.ready, b.pending, {"handle_resolve"}) => <<"dns", 0>> \in late
      BY <1>3, <2>3 DEF StagePart
    <2>5. ~Live(c, "dns") /\ ~Live(c, "con")
      BY <1>1, <1>2, <2>1, <2>2, <2>4 DEF Live
    <2>6. Some(c.ready, c.pending, {"handle_resolve"}) => <<"dns", 0>> \in late
      BY <1>1, <1>2, <2>4
    <2> QED BY <1>1, <2>2, <2>4, <2>5, <2>6 DEF Answerable
  <1>13. ASSUME h = "handle_resolve", DnsTimer \notin late
         PROVE  c.answers = <<>> /\ ~Live(c, "con") /\ ~Some(c.ready, {}, {"dns"})
    <2>1. Some(b.ready, b.pending, {"handle_resolve"})
      BY <1>2, <1>13
    <2>2. <<"dns", 0>> \notin late
      BY <1>13 DEF DnsTimer
    <2>3. b.answers = <<>> /\ ~Live(b, "con") /\ ~Some(b.ready, {}, {"dns"})
      BY <1>3, <2>1, <2>2 DEF StagePart, Fired
    <2> QED BY <1>1, <1>2, <2>3 DEF Live
  <1>14. ASSUME h = "handle_connect", ConTimer \notin late
         PROVE  c.answers = <<>> /\ ~Live(c, "dns") /\ ~Some(c.ready, {}, {"con"})
    <2>1. Some(b.ready, b.pending, {"handle_connect"})
      BY <1>2, <1>14
    <2>2. <<"con", 0>> \notin late
      BY <1>14 DEF ConTimer
    <2>3. b.answers = <<>> /\ ~Live(b, "dns") /\ ~Some(b.ready, {}, {"con"})
      BY <1>3, <2>1, <2>2 DEF StagePart, Fired
    <2> QED BY <1>1, <1>2, <2>3 DEF Live
  <1>15. h \in {"dns", "con"} => Answerable(c, late)
    BY <1>11, <1>12
  <1>16. c \in Conns /\ IsFiniteSet(c.pending)
    BY <1>1, <1>3
  <1>17. e \in Handlers
    BY TookIs DEF Whole
  <1> QED BY <1>16, <1>17, <1>4, <1>5, <1>6, <1>7, <1>8, <1>9, <1>10, <1>13, <1>14, <1>15 DEF Taking

-----------------------------------------------------------------------------
(***************************************************************************)
(* The handlers of connecting.                                             *)
(***************************************************************************)
\* A wait that has been called off calls nobody: a cancelled timer.
LEMMA CancelKeeps ==
  ASSUME NEW c, NEW late, NEW where, Whole(c, late, where), NEW t
  PROVE  /\ Whole(CancelTimer(c, t), late, where)
         /\ CancelTimer(c, t).armed = c.armed \ {t}
         /\ CancelTimer(c, t).ready = c.ready /\ CancelTimer(c, t).pending = c.pending
         /\ CancelTimer(c, t).answers = c.answers
  <1> DEFINE A == c.armed \ {t}
             d == CancelTimer(c, t)
  <1>1. c \in Conns /\ A \in SUBSET Timers
    BY DEF Whole, Conns
  <1>2. d = [c EXCEPT !.armed = A]
    BY DEF CancelTimer
  <1>3. A \subseteq c.armed
    OBVIOUS
  <1> HIDE DEF A, d
  <1>4. /\ d \in Conns /\ d.armed = A /\ d.state = c.state /\ d.istate = c.istate /\ d.told = c.told
        /\ Unsaid(c, d)
    BY <1>1, <1>2 DEF Conns, Unsaid, Untouched
  <1>5. Calm(c, d)
    BY <1>3, <1>4, UnsaidIsCalm
  <1>6. Sound(d, where)
    BY <1>4, SoundKept DEF Whole
  <1>7. Whole(d, late, where)
    <2>1. c.flag /\ d.state # "closed" => Some(c.ready, c.pending, Writing)
      BY <1>4 DEF Whole, WritePart
    <2> QED BY <1>5, <1>6, <2>1, WholeCalm DEF Whole, WritePart
  <1> QED BY <1>4, <1>7 DEF A, d, Unsaid, Untouched

\* The request is sent: start, when it is the first.
LEMMA RequestWhole ==
  ASSUME NEW c, NEW late, NEW where, Whole(c, late, where), ~Some(c.ready, c.pending, Chain)
  PROVE  Whole(SendHttpRequest(TransportInit(c)), late, where)
  <1> DEFINE B == (c.armed \ {PostTimer}) \cup {OpenTimer}
             e == [c EXCEPT !.armed = B, !.timer = OpenTimer, !.istate = "WRITE_HTTP_REQUEST"]
             k == TransportInit(c)
             f == [SetTimer(k, OpenTimer) EXCEPT !.timer = OpenTimer, !.istate = "WRITE_HTTP_REQUEST"]
  <1>1. c \in Conns
    BY DEF Whole
  <1>2. k = [c EXCEPT !.armed = c.armed \ {PostTimer}]
    <2>1. k = [[c EXCEPT !.armed = c.armed \cup {PostTimer}] EXCEPT
                 !.armed = [c EXCEPT !.armed = c.armed \cup {PostTimer}].armed \ {PostTimer}]
      BY DEF TransportInit, SetTimer, CancelTimer
    <2>2. (c.armed \cup {PostTimer}) \ {PostTimer} = c.armed \ {PostTimer}
      OBVIOUS
    <2> QED BY <1>1, <2>1, <2>2 DEF Conns
  <1>3. f = e
    BY <1>1, <1>2 DEF SetTimer, Conns
  <1>4. SendHttpRequest(k) = StartOp(e, "write", "handle_send_http_request")
    BY <1>3 DEF SendHttpRequest
  <1>5. B \in SUBSET Timers /\ OpenTimer \in Timers \cup {None}
    BY <1>1 DEF Conns, Timers
  <1>6. \A t \in {DnsTimer, ConTimer} : t \in B => t \in c.armed
    BY DEF DnsTimer, ConTimer, OpenTimer
  <1> HIDE DEF B, e, k, f
  <1>7. /\ e \in Conns /\ e.armed = B /\ e.state = c.state /\ e.told = c.told
        /\ e.istate = "WRITE_HTTP_REQUEST" /\ Unsaid(c, e)
    BY <1>1, <1>5 DEF e, Conns, Unsaid, Untouched
  <1>8. Calm(c, e)
    BY <1>6, <1>7 DEF Calm, Unsaid
  <1>9. Sound(e, where)
    BY <1>7, SoundKept DEF Whole
  <1>10. Whole(e, late, where)
    <2>1. c.flag /\ e.state # "closed" => Some(c.ready, c.pending, Writing)
      BY <1>7 DEF Whole, WritePart
    <2> QED BY <1>8, <1>9, <2>1, WholeCalm DEF Whole, WritePart
  <1>11. ~Some(e.ready, e.pending, Chain)
    BY <1>7 DEF Unsaid, Untouched
  <1>12. [op |-> "write", h |-> "handle_send_http_request"] \in Ops
    BY DEF Ops, Chain
  <1>13. Whole(StartOp(e, "write", "handle_send_http_request"), late, where)
    BY <1>10, <1>11, <1>12, ChainStarts
  <1> QED BY <1>4, <1>13 DEF k

\* The callback of async_connect is called.
LEMMA ConnectedWhole ==
  ASSUME NEW c, NEW late, NEW where, Whole(c, late, where), Answerable(c, late),
         NEW ec \in Codes \cup {"timeout"}, ec = "ok" => ~Some(c.ready, c.pending, Chain)
  PROVE  Whole(Connected(c, ec), late, where)
  <1> DEFINE a == Append(c.answers, ec)
             d == [c EXCEPT !.answers = a]
  <1>1. c \in Conns /\ a \in Seq(Codes \cup {"timeout"}) /\ Len(a) <= 1
    BY DEF Whole, Conns, Answerable
  <1>2. Connected(c, ec) = IF ec = "ok" THEN Start(d) ELSE Terminate(d)
    BY DEF Connected
  <1> HIDE DEF a
  <1>3. /\ d \in Conns /\ d.pending = c.pending /\ d.ready = c.ready /\ d.armed = c.armed
        /\ d.answers = a /\ d.flag = c.flag /\ d.current = c.current /\ d.state = c.state
        /\ d.istate = c.istate /\ d.told = c.told
        /\ d.queue = c.queue /\ d.pushed = c.pushed /\ d.written = c.written
    BY <1>1 DEF Conns
  <1> HIDE DEF d
  <1>4. StagePart(d, late)
    <2>1. ~Live(d, "dns") /\ ~Live(d, "con")
      BY <1>3 DEF Answerable, Live
    <2>2. Fired(d, late, "dns") /\ Fired(d, late, "con") /\ Single(d.ready, d.pending, Chain)
      BY <1>3 DEF Whole, StagePart, Fired
    <2> QED BY <1>1, <1>3, <2>1, <2>2 DEF StagePart, Answerable
  <1>5. WritePart(d)
    BY <1>3 DEF Whole, WritePart, OneWrite
  <1>6. Sound(d, where)
    <2>0. Sound(c, where)
      BY DEF Whole
    <2>1. ToldPart(d)
      BY <1>3, <2>0 DEF Sound, ToldPart
    <2>2. OrderPart(d)
      BY <1>3, <2>0 DEF Sound, OrderPart
    <2>3. WakePart(d, where)
      BY <1>3, <2>0 DEF Sound, WakePart
    <2>4. ClosePart(d, where)
      BY <1>3, <2>0 DEF Sound, ClosePart
    <2> QED BY <2>1, <2>2, <2>3, <2>4 DEF Sound
  <1>7. Whole(d, late, where)
    BY <1>3, <1>4, <1>5, <1>6 DEF Whole
  <1>8. Whole(Terminate(d), late, where)
    BY <1>7, EndWhole DEF Whole, WritePart, Sound
  <1>9. ec = "ok" => Whole(SendHttpRequest(TransportInit(d)), late, where)
    BY <1>3, <1>7, RequestWhole
  <1> QED BY <1>2, <1>8, <1>9 DEF Start

\* handle_resolve keeps the invariant: the answer is its own, or the timer's.
LEMMA ResolveWhole ==
  ASSUME NEW c, NEW e, NEW where, Taking(c, e, overdue, where), e.h = "handle_resolve"
  PROVE  Whole(HandleResolve(c, e), overdue, where)
  <1> DEFINE k == CancelTimer(c, DnsTimer)
  <1>1. Whole(c, overdue, where) /\ ~Some(c.ready, c.pending, Chain) /\ e.ec \in Codes
    BY DEF Taking, Whole, Writing, Chain, Handlers
  <1>2. CASE LeftToTimer(c, DnsTimer, e.ec)
    BY <1>1, <1>2 DEF HandleResolve
  <1>3. CASE ~LeftToTimer(c, DnsTimer, e.ec)
    <2>1. c.answers = <<>> /\ ~Live(c, "con") /\ ~Some(c.ready, {}, {"dns"})
      BY <1>3 DEF Taking, LeftToTimer
    <2>2. /\ Whole(k, overdue, where) /\ k.armed = c.armed \ {DnsTimer}
          /\ k.ready = c.ready /\ k.pending = c.pending /\ k.answers = <<>>
      BY <1>1, <2>1, CancelKeeps
    <2> HIDE DEF k
    <2>3. ~Live(k, "dns") /\ ~Live(k, "con")
      BY <2>1, <2>2 DEF Live, DnsTimer
    <2>4. /\ ~Some(k.ready, k.pending, {"handle_resolve"})
          /\ ~Some(k.ready, k.pending, {"handle_connect"})
      BY <1>1, <2>2 DEF Some, Chain
    <2>5. CASE e.ec # "ok"
      <3>1. Answerable(k, overdue)
        BY <2>2, <2>3, <2>4 DEF Answerable
      <3>2. HandleResolve(c, e) = Connected(k, e.ec)
        BY <1>3, <2>5 DEF HandleResolve, k
      <3> QED BY <1>1, <2>2, <2>5, <3>1, <3>2, ConnectedWhole
    <2>6. CASE e.ec = "ok"
      <3> DEFINE o == [op |-> "connect", h |-> "handle_connect"]
                 P == k.pending \cup {o}
                 A == k.armed \cup {ConTimer}
                 f == StartOp(SetTimer(k, ConTimer), "connect", "handle_connect")
      <3>1. HandleResolve(c, e) = f
        BY <1>3, <2>6 DEF HandleResolve, k
      <3>2. k \in Conns /\ P \in SUBSET Ops /\ A \in SUBSET Timers /\ IsFiniteSet(P)
        <4>1. k \in Conns /\ IsFiniteSet(k.pending)
          BY <2>2 DEF Whole
        <4>2. o \in Ops
          BY DEF Ops, Chain
        <4> HIDE DEF o
        <4>3. IsFiniteSet(P)
          BY <4>1, FS_AddElement
        <4>4. ConTimer \in Timers
          BY DEF Timers
        <4> QED BY <4>1, <4>2, <4>3, <4>4 DEF Conns
      <3>3. f = [k EXCEPT !.armed = A, !.pending = P]
        BY <3>2 DEF StartOp, SetTimer, Conns
      <3>4. o.h = "handle_connect"
        OBVIOUS
      <3> HIDE DEF P, A, f, o
      <3>5. /\ f \in Conns /\ f.pending = P /\ f.ready = k.ready /\ f.armed = A
            /\ f.answers = k.answers /\ f.flag = k.flag /\ f.current = k.current /\ f.state = k.state
            /\ f.istate = k.istate /\ f.told = k.told
            /\ f.queue = k.queue /\ f.pushed = k.pushed /\ f.written = k.written
        BY <3>2, <3>3 DEF Conns
      <3>6. StagePart(f, overdue)
        <4>1. Single(f.ready, f.pending, Chain)
          <5>1. ~Some(k.ready, k.pending, Chain)
            BY <1>1, <2>2
          <5>2. Single(k.ready, k.pending \cup {o}, Chain)
            BY <5>1, StartedIs
          <5> QED BY <3>5, <5>2 DEF P
        <4>2. ~Live(f, "dns") /\ ~Some(f.ready, {}, {"con"})
          BY <2>3, <3>5 DEF Live, A, ConTimer
        <4>3. Fired(f, overdue, "dns") /\ Fired(f, overdue, "con")
          <5>1. Single(f.ready, {}, {"dns"}) /\ Single(f.ready, {}, {"con"})
            BY <2>2, <3>5 DEF Whole, StagePart, Fired
          <5> QED BY <4>2, <5>1 DEF Fired, Live
        <4>4. ~Some(f.ready, f.pending, {"handle_resolve"})
          <5>1. o.h \notin {"handle_resolve"}
            BY <3>4
          <5>2. ~Some(k.ready, k.pending \cup {o}, {"handle_resolve"})
            BY <2>4, <5>1, StartedIs
          <5> QED BY <3>5, <5>2 DEF P
        <4>5. f.answers = <<>>
          BY <2>2, <3>5
        <4>6. Len(f.answers) <= 1
          BY <4>5
        <4> HIDE DEF f
        <4> QED BY <4>1, <4>2, <4>3, <4>4, <4>5, <4>6 DEF StagePart
      <3>7. WritePart(f)
        <4>1. o.h \notin Writing
          BY <3>4 DEF Writing
        <4>2. /\ Some(k.ready, k.pending \cup {o}, Writing) <=> Some(k.ready, k.pending, Writing)
              /\ Single(k.ready, k.pending, Writing) => Single(k.ready, k.pending \cup {o}, Writing)
          BY <4>1, StartedIs
        <4> QED BY <2>2, <3>5, <4>2 DEF Whole, WritePart, OneWrite, P
      <3>8. Sound(f, where)
        <4>0. Sound(k, where)
          BY <2>2 DEF Whole
        <4>1. ToldPart(f)
          BY <3>5, <4>0 DEF Sound, ToldPart
        <4>2. OrderPart(f)
          BY <3>5, <4>0 DEF Sound, OrderPart
        <4>3. WakePart(f, where)
          BY <3>5, <4>0 DEF Sound, WakePart
        <4>4. ClosePart(f, where)
          BY <3>5, <4>0 DEF Sound, ClosePart
        <4> QED BY <4>1, <4>2, <4>3, <4>4 DEF Sound
      <3> QED BY <3>1, <3>2, <3>5, <3>6, <3>7, <3>8 DEF Whole
    <2> QED BY <2>5, <2>6
  <1> QED BY <1>2, <1>3

\* handle_connect keeps it: the answer is its own, or the timer's.
LEMMA ConnectWhole ==
  ASSUME NEW c, NEW e, NEW where, Taking(c, e, overdue, where), e.h = "handle_connect"
  PROVE  Whole(HandleConnect(c, e), overdue, where)
  <1> DEFINE k == CancelTimer(c, ConTimer)
  <1>1. Whole(c, overdue, where) /\ ~Some(c.ready, c.pending, Chain) /\ e.ec \in Codes
    BY DEF Taking, Whole, Writing, Chain, Handlers
  <1>2. CASE LeftToTimer(c, ConTimer, e.ec)
    BY <1>1, <1>2 DEF HandleConnect
  <1>3. CASE ~LeftToTimer(c, ConTimer, e.ec)
    <2>1. c.answers = <<>> /\ ~Live(c, "dns") /\ ~Some(c.ready, {}, {"con"})
      BY <1>3 DEF Taking, LeftToTimer
    <2>2. /\ Whole(k, overdue, where) /\ k.armed = c.armed \ {ConTimer}
          /\ k.ready = c.ready /\ k.pending = c.pending /\ k.answers = <<>>
      BY <1>1, <2>1, CancelKeeps
    <2>3. HandleConnect(c, e) = Connected(k, e.ec)
      BY <1>3 DEF HandleConnect
    <2> HIDE DEF k
    <2>4. ~Live(k, "dns") /\ ~Live(k, "con")
      BY <2>1, <2>2 DEF Live, ConTimer
    <2>5. /\ ~Some(k.ready, k.pending, {"handle_resolve"})
          /\ ~Some(k.ready, k.pending, {"handle_connect"})
      BY <1>1, <2>2 DEF Some, Chain
    <2>6. Answerable(k, overdue) /\ ~Some(k.ready, k.pending, Chain)
      BY <1>1, <2>2, <2>4, <2>5 DEF Answerable
    <2> QED BY <1>1, <2>2, <2>3, <2>6, ConnectedWhole
  <1> QED BY <1>2, <1>3

\* The operations under way are cancelled by a timer.
LEMMA CancelledWhole ==
  ASSUME NEW c, NEW late, NEW where, Whole(c, late, where), Answerable(c, late)
  PROVE  Whole(CancelOps(c), late, where) /\ Answerable(CancelOps(c), late)
  <1> DEFINE A == {Handler(p.h, "aborted", <<>>) : p \in c.pending}
             t == c.ready \o SetToSeq(A)
             d == CancelOps(c)
  <1>1. c \in Conns /\ IsFiniteSet(c.pending) /\ c.ready \in Seq(Handlers) /\ c.pending \subseteq Ops
    BY DEF Whole, Conns
  <1>2. /\ t \in Seq(Handlers \cup A)
        /\ \A X : Some(t, {}, X) <=> Some(c.ready, c.pending, X)
        /\ \A X : Single(c.ready, c.pending, X) => Single(t, {}, X)
    BY <1>1, CancelledIs
  <1>3. A \subseteq Handlers
    <2> SUFFICES ASSUME NEW p \in c.pending PROVE Handler(p.h, "aborted", <<>>) \in Handlers
      OBVIOUS
    <2>1. p.h \in Names
      BY <1>1 DEF Ops, Names
    <2> QED BY <2>1 DEF Handler, Handlers, Codes
  <1>4. t \in Seq(Handlers)
    BY <1>2, <1>3, Handlers \cup A = Handlers
  <1>5. d = [c EXCEPT !.pending = {}, !.ready = t]
    BY DEF CancelOps
  <1> HIDE DEF A, t, d
  <1>6. /\ d \in Conns /\ d.pending = {} /\ d.ready = t /\ d.armed = c.armed
        /\ d.answers = c.answers /\ d.flag = c.flag /\ d.current = c.current /\ d.state = c.state
        /\ d.istate = c.istate /\ d.told = c.told
        /\ d.queue = c.queue /\ d.pushed = c.pushed /\ d.written = c.written
    BY <1>1, <1>4, <1>5 DEF Conns
  <1>7. ASSUME NEW h, h \notin Chain \cup Writing
        PROVE  /\ Some(d.ready, {}, {h}) <=> Some(c.ready, {}, {h})
               /\ Single(c.ready, {}, {h}) => Single(d.ready, {}, {h})
    <2>1. \A p \in c.pending : p.h \notin {h}
      BY <1>1, <1>7 DEF Ops
    <2>2. Some(c.ready, c.pending, {h}) <=> Some(c.ready, {}, {h})
      BY <2>1 DEF Some
    <2>3. Single(c.ready, {}, {h}) => Single(c.ready, c.pending, {h})
      BY <2>1 DEF Single
    <2> QED BY <1>2, <1>6, <2>2, <2>3
  <1>8. "dns" \notin Chain \cup Writing /\ "con" \notin Chain \cup Writing
        /\ "write_frame" \notin Chain \cup Writing
    BY DEF Chain, Writing
  <1>9. StagePart(d, late)
    <2>0. StagePart(c, late)
      BY DEF Whole
    <2>1. Single(d.ready, d.pending, Chain)
      BY <1>2, <1>6, <2>0 DEF StagePart
    <2>2. \A n \in {"dns", "con"} :
            /\ Single(d.ready, {}, {n}) /\ (Some(d.ready, {}, {n}) => Some(c.ready, {}, {n}))
            /\ <<n, 0>> \in d.armed => <<n, 0>> \in c.armed
      <3>1. Single(c.ready, {}, {"dns"}) /\ Single(c.ready, {}, {"con"})
        BY <2>0 DEF StagePart, Fired
      <3> QED BY <1>6, <1>7, <1>8, <3>1
    <2>3. \A k \in {"handle_resolve", "handle_connect"} :
            Some(d.ready, d.pending, {k}) => Some(c.ready, c.pending, {k})
      BY <1>2, <1>6
    <2> QED BY <1>6, <2>0, <2>1, <2>2, <2>3, StageKept
  <1>10. WritePart(d)
    BY <1>2, <1>6 DEF Whole, WritePart, OneWrite
  <1>11. Sound(d, where)
    <2>0. Sound(c, where)
      BY DEF Whole
    <2>1. ToldPart(d)
      BY <1>6, <2>0 DEF Sound, ToldPart
    <2>2. OrderPart(d)
      BY <1>6, <2>0 DEF Sound, OrderPart
    <2>3. WakePart(d, where)
      BY <1>6, <1>7, <1>8, <2>0 DEF Sound, WakePart
    <2>4. ClosePart(d, where)
      BY <1>6, <2>0 DEF Sound, ClosePart
    <2> QED BY <2>1, <2>2, <2>3, <2>4 DEF Sound
  <1>12. IsFiniteSet(d.pending)
    BY <1>6, FS_EmptySet
  <1>13. Answerable(d, late)
    <2>1. ~Live(d, "dns") /\ ~Live(d, "con")
      BY <1>6, <1>7, <1>8 DEF Answerable, Live
    <2> QED BY <1>2, <1>6, <2>1 DEF Answerable
  <1> QED BY <1>6, <1>9, <1>10, <1>11, <1>12, <1>13 DEF Whole, d

\* The handlers of the two timers of connecting keep it: the result that comes later gives way.
LEMMA TimeoutWhole ==
  ASSUME NEW c, NEW e, NEW late, NEW where, Taking(c, e, late, where), e.h \in {"dns", "con"}
  PROVE  Whole(Connected(CancelOps(c), "timeout"), late, where)
  <1>1. Whole(c, late, where) /\ Answerable(c, late)
    BY DEF Taking, Whole, Writing
  <1>2. Whole(CancelOps(c), late, where) /\ Answerable(CancelOps(c), late)
    BY <1>1, CancelledWhole
  <1> QED BY <1>2, ConnectedWhole

-----------------------------------------------------------------------------
(***************************************************************************)
(* The handlers of the handshake, of reading and of writing.               *)
(***************************************************************************)
\* handle_send_http_request keeps it.
LEMMA SentRequestWhole ==
  ASSUME NEW c, NEW e, NEW late, NEW where, Taking(c, e, late, where),
         e.h = "handle_send_http_request"
  PROVE  Whole(HandleSendHttpRequest(c, e), late, where)
  <1> DEFINE d == [c EXCEPT !.istate = "READ_HTTP_RESPONSE"]
  <1>1. Whole(c, late, where) /\ ~Some(c.ready, c.pending, Chain) /\ c \in Conns
    BY DEF Taking, Whole, Writing, Chain
  <1>2. HandleSendHttpRequest(c, e) \in
          {Terminate(c), StartOp(d, "read", "handle_read_http_response")}
    BY DEF HandleSendHttpRequest
  <1>3. /\ d \in Conns /\ d.armed = c.armed /\ d.state = c.state /\ d.told = c.told
        /\ d.istate = "READ_HTTP_RESPONSE" /\ Unsaid(c, d)
    BY <1>1 DEF Conns, Unsaid, Untouched
  <1> HIDE DEF d
  <1>4. Calm(c, d) /\ Sound(d, where)
    BY <1>1, <1>3, UnsaidIsCalm, SoundKept DEF Whole
  <1>5. Whole(d, late, where) /\ ~Some(d.ready, d.pending, Chain)
    <2>1. c.flag /\ d.state # "closed" => Some(c.ready, c.pending, Writing)
      BY <1>1, <1>3 DEF Whole, WritePart
    <2> QED BY <1>1, <1>3, <1>4, <2>1, WholeCalm DEF Whole, WritePart, Unsaid, Untouched
  <1>6. [op |-> "read", h |-> "handle_read_http_response"] \in Ops
    BY DEF Ops, Chain
  <1>7. Whole(StartOp(d, "read", "handle_read_http_response"), late, where)
    BY <1>5, <1>6, ChainStarts
  <1>8. Whole(Terminate(c), late, where)
    BY <1>1, EndWhole DEF Whole, WritePart, Sound
  <1> QED BY <1>2, <1>7, <1>8

\* Frames are read, and the next read begins unless the loop was left.
LEMMA FramesWhole ==
  ASSUME NEW c, NEW late, NEW where, Whole(c, late, where), ~Some(c.ready, c.pending, Chain),
         c.state # "connecting", NEW msgs \in Batches
  PROVE  Whole(ReadFrames(c, msgs), late, where)
  <1>1. c \in Conns /\ Sound(c, where)
    BY DEF Whole
  <1>2. PICK d \in Conns :
          /\ Calm(c, d) /\ Sound(d, where)
          /\ ReadFrames(c, msgs) \in {d, StartOp(d, "read", "handle_read_frame")}
    BY <1>1, ReadFramesSound
  <1>3. "write_frame" \notin Chain /\ d.pending = c.pending
    BY <1>2 DEF Chain, Calm, Untouched
  <1>4. ~Some(d.ready, d.pending, Chain)
    BY <1>2, <1>3 DEF Calm
  <1>5. Whole(d, late, where)
    <2>1. c.flag /\ d.state # "closed" => Some(c.ready, c.pending, Writing)
      BY <1>2 DEF Whole, WritePart, Calm
    <2> QED BY <1>2, <2>1, WholeCalm DEF Whole, WritePart
  <1>6. [op |-> "read", h |-> "handle_read_frame"] \in Ops
    BY DEF Ops, Chain
  <1>7. Whole(StartOp(d, "read", "handle_read_frame"), late, where)
    BY <1>4, <1>5, <1>6, ChainStarts
  <1> QED BY <1>2, <1>5, <1>7

\* The timer of the handshake is taken back; the connection is open.
Unset(c) == [CancelTimer(c, c.timer) EXCEPT !.timer = None]
Opened(c) == Says([Unset(c) EXCEPT !.istate = "PROCESS_CONNECTION", !.state = "open"], "open")

\* The connection is open: the user hears it first.
LEMMA OpenedWhole ==
  ASSUME NEW c, NEW late, NEW where, Whole(c, late, where), c.state = "connecting",
         NEW d, d = Unset(c), NEW f, f = Opened(c)
  PROVE  /\ Whole(d, late, where) /\ Whole(f, late, where)
         /\ f.state = "open" /\ f.ready = c.ready /\ f.pending = c.pending
  <1> DEFINE A == c.armed \ {c.timer}
             g == [d EXCEPT !.istate = "PROCESS_CONNECTION", !.state = "open"]
  <1>1. c \in Conns /\ A \in SUBSET Timers /\ A \subseteq c.armed /\ Sound(c, where)
    BY DEF Whole, Conns
  <1>2. d = [c EXCEPT !.armed = A, !.timer = None]
    BY <1>1 DEF Unset, CancelTimer, Conns
  <1> HIDE DEF A
  <1>3. /\ d \in Conns /\ d.armed = A /\ d.state = c.state /\ d.told = c.told
        /\ d.istate = c.istate /\ Unsaid(c, d)
    BY <1>1, <1>2 DEF Conns, Unsaid, Untouched
  <1>4. /\ g \in Conns /\ g.armed = A /\ g.state = "open" /\ g.told = c.told
        /\ g.istate = "PROCESS_CONNECTION" /\ Unsaid(c, g)
    <2>1. /\ g \in Conns /\ g.armed = d.armed /\ g.state = "open" /\ g.told = d.told
          /\ g.istate = "PROCESS_CONNECTION" /\ Unsaid(d, g)
      BY <1>3 DEF Conns, Unsaid, Untouched
    <2> HIDE DEF g
    <2> QED BY <1>3, <2>1 DEF Unsaid, Untouched
  <1> HIDE DEF g
  <1>5. /\ f \in Conns /\ f.told = Append(c.told, "open") /\ f.armed = A /\ f.state = "open"
        /\ f.istate = "PROCESS_CONNECTION" /\ Unsaid(c, f)
    <2>1. f = Says(g, "open") /\ "open" \in Says4
      BY DEF Opened, g, Says4
    <2>2. /\ Says(g, "open") \in Conns /\ Says(g, "open").told = Append(g.told, "open")
          /\ Says(g, "open").state = g.state /\ Says(g, "open").istate = g.istate
          /\ Says(g, "open").armed = g.armed /\ Unsaid(g, Says(g, "open"))
      BY <1>4, <2>1, SaysIs
    <2>3. Unsaid(g, f)
      BY <2>1, <2>2
    <2> QED BY <1>4, <2>1, <2>2, <2>3 DEF Unsaid, Untouched
  <1>6. Calm(c, d) /\ Sound(d, where)
    BY <1>1, <1>3, UnsaidIsCalm, SoundKept
  <1>7. Calm(c, f)
    BY <1>1, <1>5, UnsaidIsCalm
  <1>8. Sound(f, where)
    <2>1. f.told = <<"open">>
      <3>1. c.told = <<>>
        BY <1>1 DEF Sound, ToldPart
      <3> QED BY <1>5, <3>1
    <2>2. ToldPart(f)
      BY <1>5, <2>1 DEF ToldPart
    <2>3. OrderPart(f)
      BY <1>1, <1>5 DEF Sound, OrderPart, Unsaid, Untouched
    <2>4. WakePart(f, where)
      BY <1>1, <1>5 DEF Sound, WakePart, Unsaid, Untouched
    <2>5. ClosePart(f, where)
      BY <1>1, <1>5 DEF Sound, ClosePart, Unsaid
    <2> QED BY <2>2, <2>3, <2>4, <2>5 DEF Sound
  <1>9. c.flag => Some(c.ready, c.pending, Writing)
    BY DEF Whole, WritePart
  <1>10. /\ IsFiniteSet(c.pending) /\ StagePart(c, late) /\ OneWrite(c)
    BY DEF Whole, WritePart
  <1>11. Whole(d, late, where)
    BY <1>1, <1>6, <1>9, <1>10, WholeCalm
  <1>12. Whole(f, late, where)
    BY <1>1, <1>7, <1>8, <1>9, <1>10, WholeCalm
  <1> QED BY <1>5, <1>11, <1>12 DEF Unsaid, Untouched

\* handle_read_http_response keeps it, whatever the response.
LEMMA ResponseWhole ==
  ASSUME NEW c, NEW e, NEW late, NEW where, Taking(c, e, late, where),
         e.h = "handle_read_http_response"
  PROVE  Whole(HandleReadHttpResponse(c, e), late, where)
  <1> DEFINE d == Unset(c)
             f == Opened(c)
             R == HandleReadHttpResponse(c, e)
             good == e.ec = "ok" /\ c.state = "connecting" /\ c.istate = "READ_HTTP_RESPONSE"
  <1>1. Whole(c, late, where) /\ ~Some(c.ready, c.pending, Chain)
    BY DEF Taking, Whole, Writing, Chain
  <1>2. Whole(Terminate(c), late, where)
    BY <1>1, EndWhole DEF Whole, WritePart, Sound
  <1>3. CASE ~good
    <2>1. R = Terminate(c)
      BY <1>3 DEF HandleReadHttpResponse
    <2> QED BY <1>2, <2>1
  <1>4. CASE good
    <2>1. Response(e.data)
      BY <1>4 DEF Taking, Handlers
    <2>2. R = CASE e.data[1] = "malformed" -> Terminate(c)
                [] e.data[1] = "partial"   -> StartOp(c, "read", "handle_read_http_response")
                [] e.data[1] = "refused"   -> Terminate(d)
                [] e.data[1] = "accepted"  -> ReadFrames(f, Tail(e.data))
      BY <1>4 DEF HandleReadHttpResponse, Unset, Opened
    <2>3. /\ Whole(d, late, where) /\ Whole(f, late, where)
          /\ f.state = "open" /\ f.ready = c.ready /\ f.pending = c.pending
      BY <1>1, <1>4, OpenedWhole
    <2> HIDE DEF d, f, R
    <2>4. CASE e.data = <<"malformed">>
      <3>1. e.data[1] = "malformed"
        BY <2>4
      <3>2. R = Terminate(c)
        BY <2>2, <3>1
      <3> QED BY <1>2, <3>2 DEF R
    <2>5. CASE e.data = <<"partial">>
      <3>1. e.data[1] = "partial"
        BY <2>5
      <3>2. R = StartOp(c, "read", "handle_read_http_response")
        BY <2>2, <3>1
      <3>3. [op |-> "read", h |-> "handle_read_http_response"] \in Ops
        BY DEF Ops, Chain
      <3>4. Whole(StartOp(c, "read", "handle_read_http_response"), late, where)
        BY <1>1, <3>3, ChainStarts
      <3> QED BY <3>2, <3>4 DEF R
    <2>6. CASE e.data = <<"refused">>
      <3>1. e.data[1] = "refused"
        BY <2>6
      <3>2. R = Terminate(d)
        BY <2>2, <3>1
      <3>3. Whole(Terminate(d), late, where)
        BY <2>3, EndWhole DEF Whole, WritePart, Sound
      <3> QED BY <3>2, <3>3 DEF R
    <2>7. CASE e.data # <<>> /\ Head(e.data) = "accepted" /\ Tail(e.data) \in Batches
      <3>1. e.data[1] = "accepted"
        <4> DEFINE q == e.data
        <4>1. q \in Seq(Pieces) /\ q # <<>> /\ Head(q) = "accepted"
          BY <2>7 DEF Taking, Handlers
        <4> HIDE DEF q
        <4>2. Head(q) = q[1]
          BY <4>1, HeadTailProperties
        <4> QED BY <4>1, <4>2 DEF q
      <3>2. R = ReadFrames(f, Tail(e.data))
        BY <2>2, <3>1
      <3>3. ~Some(f.ready, f.pending, Chain)
        BY <1>1, <2>3
      <3>4. Whole(ReadFrames(f, Tail(e.data)), late, where)
        BY <2>3, <2>7, <3>3, FramesWhole
      <3> QED BY <3>2, <3>4 DEF R
    <2>8. Whole(R, late, where)
      BY <2>1, <2>4, <2>5, <2>6, <2>7 DEF Response, R
    <2> QED BY <2>8 DEF R
  <1> QED BY <1>3, <1>4

\* handle_read_frame keeps it.
LEMMA ReadFrameWhole ==
  ASSUME NEW c, NEW e, NEW late, NEW where, Taking(c, e, late, where), e.h = "handle_read_frame"
  PROVE  Whole(HandleReadFrame(c, e), late, where)
  <1>1. Whole(c, late, where) /\ ~Some(c.ready, c.pending, Chain)
    BY DEF Taking, Whole, Writing, Chain
  <1>2. CASE e.ec = "ok" /\ c.istate = "PROCESS_CONNECTION"
    <2>1. e.data \in Batches
      BY <1>2 DEF Taking, Handlers
    <2>2. c.state # "connecting"
      BY <1>1, <1>2 DEF Whole, Sound, ToldPart
    <2>3. HandleReadFrame(c, e) = ReadFrames(c, e.data)
      BY <1>2 DEF HandleReadFrame
    <2> QED BY <1>1, <2>1, <2>2, <2>3, FramesWhole
  <1>3. CASE ~(e.ec = "ok" /\ c.istate = "PROCESS_CONNECTION")
    <2>1. HandleReadFrame(c, e) = Terminate(c)
      BY <1>3 DEF HandleReadFrame
    <2>2. Whole(Terminate(c), late, where)
      BY <1>1, EndWhole DEF Whole, WritePart, Sound
    <2> QED BY <2>1, <2>2
  <1> QED BY <1>2, <1>3

\* The timers of the handshakes end the connection.
LEMMA ExpiredWhole ==
  ASSUME NEW c, NEW e, NEW late, NEW where, Taking(c, e, late, where), e.h \in {"open", "close"}
  PROVE  Whole(Terminate(c), late, where)
  BY EndWhole DEF Taking, WritePart, Writing

-----------------------------------------------------------------------------
(***************************************************************************)
(* Writing.                                                                *)
(***************************************************************************)
\* How many messages write_frame pops.
Terminals(q) == {i \in 1..Len(q) : q[i].terminal}
Popped(q) == IF Terminals(q) = {} THEN Len(q) ELSE CHOOSE i \in Terminals(q) : \A j \in Terminals(q) : i <= j

\* Up to the first terminal message, one at least.
LEMMA PoppedIs ==
  ASSUME NEW S, NEW q \in Seq(S), q # <<>>
  PROVE  LET n == Popped(q)
             a == SubSeq(q, 1, n)
             b == SubSeq(q, n + 1, Len(q))
         IN  n \in 1..Len(q) /\ a \in Seq(S) /\ b \in Seq(S) /\ a # <<>> /\ q = a \o b
  <1> DEFINE n == Popped(q)
             a == SubSeq(q, 1, n)
             b == SubSeq(q, n + 1, Len(q))
  <1>1. Len(q) \in Nat /\ Len(q) # 0
    BY EmptySeq, LenProperties
  <1>2. n \in 1..Len(q)
    <2>1. CASE Terminals(q) = {}
      BY <1>1, <2>1 DEF Popped
    <2>2. CASE Terminals(q) # {}
      <3>1. Terminals(q) \subseteq Nat /\ Terminals(q) \subseteq 1..Len(q)
        BY <1>1 DEF Terminals
      <3> DEFINE R == {p \in Nat \X Nat : p[1] < p[2]}
      <3>9. IsWellFoundedOn(R, Nat)
        BY NatLessThanWellFounded DEF OpToRel
      <3>2. PICK i \in Terminals(q) : \A j \in Terminals(q) : ~ (<<j, i>> \in R)
        BY <2>2, <3>1, <3>9, WFMin
      <3>3. ASSUME NEW j \in Terminals(q) PROVE i <= j
        <4>1. i \in Nat /\ j \in Nat /\ ~(<<j, i>> \in R)
          BY <3>1, <3>2
        <4>2. <<j, i>> \in Nat \X Nat /\ <<j, i>>[1] = j /\ <<j, i>>[2] = i
          BY <4>1
        <4>3. ~(j < i)
          BY <4>1, <4>2
        <4> QED BY <4>1, <4>3
      <3>4. n \in Terminals(q)
        BY <2>2, <3>3 DEF Popped
      <3> QED BY <3>1, <3>4
    <2> QED BY <2>1, <2>2
  <1> HIDE DEF n
  <1>3. a \in Seq(S) /\ b \in Seq(S) /\ Len(a) = n
    <2>1. /\ 1 \in Int /\ n \in Int /\ n + 1 \in Int /\ Len(q) \in Int
          /\ \A i \in 1..n : q[i] \in S
          /\ \A i \in n + 1..Len(q) : q[i] \in S
      <3>1. \A i \in 1..Len(q) : q[i] \in S
        BY ElementOfSeq
      <3> QED BY <1>1, <1>2, <3>1
    <2>2. a \in Seq(S) /\ Len(a) = IF 1 <= n THEN n - 1 + 1 ELSE 0
      BY <2>1, SubSeqProperties
    <2>3. b \in Seq(S)
      BY <2>1, SubSeqProperties
    <2> QED BY <1>1, <1>2, <2>2, <2>3
  <1>4. a # <<>>
    BY <1>2, <1>3
  <1>5. a \o b = SubSeq(q, 1, Len(q))
    <2>1. 1 \in 1..Len(q) + 1 /\ n \in 1 - 1..Len(q) /\ Len(q) \in n..Len(q)
      BY <1>1, <1>2
    <2> QED BY <2>1, ConcatAdjacentSubSeq
  <1>6. SubSeq(q, 1, Len(q)) = q
    BY SubSeqFull
  <1> QED BY <1>2, <1>3, <1>4, <1>5, <1>6 DEF n, a, b

\* write_frame keeps it: it takes nothing while a write is under way, else what is queued, in order.
LEMMA WriteFrameWhole ==
  ASSUME NEW c, NEW e, NEW late, NEW where, Taking(c, e, late, where), e.h = "write_frame"
  PROVE  Whole(WriteFrame(c), late, where)
  <1> DEFINE n == Popped(c.queue)
             a == SubSeq(c.queue, 1, n)
             b == SubSeq(c.queue, n + 1, Len(c.queue))
             o == [op |-> "write", h |-> "handle_write_frame"]
             P == c.pending \cup {o}
             d == WriteFrame(c)
  <1>1. /\ c \in Conns /\ IsFiniteSet(c.pending) /\ StagePart(c, late) /\ WritePart(c)
        /\ ToldPart(c) /\ OrderPart(c) /\ ClosePart(c, where)
    BY DEF Taking, Writing
  <1>2. CASE c.flag \/ c.queue = <<>>
    <2>1. d = c
      BY <1>2 DEF WriteFrame
    <2>2. WakePart(c, where)
      BY <1>2 DEF WakePart
    <2> QED BY <1>1, <2>1, <2>2 DEF Whole, Sound
  <1>3. CASE ~(c.flag \/ c.queue = <<>>)
    <2>0. n = IF Terminals(c.queue) = {} THEN Len(c.queue)
              ELSE CHOOSE i \in Terminals(c.queue) : \A j \in Terminals(c.queue) : i <= j
      BY DEF Popped
    <2>1. d = StartOp([c EXCEPT !.current = a, !.queue = b, !.flag = TRUE],
                      "write", "handle_write_frame")
      BY <1>3 DEF WriteFrame, Popped, Terminals
    <2> HIDE DEF n
    <2>2. a \in Seq(Texts) /\ b \in Seq(Texts) /\ a # <<>> /\ c.queue = a \o b
      <3> DEFINE q == c.queue
      <3>1. q \in Seq(Texts) /\ q # <<>>
        BY <1>1, <1>3 DEF Conns
      <3> HIDE DEF q
      <3>2. LET k == Popped(q)
                x == SubSeq(q, 1, k)
                y == SubSeq(q, k + 1, Len(q))
            IN  k \in 1..Len(q) /\ x \in Seq(Texts) /\ y \in Seq(Texts) /\ x # <<>> /\ q = x \o y
        BY <3>1, PoppedIs
      <3> QED BY <3>2 DEF q, n
    <2> HIDE DEF a, b
    <2>3. P \in SUBSET Ops /\ IsFiniteSet(P) /\ o.h \in Writing /\ o.h \notin Chain
      <3>1. o \in Ops /\ o.h \in Writing /\ o.h \notin Chain
        BY DEF Ops, Writing, Chain
      <3> HIDE DEF o
      <3>2. IsFiniteSet(P)
        BY <1>1, FS_AddElement
      <3> QED BY <1>1, <3>1, <3>2 DEF Conns
    <2>4. d = [c EXCEPT !.current = a, !.queue = b, !.flag = TRUE, !.pending = P]
      BY <1>1, <2>1 DEF StartOp, Conns
    <2> HIDE DEF P, d, o
    <2>5. /\ d \in Conns /\ d.pending = P /\ d.ready = c.ready /\ d.armed = c.armed
          /\ d.answers = c.answers /\ d.flag = TRUE /\ d.current = a /\ d.state = c.state
          /\ d.istate = c.istate /\ d.told = c.told
          /\ d.queue = b /\ d.pushed = c.pushed /\ d.written = c.written
      BY <1>1, <2>2, <2>3, <2>4 DEF Conns
    <2>6. ~Some(c.ready, c.pending, Writing) /\ c.current = <<>>
      BY <1>1, <1>3 DEF WritePart, OneWrite
    <2>7. WritePart(d)
      <3>1. /\ Single(c.ready, c.pending \cup {o}, Writing)
            /\ Some(c.ready, c.pending \cup {o}, Writing)
        BY <2>3, <2>6, StartedIs
      <3> QED BY <2>2, <2>5, <3>1 DEF WritePart, OneWrite, P
    <2>8. StagePart(d, late)
      <3>1. Single(d.ready, d.pending, Chain)
        <4>1. Single(c.ready, c.pending, Chain)
          BY <1>1 DEF StagePart
        <4>2. Single(c.ready, c.pending \cup {o}, Chain)
          BY <2>3, <4>1, StartedIs
        <4> QED BY <2>5, <4>2 DEF P
      <3>2. \A i \in {"dns", "con"} :
              /\ Single(d.ready, {}, {i}) /\ (Some(d.ready, {}, {i}) => Some(c.ready, {}, {i}))
              /\ <<i, 0>> \in d.armed => <<i, 0>> \in c.armed
        BY <1>1, <2>5 DEF StagePart, Fired
      <3>3. \A k \in {"handle_resolve", "handle_connect"} :
              Some(d.ready, d.pending, {k}) => Some(c.ready, c.pending, {k})
        <4> SUFFICES ASSUME NEW k \in {"handle_resolve", "handle_connect"}
                     PROVE  Some(d.ready, d.pending, {k}) => Some(c.ready, c.pending, {k})
          OBVIOUS
        <4>1. o.h \notin {k}
          BY <2>3 DEF Chain
        <4>2. Some(c.ready, c.pending \cup {o}, {k}) => Some(c.ready, c.pending, {k})
          BY <4>1, StartedIs
        <4> QED BY <2>5, <4>2 DEF P
      <3> QED BY <1>1, <2>5, <3>1, <3>2, <3>3, StageKept
    <2>9. ToldPart(d)
      BY <1>1, <2>5 DEF ToldPart
    <2>10. WakePart(d, where)
      BY <2>5 DEF WakePart
    <2>11. ClosePart(d, where)
      BY <1>1, <2>5 DEF ClosePart
    <2>12. OrderPart(d)
      <3> SUFFICES ASSUME c.state # "closed" PROVE c.pushed = c.written \o a \o b
        BY <2>5 DEF OrderPart
      <3>1. c.pushed = c.written \o <<>> \o (a \o b)
        BY <1>1, <2>2, <2>6 DEF OrderPart
      <3>2. c.written \in Seq(Texts)
        BY <1>1 DEF Conns
      <3>3. c.written \o <<>> = c.written
        BY <3>2, ConcatEmptySeq
      <3>4. c.written \o (a \o b) = c.written \o a \o b
        <4>1. ASSUME NEW x \in Seq(Texts), NEW y \in Seq(Texts), NEW z \in Seq(Texts)
              PROVE  x \o (y \o z) = x \o y \o z
          BY ConcatAssociative
        <4> QED BY <2>2, <3>2, <4>1
      <3> QED BY <3>1, <3>3, <3>4
    <2> QED BY <2>3, <2>5, <2>7, <2>8, <2>9, <2>10, <2>11, <2>12 DEF Whole, Sound, d
  <1> QED BY <1>2, <1>3 DEF d

\* handle_write_frame keeps it: it looks for what has been queued meanwhile.
LEMMA WrittenWhole ==
  ASSUME NEW c, NEW e, NEW late, NEW where, Taking(c, e, late, where),
         e.h = "handle_write_frame"
  PROVE  Whole(HandleWriteFrame(c, e), late, where)
  <1> DEFINE w == IF e.ec = "ok" THEN c.written \o c.current ELSE c.written
             none == <<>>
             d == [c EXCEPT !.current = none, !.written = w]
             g == [c EXCEPT !.current = none, !.written = w, !.flag = FALSE]
             R == HandleWriteFrame(c, e)
  <1>1. /\ c \in Conns /\ IsFiniteSet(c.pending) /\ StagePart(c, late) /\ Sound(c, where)
        /\ c.flag /\ ~Some(c.ready, c.pending, Writing)
    BY DEF Taking, Writing
  <1>2. \/ R = Terminate(d)
        \/ e.ec = "ok" /\ c.queue # <<>> /\ R = Post([d EXCEPT !.flag = FALSE], "write_frame")
        \/ e.ec = "ok" /\ c.queue = <<>> /\ R = [d EXCEPT !.flag = FALSE]
    BY DEF HandleWriteFrame
  <1>3. w \in Seq(Texts) /\ none \in Seq(Texts)
    BY <1>1, ConcatProperties DEF Conns
  <1>4. [d EXCEPT !.flag = FALSE] = g
    BY <1>1 DEF Conns
  <1> HIDE DEF w, R, none
  <1>5. /\ d \in Conns /\ d.pending = c.pending /\ d.ready = c.ready /\ d.armed = c.armed
        /\ d.answers = c.answers /\ d.flag = c.flag /\ d.current = none /\ d.state = c.state
        /\ d.istate = c.istate /\ d.told = c.told
        /\ d.queue = c.queue /\ d.pushed = c.pushed /\ d.written = w
    BY <1>1, <1>3 DEF Conns
  <1>6. /\ g \in Conns /\ g.pending = c.pending /\ g.ready = c.ready /\ g.armed = c.armed
        /\ g.answers = c.answers /\ g.flag = FALSE /\ g.current = none /\ g.state = c.state
        /\ g.istate = c.istate /\ g.told = c.told
        /\ g.queue = c.queue /\ g.pushed = c.pushed /\ g.written = w
    BY <1>1, <1>3 DEF Conns
  <1> HIDE DEF d, g
  <1> USE DEF none
  <1>7. \A r, P : ~Some(r, P, Writing) => Single(r, P, Writing)
    BY DEF Some, Single
  <1>8. CASE R = Terminate(d)
    <2>1. StagePart(d, late)
      BY <1>1, <1>5 DEF StagePart, Live, Fired
    <2>2. OneWrite(d)
      BY <1>1, <1>5, <1>7 DEF OneWrite
    <2>3. ToldPart(d)
      BY <1>1, <1>5 DEF Sound, ToldPart
    <2>4. ClosePart(d, where)
      BY <1>1, <1>5 DEF Sound, ClosePart
    <2>5. Whole(Terminate(d), late, where)
      BY <1>1, <1>5, <2>1, <2>2, <2>3, <2>4, EndWhole
    <2> QED BY <1>8, <2>5 DEF R
  <1>9. ASSUME e.ec = "ok" PROVE OrderPart(g)
    <2> SUFFICES ASSUME c.state # "closed" PROVE c.pushed = w \o <<>> \o c.queue
      BY <1>6 DEF OrderPart
    <2>1. w = c.written \o c.current
      BY <1>9 DEF w
    <2>2. w \o <<>> = w
      BY <1>3, ConcatEmptySeq
    <2> QED BY <1>1, <2>1, <2>2 DEF Sound, OrderPart
  <1>10. StagePart(g, late)
    BY <1>1, <1>6 DEF StagePart, Live, Fired
  <1>11. WritePart(g)
    BY <1>1, <1>6, <1>7 DEF WritePart, OneWrite
  <1>12. ToldPart(g)
    BY <1>1, <1>6 DEF Sound, ToldPart
  <1>13. ClosePart(g, where)
    BY <1>1, <1>6 DEF Sound, ClosePart
  <1>14. CASE e.ec = "ok" /\ c.queue = <<>> /\ R = g
    <2>1. WakePart(g, where)
      BY <1>6, <1>14 DEF WakePart
    <2> QED BY <1>1, <1>6, <1>9, <1>10, <1>11, <1>12, <1>13, <1>14, <2>1 DEF Whole, Sound, R
  <1>15. CASE e.ec = "ok" /\ R = Post(g, "write_frame")
    <2> DEFINE f == Post(g, "write_frame")
               k == Handler("write_frame", "ok", <<>>)
               r == Append(c.ready, k)
    <2>1. f \in Conns /\ f = [g EXCEPT !.ready = r]
      BY <1>6, PostIs
    <2>2. k.h = "write_frame" /\ c.ready \in Seq(Handlers)
      BY <1>1 DEF Handler, Conns
    <2> HIDE DEF k
    <2>3. ASSUME NEW P, NEW X, "write_frame" \notin X
          PROVE  /\ Some(r, P, X) <=> Some(c.ready, P, X)
                 /\ Single(c.ready, P, X) => Single(r, P, X)
      BY <2>2, <2>3, AppendedIs
    <2>4. Some(r, {}, {"write_frame"})
      BY <2>2, AppendedIs
    <2> HIDE DEF f, r
    <2>5. /\ f.pending = c.pending /\ f.ready = r /\ f.armed = c.armed
          /\ f.answers = c.answers /\ f.flag = FALSE /\ f.current = <<>> /\ f.state = c.state
          /\ f.istate = c.istate /\ f.told = c.told
          /\ f.queue = c.queue /\ f.pushed = c.pushed /\ f.written = g.written
      BY <1>6, <2>1 DEF Conns
    <2>6. StagePart(f, late)
      <3>1. Single(f.ready, f.pending, Chain)
        BY <1>1, <2>3, <2>5 DEF StagePart, Chain
      <3>2. \A i \in {"dns", "con"} :
              /\ Single(f.ready, {}, {i}) /\ (Some(f.ready, {}, {i}) => Some(c.ready, {}, {i}))
              /\ <<i, 0>> \in f.armed => <<i, 0>> \in c.armed
        <4>1. Single(c.ready, {}, {"dns"}) /\ Single(c.ready, {}, {"con"})
          BY <1>1 DEF StagePart, Fired
        <4>2. "write_frame" \notin {"dns"} /\ "write_frame" \notin {"con"}
          OBVIOUS
        <4> QED BY <2>3, <2>5, <4>1, <4>2
      <3>3. \A h \in {"handle_resolve", "handle_connect"} :
              Some(f.ready, f.pending, {h}) => Some(c.ready, c.pending, {h})
        BY <2>3, <2>5
      <3> QED BY <1>1, <2>5, <3>1, <3>2, <3>3, StageKept
    <2>7. WritePart(f)
      <3>1. "write_frame" \notin Writing
        BY DEF Writing
      <3> QED BY <1>1, <1>7, <2>3, <2>5, <3>1 DEF WritePart, OneWrite
    <2>8. ToldPart(f)
      BY <1>6, <1>12, <2>5 DEF ToldPart
    <2>9. ClosePart(f, where)
      BY <1>6, <1>13, <2>5 DEF ClosePart
    <2>10. OrderPart(f)
      BY <1>6, <1>9, <1>15, <2>5 DEF OrderPart
    <2>11. WakePart(f, where)
      BY <2>4, <2>5 DEF WakePart
    <2>12. IsFiniteSet(f.pending)
      BY <1>1, <2>5
    <2> QED BY <1>15, <2>1, <2>6, <2>7, <2>8, <2>9, <2>10, <2>11, <2>12 DEF Whole, Sound, R, f
  <1> QED BY <1>2, <1>4, <1>8, <1>14, <1>15

-----------------------------------------------------------------------------
(***************************************************************************)
(* The io_service runs the handler, whichever it is.                       *)
(***************************************************************************)
\* The io_service runs the handler, whichever it is, and the invariant is kept.
LEMMA ResultWhole ==
  ASSUME NEW c, NEW e, NEW where, Taking(c, e, overdue, where)
  PROVE  Whole(Result(c, e), overdue, where)
  <1>1. CASE e.h = "handle_resolve"
    <2>1. Result(c, e) = HandleResolve(c, e)
      BY <1>1 DEF Result
    <2> QED BY <1>1, <2>1, ResolveWhole
  <1>2. CASE e.h = "dns"
    <2>1. Result(c, e) = Connected(CancelOps(c), "timeout")
      BY <1>2 DEF Result, HandleResolveTimeout
    <2> QED BY <1>2, <2>1, TimeoutWhole
  <1>3. CASE e.h = "con"
    <2>1. Result(c, e) = Connected(CancelOps(c), "timeout")
      BY <1>3 DEF Result, HandleConnectTimeout
    <2> QED BY <1>3, <2>1, TimeoutWhole
  <1>4. CASE e.h = "handle_connect"
    <2>1. Result(c, e) = HandleConnect(c, e)
      BY <1>4 DEF Result
    <2> QED BY <1>4, <2>1, ConnectWhole
  <1>5. CASE e.h = "handle_send_http_request"
    <2>1. Result(c, e) = HandleSendHttpRequest(c, e)
      BY <1>5 DEF Result
    <2> QED BY <1>5, <2>1, SentRequestWhole
  <1>6. CASE e.h = "handle_read_http_response"
    <2>1. Result(c, e) = HandleReadHttpResponse(c, e)
      BY <1>6 DEF Result
    <2> QED BY <1>6, <2>1, ResponseWhole
  <1>7. CASE e.h \in {"open", "close"}
    <2>1. Result(c, e) = Terminate(c)
      BY <1>7 DEF Result
    <2> QED BY <1>7, <2>1, ExpiredWhole
  <1>8. CASE e.h = "handle_read_frame"
    <2>1. Result(c, e) = HandleReadFrame(c, e)
      BY <1>8 DEF Result
    <2> QED BY <1>8, <2>1, ReadFrameWhole
  <1>9. CASE e.h = "write_frame"
    <2>1. Result(c, e) = WriteFrame(c)
      BY <1>9 DEF Result
    <2> QED BY <1>9, <2>1, WriteFrameWhole
  <1>10. CASE e.h = "handle_write_frame"
    <2>1. Result(c, e) = HandleWriteFrame(c, e)
      BY <1>10 DEF Result
    <2> QED BY <1>10, <2>1, WrittenWhole
  <1>11. e.h \in Names
    BY DEF Taking, Handlers
  <1> QED BY <1>1, <1>2, <1>3, <1>4, <1>5, <1>6, <1>7, <1>8, <1>9, <1>10, <1>11
          DEF Names, Chain, Writing

-----------------------------------------------------------------------------
(***************************************************************************)
(* The inductive invariant.                                                *)
(***************************************************************************)
SenderPart == sender \in [Senders -> {"idle", "checked", "posting"}]

IInv == Whole(Con, overdue, sender) /\ SenderPart

\* A field of the record is the variable.
LEMMA ConIs ==
  /\ Con.state = state /\ Con.istate = istate /\ Con.timer = timer /\ Con.flag = flag
  /\ Con.current = current /\ Con.queue = queue /\ Con.clean = clean /\ Con.ready = ready
  /\ Con.pending = pending /\ Con.armed = armed /\ Con.answers = answers /\ Con.told = told
  /\ Con.pushed = pushed /\ Con.written = written
  BY DEF Con

\* Run, whichever handler is the first.
LEMMA RunStep == IInv /\ Run => IInv'
  <1> SUFFICES ASSUME IInv, Run PROVE IInv'
    OBVIOUS
  <1> DEFINE c == Took(Con)
             e == Head(ready)
             r == Result(c, e)
  <1>1. Con.ready # <<>> /\ Head(Con.ready) = e
    BY ConIs DEF Run
  <1>2. Taking(c, e, overdue, sender)
    <2>1. Whole(Con, overdue, sender)
      BY DEF IInv
    <2> HIDE DEF c, e
    <2> QED BY <1>1, <2>1, TookWhole DEF c
  <1>3. Whole(r, overdue, sender)
    BY <1>2, ResultWhole
  <1>4. Becomes(r)
    BY DEF Run, Took
  <1> HIDE DEF r
  <1>5. Con' = r
    <2>1. r \in Conns
      BY <1>3 DEF Whole
    <2>2. /\ state' = r.state /\ istate' = r.istate /\ timer' = r.timer /\ flag' = r.flag
          /\ current' = r.current /\ queue' = r.queue /\ clean' = r.clean
          /\ ready' = r.ready /\ pending' = r.pending /\ armed' = r.armed
          /\ answers' = r.answers /\ told' = r.told /\ pushed' = r.pushed
          /\ written' = r.written
      BY <1>4 DEF Becomes
    <2> QED BY <2>1, <2>2 DEF Con, Conns
  <1>6. overdue' = overdue /\ sender' = sender
    BY <1>4 DEF Becomes
  <1> QED BY <1>3, <1>5, <1>6 DEF IInv, SenderPart

-----------------------------------------------------------------------------
(***************************************************************************)
(* Operations end and timers fire.                                         *)
(***************************************************************************)
\* An operation ends: its handler, of which there is one, moves to the list.
LEMMA EndWaitWhole ==
  ASSUME NEW c, NEW late, NEW where, Whole(c, late, where), NEW p \in c.pending,
         NEW e \in Handlers, e.h = p.h,
         NEW d, d = [c EXCEPT !.pending = c.pending \ {p}, !.ready = Append(c.ready, e)]
  PROVE  Whole(d, late, where)
  <1> DEFINE r == Append(c.ready, e)
             P == c.pending \ {p}
  <1>1. c \in Conns /\ c.ready \in Seq(Handlers) /\ IsFiniteSet(c.pending)
    BY DEF Whole, Conns
  <1>2. r \in Seq(Handlers) /\ P \in SUBSET Ops /\ IsFiniteSet(P)
    BY <1>1, AppendProperties, FS_RemoveElement DEF Conns
  <1>3. e.h \in Chain \cup Writing
    BY <1>1 DEF Conns, Ops
  <1>4. ASSUME NEW X
        PROVE  /\ Some(r, P, X) <=> Some(c.ready, c.pending, X)
               /\ Single(c.ready, c.pending, X) => Single(r, P, X)
    BY <1>1, MovedIs
  <1>5. ASSUME NEW n \in {"dns", "con", "write_frame"}
        PROVE  /\ Some(r, {}, {n}) <=> Some(c.ready, {}, {n})
               /\ Single(c.ready, {}, {n}) => Single(r, {}, {n})
    <2>1. e.h \notin {n}
      BY <1>3 DEF Chain, Writing
    <2> QED BY <1>1, <2>1, AppendedIs
  <1> HIDE DEF r, P
  <1>6. /\ d \in Conns /\ d.pending = P /\ d.ready = r /\ d.armed = c.armed
        /\ d.answers = c.answers /\ d.flag = c.flag /\ d.current = c.current /\ d.state = c.state
        /\ d.istate = c.istate /\ d.told = c.told
        /\ d.queue = c.queue /\ d.pushed = c.pushed /\ d.written = c.written
    BY <1>1, <1>2 DEF Conns, r, P
  <1>7. StagePart(d, late)
    <2>0. StagePart(c, late)
      BY DEF Whole
    <2>1. Single(d.ready, d.pending, Chain)
      BY <1>4, <1>6, <2>0 DEF StagePart
    <2>2. \A n \in {"dns", "con"} :
            /\ Single(d.ready, {}, {n}) /\ (Some(d.ready, {}, {n}) => Some(c.ready, {}, {n}))
            /\ <<n, 0>> \in d.armed => <<n, 0>> \in c.armed
      BY <1>5, <1>6, <2>0 DEF StagePart, Fired
    <2>3. \A k \in {"handle_resolve", "handle_connect"} :
            Some(d.ready, d.pending, {k}) => Some(c.ready, c.pending, {k})
      BY <1>4, <1>6
    <2> QED BY <1>6, <2>0, <2>1, <2>2, <2>3, StageKept
  <1>8. WritePart(d)
    BY <1>4, <1>6 DEF Whole, WritePart, OneWrite
  <1>9. Sound(d, where)
    <2>0. Sound(c, where)
      BY DEF Whole
    <2>1. ToldPart(d)
      BY <1>6, <2>0 DEF Sound, ToldPart
    <2>2. OrderPart(d)
      BY <1>6, <2>0 DEF Sound, OrderPart
    <2>3. WakePart(d, where)
      BY <1>5, <1>6, <2>0 DEF Sound, WakePart
    <2>4. ClosePart(d, where)
      BY <1>6, <2>0 DEF Sound, ClosePart
    <2> QED BY <2>1, <2>2, <2>3, <2>4 DEF Sound
  <1> QED BY <1>2, <1>6, <1>7, <1>8, <1>9 DEF Whole

\* What an operation may end with.
LEMMA EndedIsHandler ==
  ASSUME NEW p \in Ops, OpEnds(p)
  PROVE  \E ec, pieces : Handler(p.h, ec, pieces) \in Handlers /\ Ends(p, ec, pieces)
  <1>0. p.h \in Names /\ (p.h = "handle_read_http_response" => p.op = "read")
    BY DEF Ops, Names
  <1>1. CASE p.op = "read" /\ ReadEnds(p)
    <2>1. PICK msgs \in Batches :
            LET pieces == IF p.h = "handle_read_frame" THEN msgs ELSE <<"accepted">> \o msgs
            IN  pieces # <<>> /\ Ends(p, "ok", pieces)
      BY <1>1 DEF ReadEnds
    <2> DEFINE pieces == IF p.h = "handle_read_frame" THEN msgs ELSE <<"accepted">> \o msgs
    <2>2. Ends(p, "ok", pieces)
      BY <2>1
    <2>3. msgs \in Seq(Kinds) /\ msgs \in Seq(Pieces)
      <3>1. "close" \in Kinds /\ Kinds \subseteq Pieces
        BY DEF Kinds, Pieces
      <3>2. msgs \in Seq(Kinds)
        <4>1. CASE msgs = <<>>
          BY <4>1
        <4>2. ASSUME NEW m \in Kinds, msgs = <<m>> PROVE msgs \in Seq(Kinds)
          BY <4>2
        <4>3. ASSUME NEW m \in Kinds, msgs = <<"close", m>> PROVE msgs \in Seq(Kinds)
          BY <3>1, <4>3
        <4> QED BY <4>1, <4>2, <4>3 DEF Batches
      <3> QED BY <3>1, <3>2, SeqMonotonic
    <2> DEFINE first == <<"accepted">>
    <2>4. first \in Seq(Pieces) /\ Len(first) = 1 /\ first[1] = "accepted"
      BY DEF Pieces
    <2> HIDE DEF first
    <2> DEFINE all == first \o msgs
    <2>5. all \in Seq(Pieces) /\ Len(all) = 1 + Len(msgs) /\ all[1] = "accepted" /\ Len(msgs) \in Nat
      BY <2>3, <2>4, ConcatProperties, LenProperties
    <2>6. \A i \in 1..Len(msgs) : all[i + 1] = msgs[i]
      <3>1. \A i \in 1..Len(first) + Len(msgs) :
              all[i] = IF i <= Len(first) THEN first[i] ELSE msgs[i - Len(first)]
        BY <2>3, <2>4, ConcatProperties
      <3> HIDE DEF all
      <3> QED BY <2>4, <2>5, <3>1
    <2> HIDE DEF all
    <2>7. all # <<>> /\ Head(all) = "accepted"
      BY <2>5, HeadTailProperties
    <2>8. Tail(all) = msgs
      <3>1. /\ Tail(all) \in Seq(Pieces) /\ Len(Tail(all)) = Len(msgs)
            /\ \A i \in 1..Len(msgs) : Tail(all)[i] = msgs[i]
        BY <2>5, <2>6, <2>7, HeadTailProperties
      <3> QED BY <2>3, <3>1, SeqEqual
    <2>9. pieces \in Seq(Pieces) /\ (p.h = "handle_read_frame" => pieces \in Batches)
          /\ (p.h = "handle_read_http_response" => Response(pieces))
      BY <2>3, <2>5, <2>7, <2>8 DEF Response, all, first
    <2> HIDE DEF pieces
    <2>10. Handler(p.h, "ok", pieces) \in Handlers
      BY <1>0, <2>9 DEF Handler, Handlers, Codes
    <2> QED BY <2>2, <2>10
  <1>2. CASE p.op = "read" /\ ResponseFails(p)
    <2>1. PICK resp \in {"malformed", "partial", "refused"} : Ends(p, "ok", <<resp>>)
      BY <1>2 DEF ResponseFails
    <2>2. p.h = "handle_read_http_response" /\ <<resp>> \in Seq(Pieces)
      BY <1>2 DEF ResponseFails, Pieces
    <2>3. Handler(p.h, "ok", <<resp>>) \in Handlers
      BY <1>0, <2>2 DEF Handler, Handlers, Codes, Response
    <2> QED BY <2>1, <2>3
  <1>3. CASE p.op = "read" /\ Ends(p, "eof", <<>>)
    <2>1. Handler(p.h, "eof", <<>>) \in Handlers
      BY <1>0 DEF Handler, Handlers, Codes
    <2> QED BY <1>3, <2>1
  <1>4. CASE p.op # "read" /\ \E ec \in {"ok", "error"} : Ends(p, ec, <<>>)
    <2>1. PICK ec \in {"ok", "error"} : Ends(p, ec, <<>>)
      BY <1>4
    <2>2. p.h # "handle_read_http_response"
      BY <1>0, <1>4
    <2>3. Handler(p.h, ec, <<>>) \in Handlers
      BY <1>0, <2>2 DEF Handler, Handlers, Codes, Batches
    <2> QED BY <2>1, <2>3
  <1> QED BY <1>1, <1>2, <1>3, <1>4 DEF OpEnds

\* An operation of the system ends.
LEMMA OpStep == ASSUME IInv, NEW p \in pending, OpEnds(p) PROVE IInv'
  <1>1. Whole(Con, overdue, sender) /\ Con \in Conns /\ pending \subseteq Ops
    BY ConIs DEF IInv, Whole, Conns
  <1>2. PICK ec, pieces : Handler(p.h, ec, pieces) \in Handlers /\ Ends(p, ec, pieces)
    BY <1>1, EndedIsHandler
  <1> DEFINE e == Handler(p.h, ec, pieces)
             d == [Con EXCEPT !.pending = Con.pending \ {p}, !.ready = Append(Con.ready, e)]
  <1>3. e.h = p.h
    BY DEF Handler
  <1>4. Whole(d, overdue, sender)
    BY <1>1, <1>2, <1>3, ConIs, EndWaitWhole
  <1>5. Con' = d
    <2> DEFINE P == pending \ {p}
               r == Append(ready, e)
    <2>1. /\ state' = state /\ istate' = istate /\ timer' = timer /\ flag' = flag
          /\ current' = current /\ queue' = queue /\ clean' = clean
          /\ ready' = r /\ pending' = P /\ armed' = armed
          /\ answers' = answers /\ told' = told /\ pushed' = pushed /\ written' = written
      BY <1>2 DEF Ends, conn
    <2>2. d = [Con EXCEPT !.pending = P, !.ready = r]
      BY ConIs
    <2> HIDE DEF P, r, d
    <2> QED BY <2>1, <2>2 DEF Con
  <1>6. overdue' = overdue /\ sender' = sender
    BY <1>2 DEF Ends
  <1> HIDE DEF d
  <1> QED BY <1>4, <1>5, <1>6 DEF IInv, SenderPart

\* The time of a timer comes.
LEMMA DueWhole ==
  ASSUME NEW c, NEW late, NEW more, NEW where, Whole(c, late, where), late \subseteq more
  PROVE  Whole(c, more, where)
  <1>1. StagePart(c, more)
    BY DEF Whole, StagePart, Fired
  <1> QED BY <1>1 DEF Whole

\* The time of a timer comes.
LEMMA DueStep == ASSUME IInv, NEW t \in armed, TimerIsDue(t) PROVE IInv'
  <1>1. Whole(Con, overdue \cup {t}, sender)
    BY DueWhole DEF IInv
  <1>2. Con' = Con /\ overdue' = overdue \cup {t} /\ sender' = sender
    BY DEF TimerIsDue, Con, conn, hist
  <1> QED BY <1>1, <1>2 DEF IInv, SenderPart

\* A timer whose time has come is seen by the reactor: its handler is queued, once.
LEMMA FireWhole ==
  ASSUME NEW c, NEW late, NEW where, Whole(c, late, where), NEW t \in c.armed, t \in late,
         NEW d, d = [c EXCEPT !.armed = c.armed \ {t},
                              !.ready = Append(c.ready, Handler(t[1], "ok", <<>>))]
  PROVE  Whole(d, late, where)
  <1> DEFINE e == Handler(t[1], "ok", <<>>)
             r == Append(c.ready, e)
             A == c.armed \ {t}
  <1>1. c \in Conns /\ c.ready \in Seq(Handlers) /\ IsFiniteSet(c.pending) /\ c.armed \subseteq Timers
    BY DEF Whole, Conns
  <1>2. /\ t[1] \in {"dns", "con", "open", "close"} /\ e.h = t[1] /\ e \in Handlers
        /\ t[1] = "dns" => t = <<"dns", 0>>
        /\ t[1] = "con" => t = <<"con", 0>>
    <2>1. /\ t[1] \in {"dns", "con", "open", "close"}
          /\ t[1] = "dns" => t = <<"dns", 0>>
          /\ t[1] = "con" => t = <<"con", 0>>
      BY <1>1 DEF Timers, DnsTimer, ConTimer, OpenTimer
    <2>2. e.h = t[1] /\ e \in Handlers
      BY <2>1 DEF Handler, Handlers, Names, Codes
    <2> QED BY <2>1, <2>2
  <1>3. r \in Seq(Handlers) /\ A \in SUBSET Timers /\ A \subseteq c.armed
    BY <1>1, <1>2, AppendProperties
  <1>4. ASSUME NEW P, NEW X, e.h \notin X
        PROVE  /\ Some(r, P, X) <=> Some(c.ready, P, X)
               /\ Single(c.ready, P, X) => Single(r, P, X)
    BY <1>1, <1>4, AppendedIs
  <1>5. ASSUME NEW n, e.h = n
        PROVE  /\ Some(r, {}, {n})
               /\ ~Some(c.ready, {}, {n}) => Single(r, {}, {n})
    BY <1>1, <1>5, AppendedIs
  <1> HIDE DEF r, A, e
  <1>6. /\ d \in Conns /\ d.pending = c.pending /\ d.ready = r /\ d.armed = A
        /\ d.answers = c.answers /\ d.flag = c.flag /\ d.current = c.current /\ d.state = c.state
        /\ d.istate = c.istate /\ d.told = c.told
        /\ d.queue = c.queue /\ d.pushed = c.pushed /\ d.written = c.written
    BY <1>1, <1>3 DEF Conns, r, A, e
  <1>7. e.h \notin Chain /\ e.h \notin Writing /\ e.h \notin {"write_frame"}
        /\ e.h \notin {"handle_resolve"} /\ e.h \notin {"handle_connect"}
    BY <1>2 DEF Chain, Writing
  <1>8. StagePart(d, late)
    <2>0. StagePart(c, late)
      BY DEF Whole
    <2>1. ASSUME NEW n \in {"dns", "con"}
          PROVE  Fired(d, late, n) /\ (Live(d, n) <=> Live(c, n))
      <3>0. Fired(c, late, n)
        BY <2>0 DEF StagePart
      <3>1. CASE e.h = n
        <4>1. t = <<n, 0>>
          BY <1>2, <3>1
        <4>2. ~Some(c.ready, {}, {n})
          BY <3>0, <4>1 DEF Fired
        <4>3. Some(r, {}, {n}) /\ Single(r, {}, {n})
          BY <1>5, <3>1, <4>2
        <4> QED BY <1>6, <4>1, <4>3 DEF Fired, Live, A
      <3>2. CASE e.h # n
        <4>1. t # <<n, 0>>
          BY <1>2, <3>2
        <4>2. /\ Some(r, {}, {n}) <=> Some(c.ready, {}, {n})
              /\ Single(c.ready, {}, {n}) => Single(r, {}, {n})
          BY <1>4, <3>2
        <4>3. <<n, 0>> \in A <=> <<n, 0>> \in c.armed
          BY <4>1 DEF A
        <4> QED BY <1>6, <3>0, <4>2, <4>3 DEF Fired, Live
      <3> QED BY <3>1, <3>2
    <2>2. /\ Fired(d, late, "dns") /\ (Live(d, "dns") <=> Live(c, "dns"))
          /\ Fired(d, late, "con") /\ (Live(d, "con") <=> Live(c, "con"))
      BY <2>1
    <2>3. /\ Single(d.ready, d.pending, Chain)
          /\ Some(d.ready, d.pending, {"handle_resolve"}) <=>
               Some(c.ready, c.pending, {"handle_resolve"})
          /\ Some(d.ready, d.pending, {"handle_connect"}) <=>
               Some(c.ready, c.pending, {"handle_connect"})
      BY <1>4, <1>6, <1>7, <2>0 DEF StagePart
    <2> QED BY <1>6, <2>0, <2>2, <2>3 DEF StagePart
  <1>9. WritePart(d)
    BY <1>4, <1>6, <1>7 DEF Whole, WritePart, OneWrite
  <1>10. Sound(d, where)
    <2>0. Sound(c, where)
      BY DEF Whole
    <2>1. ToldPart(d)
      BY <1>6, <2>0 DEF Sound, ToldPart
    <2>2. OrderPart(d)
      BY <1>6, <2>0 DEF Sound, OrderPart
    <2>3. WakePart(d, where)
      BY <1>4, <1>6, <1>7, <2>0 DEF Sound, WakePart
    <2>4. ClosePart(d, where)
      BY <1>6, <2>0 DEF Sound, ClosePart
    <2> QED BY <2>1, <2>2, <2>3, <2>4 DEF Sound
  <1> QED BY <1>1, <1>6, <1>8, <1>9, <1>10 DEF Whole

\* TimerFires.
LEMMA FireStep == ASSUME IInv, NEW t \in armed, TimerFires(t) PROVE IInv'
  <1> DEFINE d == [Con EXCEPT !.armed = Con.armed \ {t},
                              !.ready = Append(Con.ready, Handler(t[1], "ok", <<>>))]
  <1>1. Whole(Con, overdue, sender) /\ t \in Con.armed /\ t \in overdue
    BY ConIs DEF IInv, TimerFires
  <1>2. Whole(d, overdue, sender)
    BY <1>1, FireWhole
  <1>3. Con' = d
    <2> DEFINE A == armed \ {t}
               r == Append(ready, Handler(t[1], "ok", <<>>))
    <2>1. /\ state' = state /\ istate' = istate /\ timer' = timer /\ flag' = flag
          /\ current' = current /\ queue' = queue /\ clean' = clean
          /\ ready' = r /\ pending' = pending /\ armed' = A
          /\ answers' = answers /\ told' = told /\ pushed' = pushed /\ written' = written
      BY DEF TimerFires, conn, hist
    <2>2. d = [Con EXCEPT !.armed = A, !.ready = r]
      BY ConIs
    <2> HIDE DEF A, r, d
    <2> QED BY <2>1, <2>2 DEF Con
  <1>4. overdue' = overdue /\ sender' = sender
    BY DEF TimerFires
  <1> HIDE DEF d
  <1> QED BY <1>2, <1>3, <1>4 DEF IInv, SenderPart

-----------------------------------------------------------------------------
(***************************************************************************)
(* send() by another thread.                                               *)
(***************************************************************************)
\* SendChecks: while the connection is open no close frame has been pushed.
LEMMA CheckStep == ASSUME IInv, NEW s \in Senders, SendChecks(s) PROVE IInv'
  <1> DEFINE where == [sender EXCEPT ![s] = "checked"]
  <1>1. /\ Con' = Con /\ overdue' = overdue /\ sender' = where
        /\ state = "open" /\ sender[s] = "idle"
    BY DEF SendChecks, Con, conn, io, hist
  <1>2. where \in [Senders -> {"idle", "checked", "posting"}]
        /\ \A k \in Senders : sender[k] = "posting" => where[k] = "posting"
    BY <1>1 DEF IInv, SenderPart
  <1> HIDE DEF where
  <1>3. Sound(Con, where)
    <2>1. Sound(Con, sender) /\ Con.state = "open"
      BY <1>1, ConIs DEF IInv, Whole
    <2>2. WakePart(Con, where)
      BY <1>2, <2>1 DEF Sound, WakePart
    <2>3. ClosePart(Con, where)
      BY <2>1 DEF Sound, ClosePart
    <2> QED BY <2>1, <2>2, <2>3 DEF Sound
  <1>4. Whole(Con, overdue, where)
    BY <1>3 DEF IInv, Whole
  <1> QED BY <1>1, <1>2, <1>4 DEF IInv, SenderPart

\* A thread that had found the connection open pushes its message, however late.
LEMMA PushWhole ==
  ASSUME NEW c, NEW late, NEW where, Whole(c, late, where), NEW s \in Senders,
         where[s] = "checked", NEW to,
         \A k \in Senders : k # s => to[k] = where[k],
         to[s] = IF c.flag THEN "idle" ELSE "posting",
         NEW m, m = Message("data", s, FALSE),
         NEW d, d = [c EXCEPT !.queue = Append(c.queue, m), !.pushed = Append(c.pushed, m)]
  PROVE  Whole(d, late, to)
  <1> DEFINE p == c.pushed
             q == Append(c.queue, m)
             u == Append(p, m)
  <1>1. c \in Conns /\ c.queue \in Seq(Texts) /\ p \in Seq(Texts)
    BY DEF Whole, Conns
  <1>2. m \in Texts /\ m.kind = "data" /\ m.by = s
    BY DEF Message, Texts
  <1>3. q \in Seq(Texts) /\ u \in Seq(Texts)
    BY <1>1, <1>2, AppendProperties
  <1>4. /\ Len(p) \in Nat /\ Len(u) = Len(p) + 1 /\ u[Len(u)] = m
        /\ \A i \in 1..Len(p) : u[i] = p[i]
    <2>1. p \in Seq(Texts) /\ Len(p) \in Nat /\ m \in Texts
      BY <1>1, <1>2, LenProperties
    <2>2. ASSUME NEW x \in Seq(Texts), NEW y \in Texts
          PROVE  /\ Len(Append(x, y)) = Len(x) + 1 /\ Append(x, y)[Len(x) + 1] = y
                 /\ \A i \in 1..Len(x) : Append(x, y)[i] = x[i]
      BY AppendProperties
    <2> HIDE DEF p
    <2>3. /\ Len(u) = Len(p) + 1 /\ u[Len(p) + 1] = m
          /\ \A i \in 1..Len(p) : u[i] = p[i]
      BY <2>1, <2>2
    <2> HIDE DEF u
    <2> QED BY <2>1, <2>3
  <1> HIDE DEF p, q, u
  <1>5. /\ d \in Conns /\ d.pending = c.pending /\ d.ready = c.ready /\ d.armed = c.armed
        /\ d.answers = c.answers /\ d.flag = c.flag /\ d.current = c.current /\ d.state = c.state
        /\ d.istate = c.istate /\ d.told = c.told
        /\ d.queue = q /\ d.pushed = u /\ d.written = c.written
    BY <1>1, <1>3 DEF Conns, p, q, u
  <1>6. StagePart(d, late)
    BY <1>5 DEF Whole, StagePart, Live, Fired
  <1>7. WritePart(d)
    BY <1>5 DEF Whole, WritePart, OneWrite
  <1>8. ToldPart(d)
    BY <1>5 DEF Whole, Sound, ToldPart
  <1>9. WakePart(d, to)
    BY <1>5 DEF WakePart
  <1>10. OrderPart(d)
    <2> SUFFICES ASSUME c.state # "closed" PROVE u = c.written \o c.current \o q
      BY <1>5 DEF OrderPart
    <2>1. p = c.written \o c.current \o c.queue
      BY DEF Whole, Sound, OrderPart, p
    <2> DEFINE a == c.written \o c.current
               b == c.queue
    <2>2. a \in Seq(Texts) /\ b \in Seq(Texts)
      BY <1>1, ConcatProperties DEF Conns
    <2>3. p = a \o b
      BY <2>1
    <2> HIDE DEF a, b
    <2>4. Append(a \o b, m) = a \o Append(b, m)
      <3>1. AppendsToSecond(Texts)
        BY AppendToConcat
      <3> HIDE DEF p
      <3> QED BY <1>2, <2>2, <3>1 DEF AppendsToSecond
    <2> QED BY <2>3, <2>4 DEF u, q, a, b
  <1>11. ClosePart(d, to)
    <2>0. /\ \A i \in 1..Len(p) : p[i].kind = "close" => c.state \in {"closing", "closed"}
          /\ \A i, j \in 1..Len(p) :
               i < j /\ p[i].kind = "close" => p[j].kind = "close" \/ Late(p, where, j)
      BY DEF Whole, Sound, ClosePart, p
    <2>1. \A i \in 1..Len(u) : i \in 1..Len(p) \/ (i = Len(u) /\ i = Len(p) + 1)
      BY <1>4
    <2>2. \A i \in 1..Len(u) : u[i].kind = "close" => d.state \in {"closing", "closed"}
      <3> SUFFICES ASSUME NEW i \in 1..Len(u), u[i].kind = "close"
                   PROVE  d.state \in {"closing", "closed"}
        OBVIOUS
      <3>1. i # Len(u)
        BY <1>2, <1>4
      <3>2. i \in 1..Len(p) /\ p[i].kind = "close"
        BY <1>4, <2>1, <3>1
      <3> QED BY <1>5, <2>0, <3>2
    <2>3. ASSUME NEW i \in 1..Len(u), NEW j \in 1..Len(u), i < j, u[i].kind = "close"
          PROVE  u[j].kind = "close" \/ Late(u, to, j)
      <3>1. CASE j = Len(u)
        <4>1. \A k \in 1..Len(u) : ~(j < k)
          BY <1>4, <3>1
        <4>2. to[s] # "checked"
          OBVIOUS
        <4> QED BY <1>2, <1>4, <3>1, <4>1, <4>2 DEF Late
      <3>2. CASE j \in 1..Len(p)
        <4>1. i \in 1..Len(p)
          BY <1>4, <2>3, <3>2
        <4>2. u[i] = p[i] /\ u[j] = p[j]
          BY <1>4, <3>2, <4>1
        <4>3. ASSUME Late(p, where, j) PROVE Late(u, to, j)
          <5>1. p[j].kind = "data" /\ p[j].by \in Senders /\ where[p[j].by] # "checked"
            BY <4>3 DEF Late
          <5>2. p[j].by # s
            BY <5>1
          <5>3. to[p[j].by] # "checked"
            BY <5>1, <5>2
          <5>4. \A k \in 1..Len(u) : j < k => u[k].by # p[j].by
            <6> SUFFICES ASSUME NEW k \in 1..Len(u), j < k PROVE u[k].by # p[j].by
              OBVIOUS
            <6>1. CASE k \in 1..Len(p)
              BY <1>4, <4>3, <6>1 DEF Late
            <6>2. CASE k = Len(u)
              BY <1>2, <1>4, <5>2, <6>2
            <6> QED BY <2>1, <6>1, <6>2
          <5> QED BY <4>2, <5>1, <5>3, <5>4 DEF Late
        <4> QED BY <2>0, <2>3, <3>2, <4>1, <4>2, <4>3
      <3> QED BY <2>1, <3>1, <3>2
    <2> QED BY <1>5, <2>2, <2>3 DEF ClosePart
  <1> QED BY <1>5, <1>6, <1>7, <1>8, <1>9, <1>10, <1>11 DEF Whole, Sound

\* SendPushes.
LEMMA PushStep == ASSUME IInv, NEW s \in Senders, SendPushes(s) PROVE IInv'
  <1> DEFINE m == Message("data", s, FALSE)
             where == [sender EXCEPT ![s] = IF flag THEN "idle" ELSE "posting"]
             d == [Con EXCEPT !.queue = Append(Con.queue, m), !.pushed = Append(Con.pushed, m)]
  <1>1. sender[s] = "checked" /\ overdue' = overdue /\ sender' = where
    BY DEF SendPushes, io
  <1>2. /\ where \in [Senders -> {"idle", "checked", "posting"}]
        /\ \A k \in Senders : k # s => where[k] = sender[k]
        /\ where[s] = IF Con.flag THEN "idle" ELSE "posting"
    BY ConIs DEF IInv, SenderPart
  <1>3. Whole(d, overdue, where)
    <2>1. Whole(Con, overdue, sender)
      BY DEF IInv
    <2> HIDE DEF where
    <2> QED BY <1>1, <1>2, <2>1, PushWhole
  <1>4. Con' = d
    <2> DEFINE q == Append(queue, m)
               u == Append(pushed, m)
    <2>1. /\ state' = state /\ istate' = istate /\ timer' = timer /\ flag' = flag
          /\ current' = current /\ queue' = q /\ clean' = clean
          /\ ready' = ready /\ pending' = pending /\ armed' = armed
          /\ answers' = answers /\ told' = told /\ pushed' = u /\ written' = written
      BY DEF SendPushes, io
    <2>2. d = [Con EXCEPT !.queue = q, !.pushed = u]
      BY ConIs
    <2> HIDE DEF q, u, d
    <2> QED BY <2>1, <2>2 DEF Con
  <1> HIDE DEF d, where
  <1> QED BY <1>1, <1>2, <1>3, <1>4 DEF IInv, SenderPart

\* It posts write_frame.
LEMMA PostWhole ==
  ASSUME NEW c, NEW late, NEW where, Whole(c, late, where), NEW to,
         NEW s \in Senders, \A k \in Senders : k # s => to[k] = where[k], to[s] # "checked",
         NEW d, d = Post(c, "write_frame")
  PROVE  Whole(d, late, to)
  <1> DEFINE e == Handler("write_frame", "ok", <<>>)
             r == Append(c.ready, e)
  <1>1. c \in Conns /\ c.ready \in Seq(Handlers) /\ e.h = "write_frame"
    BY DEF Whole, Conns, Handler
  <1>2. d \in Conns /\ d = [c EXCEPT !.ready = r]
    BY <1>1, PostIs
  <1> HIDE DEF e
  <1>3. ASSUME NEW P, NEW X, "write_frame" \notin X
        PROVE  /\ Some(r, P, X) <=> Some(c.ready, P, X)
               /\ Single(c.ready, P, X) => Single(r, P, X)
    BY <1>1, <1>3, AppendedIs
  <1>4. Some(r, {}, {"write_frame"})
    BY <1>1, AppendedIs
  <1> HIDE DEF r
  <1>5. /\ d.pending = c.pending /\ d.ready = r /\ d.armed = c.armed
        /\ d.answers = c.answers /\ d.flag = c.flag /\ d.current = c.current /\ d.state = c.state
        /\ d.istate = c.istate /\ d.told = c.told
        /\ d.queue = c.queue /\ d.pushed = c.pushed /\ d.written = c.written
    BY <1>1, <1>2 DEF Conns
  <1>6. StagePart(d, late)
    <2>0. StagePart(c, late)
      BY DEF Whole
    <2>1. Single(d.ready, d.pending, Chain)
      BY <1>3, <1>5, <2>0 DEF StagePart, Chain
    <2>2. \A n \in {"dns", "con"} :
            /\ Single(d.ready, {}, {n}) /\ (Some(d.ready, {}, {n}) => Some(c.ready, {}, {n}))
            /\ <<n, 0>> \in d.armed => <<n, 0>> \in c.armed
      <3>1. Single(c.ready, {}, {"dns"}) /\ Single(c.ready, {}, {"con"})
        BY <2>0 DEF StagePart, Fired
      <3>2. "write_frame" \notin {"dns"} /\ "write_frame" \notin {"con"}
        OBVIOUS
      <3> QED BY <1>3, <1>5, <3>1, <3>2
    <2>3. \A h \in {"handle_resolve", "handle_connect"} :
            Some(d.ready, d.pending, {h}) => Some(c.ready, c.pending, {h})
      BY <1>3, <1>5
    <2> QED BY <1>5, <2>0, <2>1, <2>2, <2>3, StageKept
  <1>7. WritePart(d)
    <2>1. "write_frame" \notin Writing
      BY DEF Writing
    <2> QED BY <1>3, <1>5, <2>1 DEF Whole, WritePart, OneWrite
  <1>8. Sound(d, to)
    <2>0. Sound(c, where)
      BY DEF Whole
    <2>1. ToldPart(d)
      BY <1>5, <2>0 DEF Sound, ToldPart
    <2>2. OrderPart(d)
      BY <1>5, <2>0 DEF Sound, OrderPart
    <2>3. WakePart(d, to)
      BY <1>4, <1>5 DEF WakePart
    <2>4. ClosePart(d, to)
      <3> DEFINE p == c.pushed
      <3>1. \A j \in 1..Len(p) : Late(p, where, j) => Late(p, to, j)
        BY DEF Late
      <3>2. ClosePart(c, where)
        BY <2>0 DEF Sound
      <3> QED BY <1>5, <3>1, <3>2 DEF ClosePart
    <2> QED BY <2>1, <2>2, <2>3, <2>4 DEF Sound
  <1> QED BY <1>2, <1>5, <1>6, <1>7, <1>8 DEF Whole

\* SendPosts.
LEMMA PostStep == ASSUME IInv, NEW s \in Senders, SendPosts(s) PROVE IInv'
  <1> DEFINE where == [sender EXCEPT ![s] = "idle"]
             d == Post(Con, "write_frame")
  <1>1. overdue' = overdue /\ sender' = where
    BY DEF SendPosts
  <1>2. /\ where \in [Senders -> {"idle", "checked", "posting"}]
        /\ \A k \in Senders : k # s => where[k] = sender[k]
        /\ where[s] # "checked"
    BY DEF IInv, SenderPart
  <1> HIDE DEF where
  <1>3. Whole(d, overdue, where)
    BY <1>2, PostWhole DEF IInv
  <1>4. Con' = d
    <2> DEFINE r == Append(ready, Handler("write_frame", "ok", <<>>))
    <2>1. /\ state' = state /\ istate' = istate /\ timer' = timer /\ flag' = flag
          /\ current' = current /\ queue' = queue /\ clean' = clean
          /\ ready' = r /\ pending' = pending /\ armed' = armed
          /\ answers' = answers /\ told' = told /\ pushed' = pushed /\ written' = written
      BY DEF SendPosts, conn, hist
    <2>2. d = [Con EXCEPT !.ready = r]
      BY ConIs DEF Post
    <2> HIDE DEF r, d
    <2> QED BY <2>1, <2>2 DEF Con
  <1> HIDE DEF d
  <1> QED BY <1>1, <1>2, <1>3, <1>4 DEF IInv, SenderPart

-----------------------------------------------------------------------------
(***************************************************************************)
(* The theorems.                                                           *)
(***************************************************************************)
\* client::connect leaves the invariant true.
LEMMA InitIInv == Init => IInv
  <1> SUFFICES ASSUME Init PROVE IInv
    OBVIOUS
  <1> DEFINE o == [op |-> "resolve", h |-> "handle_resolve"]
             P == {o}
             A == {DnsTimer}
  <1>1. /\ Con.state = "connecting" /\ Con.istate = "USER_INIT" /\ Con.timer = None
        /\ Con.flag = FALSE /\ Con.current = <<>> /\ Con.queue = <<>> /\ Con.clean = FALSE
        /\ Con.ready = <<>> /\ Con.pending = P /\ Con.armed = A /\ Con.answers = <<>>
        /\ Con.told = <<>> /\ Con.pushed = <<>> /\ Con.written = <<>>
    BY ConIs DEF Init
  <1>2. o \in Ops /\ o.h = "handle_resolve"
    BY DEF Ops, Chain
  <1>3. P \in SUBSET Ops /\ IsFiniteSet(P)
    BY <1>2, FS_Singleton
  <1>4. A \in SUBSET Timers
    BY DEF Timers
  <1>5. Con \in Conns
    <2>1. /\ state \in {"connecting", "open", "closing", "closed"}
          /\ istate \in {"USER_INIT", "WRITE_HTTP_REQUEST", "READ_HTTP_RESPONSE", "PROCESS_CONNECTION"}
          /\ timer \in Timers \cup {None} /\ flag \in BOOLEAN /\ current \in Seq(Texts)
          /\ queue \in Seq(Texts) /\ clean \in BOOLEAN /\ ready \in Seq(Handlers)
          /\ pending \in SUBSET Ops /\ armed \in SUBSET Timers
          /\ answers \in Seq(Codes \cup {"timeout"}) /\ told \in Seq(Says4)
          /\ pushed \in Seq(Texts) /\ written \in Seq(Texts)
      <3>1. \A S : <<>> \in Seq(S)
        OBVIOUS
      <3>2. /\ current \in Seq(Texts) /\ queue \in Seq(Texts) /\ ready \in Seq(Handlers)
            /\ answers \in Seq(Codes \cup {"timeout"}) /\ told \in Seq(Says4)
            /\ pushed \in Seq(Texts) /\ written \in Seq(Texts)
        BY <1>1, <3>1, ConIs
      <3>3. /\ state \in {"connecting", "open", "closing", "closed"}
            /\ istate \in {"USER_INIT", "WRITE_HTTP_REQUEST", "READ_HTTP_RESPONSE",
                          "PROCESS_CONNECTION"}
            /\ timer \in Timers \cup {None} /\ flag \in BOOLEAN /\ clean \in BOOLEAN
            /\ pending \in SUBSET Ops /\ armed \in SUBSET Timers
        <4> HIDE DEF P, A
        <4> QED BY <1>1, <1>3, <1>4, ConIs
      <3> QED BY <3>2, <3>3
    <2> QED BY <2>1 DEF Con, Conns
  <1>6. \A X : Single(<<>>, P, X) /\ (Some(<<>>, P, X) <=> "handle_resolve" \in X)
    BY <1>2 DEF Single, Some
  <1>7. \A X : Single(<<>>, {}, X) /\ ~Some(<<>>, {}, X)
    BY DEF Single, Some
  <1> HIDE DEF P, A, o
  <1>8. StagePart(Con, overdue)
    <2>1. ~Live(Con, "con")
      BY <1>1, <1>7 DEF Live, A, DnsTimer
    <2>2. Fired(Con, overdue, "dns") /\ Fired(Con, overdue, "con")
      BY <1>1, <1>7 DEF Fired
    <2>3. ~Some(Con.ready, Con.pending, {"handle_connect"})
      BY <1>1, <1>6
    <2>4. Single(Con.ready, Con.pending, Chain)
      BY <1>1, <1>6
    <2>5. Con.answers = <<>> /\ Len(Con.answers) <= 1
      BY <1>1
    <2> QED BY <2>1, <2>2, <2>3, <2>4, <2>5 DEF StagePart
  <1>9. WritePart(Con)
    <2>1. Single(Con.ready, Con.pending, Writing) /\ ~Some(Con.ready, Con.pending, Writing)
      BY <1>1, <1>6 DEF Writing
    <2> QED BY <1>1, <2>1 DEF WritePart, OneWrite
  <1>10. Sound(Con, sender)
    <2>1. ToldPart(Con)
      BY <1>1 DEF ToldPart
    <2>2. OrderPart(Con)
      BY <1>1 DEF OrderPart
    <2>3. WakePart(Con, sender) /\ ClosePart(Con, sender)
      BY <1>1 DEF WakePart, ClosePart
    <2> QED BY <2>1, <2>2, <2>3 DEF Sound
  <1>11. SenderPart
    BY DEF Init, SenderPart
  <1> QED BY <1>1, <1>3, <1>5, <1>8, <1>9, <1>10, <1>11 DEF IInv, Whole

\* Every step keeps it.
LEMMA NextIInv == IInv /\ [Next]_vars => IInv'
  <1> SUFFICES ASSUME IInv, [Next]_vars PROVE IInv'
    OBVIOUS
  <1>1. CASE Run
    BY <1>1, RunStep
  <1>2. ASSUME NEW p \in pending, OpEnds(p) PROVE IInv'
    BY <1>2, OpStep
  <1>3. ASSUME NEW t \in armed, TimerIsDue(t) PROVE IInv'
    BY <1>3, DueStep
  <1>4. ASSUME NEW t \in armed, TimerFires(t) PROVE IInv'
    BY <1>4, FireStep
  <1>5. ASSUME NEW s \in Senders, SendChecks(s) PROVE IInv'
    BY <1>5, CheckStep
  <1>6. ASSUME NEW s \in Senders, SendPushes(s) PROVE IInv'
    BY <1>6, PushStep
  <1>7. ASSUME NEW s \in Senders, SendPosts(s) PROVE IInv'
    BY <1>7, PostStep
  <1>8. CASE UNCHANGED vars
    <2>1. Con' = Con /\ overdue' = overdue /\ sender' = sender
      BY <1>8 DEF vars, conn, io, hist, Con
    <2> QED BY <2>1 DEF IInv, SenderPart
  <1> QED BY <1>1, <1>2, <1>3, <1>4, <1>5, <1>6, <1>7, <1>8 DEF Next

\* The inductive invariant holds in every state.
THEOREM Sane == Spec => []IInv
  BY InitIInv, NextIInv, PTL DEF Spec

\* However timers and results cross, the callback of async_connect is called once at most,
\* and the user hears of one life, in order (terminate, handle_resolve, handle_connect and
\* their timeouts).
THEOREM Once == Spec => []ToldOnce
  <1>1. IInv => ToldOnce
    <2> SUFFICES ASSUME IInv PROVE ToldOnce
      OBVIOUS
    <2>1. Len(answers) <= 1
      BY ConIs DEF IInv, Whole, StagePart
    <2>2. told \in Seq(Says4) /\ Len(told) \in Nat
      BY ConIs, LenProperties DEF IInv, Whole, Conns
    <2>3. /\ state = "connecting" => told = <<>>
          /\ state \in {"open", "closing"} =>
               /\ Len(told) > 0 /\ told[1] = "open"
               /\ \A i \in 2..Len(told) : told[i] = "message"
          /\ state = "closed" =>
               \/ Len(told) = 1 /\ told[1] = "fail"
               \/ /\ Len(told) > 1 /\ told[1] = "open" /\ told[Len(told)] = "close"
                  /\ \A i \in 2..Len(told) - 1 : told[i] = "message"
      BY ConIs DEF IInv, Whole, Sound, ToldPart
    <2>4. CASE state = "connecting"
      BY <2>1, <2>3, <2>4 DEF ToldOnce, AnsweredOnce, ToldInOrder
    <2>5. CASE state \in {"open", "closing"}
      <3>1. told # <<>> /\ told[Len(told)] \notin {"fail", "close"}
        BY <2>2, <2>3, <2>5
      <3>2. ASSUME NEW i \in 1..Len(told)
            PROVE  /\ told[i] \in {"open", "fail"} <=> i = 1
                   /\ told[i] \in {"fail", "close"} => i = Len(told)
        BY <2>2, <2>3, <2>5
      <3> QED BY <2>1, <2>5, <3>1, <3>2 DEF ToldOnce, AnsweredOnce, ToldInOrder
    <2>6. CASE state = "closed"
      <3>1. told # <<>> /\ told[Len(told)] \in {"fail", "close"}
        BY <2>2, <2>3, <2>6
      <3>2. ASSUME NEW i \in 1..Len(told)
            PROVE  /\ told[i] \in {"open", "fail"} <=> i = 1
                   /\ told[i] \in {"fail", "close"} => i = Len(told)
        <4>1. CASE Len(told) = 1 /\ told[1] = "fail"
          BY <4>1
        <4>2. CASE /\ Len(told) > 1 /\ told[1] = "open" /\ told[Len(told)] = "close"
                   /\ \A k \in 2..Len(told) - 1 : told[k] = "message"
          <5>1. CASE i = 1
            BY <4>2, <5>1
          <5>2. CASE i = Len(told)
            BY <2>2, <4>2, <5>2
          <5>3. CASE i \in 2..Len(told) - 1
            BY <2>2, <4>2, <5>3
          <5> QED BY <2>2, <5>1, <5>2, <5>3
        <4> QED BY <2>3, <2>6, <4>1, <4>2
      <3> QED BY <2>1, <2>6, <3>1, <3>2 DEF ToldOnce, AnsweredOnce, ToldInOrder
    <2> QED BY <2>4, <2>5, <2>6, ConIs DEF IInv, Whole, Conns
  <1> QED BY <1>1, Sane, PTL

\* What waits to be written is waited for, and goes out in the order in which it was pushed
\* (write_frame, handle_write_frame and send, by m_write_flag).
THEOREM Waited == Spec => []NothingStranded
  <1>1. IInv => NothingStranded
    <2> SUFFICES ASSUME IInv, state # "closed"
                 PROVE  /\ queue # <<>> => \/ flag \/ Queued("write_frame")
                                           \/ \E s \in Senders : sender[s] = "posting"
                        /\ flag => UnderWay("handle_write_frame")
                        /\ pushed = written \o current \o queue
      BY DEF NothingStranded
    <2>1. WritePart(Con) /\ OrderPart(Con) /\ WakePart(Con, sender) /\ Con.state # "closed"
      BY ConIs DEF IInv, Whole, Sound
    <2>2. queue # <<>> => \/ flag \/ Queued("write_frame")
                          \/ \E s \in Senders : sender[s] = "posting"
      BY <2>1, ConIs DEF WakePart, Some, Queued
    <2>3. flag => UnderWay("handle_write_frame")
      BY <2>1, ConIs DEF WritePart, Some, UnderWay, Queued, Writing
    <2>4. pushed = written \o current \o queue
      BY <2>1, ConIs DEF OrderPart
    <2> QED BY <2>2, <2>3, <2>4
  <1> QED BY <1>1, Sane, PTL

\* After a close frame come only close frames and one message each of the threads that had
\* passed send()'s look at m_state before it (send, process_control_frame, send_close_frame).
THEOREM LastWord == Spec => []CloseIsLast
  <1>1. IInv => CloseIsLast
    <2> SUFFICES ASSUME IInv PROVE CloseIsLast
      OBVIOUS
    <2>1. /\ \A i, j \in 1..Len(pushed) :
               i < j /\ pushed[i].kind = "close" =>
                 pushed[j].kind = "close" \/ Late(pushed, sender, j)
          /\ Len(pushed) \in Nat
      BY ConIs, LenProperties DEF IInv, Whole, Sound, ClosePart, Conns
    <2>2. ASSUME NEW j \in 1..Len(pushed), Late(pushed, sender, j)
          PROVE  /\ pushed[j].kind = "data" /\ pushed[j].by \in Senders
                 /\ \A k \in j + 1..Len(pushed) : pushed[k].by # pushed[j].by
      <3>1. \A k \in j + 1..Len(pushed) : k \in 1..Len(pushed) /\ j < k
        BY <2>1
      <3> QED BY <2>2, <3>1 DEF Late
    <2> QED BY <2>1, <2>2 DEF CloseIsLast
  <1> QED BY <1>1, Sane, PTL

-----------------------------------------------------------------------------
(***************************************************************************)
(* The command thread of T4UDirect: one command under way.                 *)
(***************************************************************************)
\* An answer has come, and been read, before the thread's count of empty reads has come to
\* its limit: both for common commands and for a change of the rate.
Fast == 2 * Slow < TickLimit /\ AfterRate + 2 * SlowRate < TickLimit

Bytes == {"c1", "c2", "u1", "u2", "end"}

\* What is still to be read.
Unread == line \o coming

\* The end of an answer that was flushed may follow.
Leftovers == {<<>>, <<"end">>}

Answers == {<<"c1", "c2", "end">>, <<"u1", "u2", "end">>}

\* An answer, perhaps behind one.
Expected == {<<"c1", "c2", "end">>, <<"u1", "u2", "end">>,
             <<"end", "c1", "c2", "end">>, <<"end", "u1", "u2", "end">>}

\* The next command will not be sent before the answer to the last.
Patient == parse = "first" \/ (parse = "ticking" /\ ticks + 2 * due < TickLimit)

Silent   == toDevice = <<>> /\ parse \in {"ticking", "first"} /\ Unread \in Leftovers
Sent     == (\E c : toDevice = <<c>>) /\ Patient /\ Unread \in Leftovers
Replied  == toDevice = <<>> /\ Patient /\ Unread \in Expected
Begun    == toDevice = <<>> /\ parse = "second" /\ Unread \in {<<"c2", "end">>, <<"u2", "end">>}
Known    == toDevice = <<>> /\ parse = "rest" /\ Unread = <<"end">>

LinkPart ==
  /\ line \in Seq(Bytes) /\ coming \in Seq(Bytes) /\ due \in Nat /\ ticks \in Int
  /\ Silent \/ Sent \/ Replied \/ Begun \/ Known

link == <<parse, ticks, toDevice, coming, line, due>>

\* The sequences that are read.
LEMMA AnswersAre == \A b \in Leftovers, a \in Answers : b \o a \in Expected
  <1>1. <<>> \o <<"c1", "c2", "end">> = <<"c1", "c2", "end">>
    OBVIOUS
  <1>2. <<>> \o <<"u1", "u2", "end">> = <<"u1", "u2", "end">>
    OBVIOUS
  <1>0. ASSUME NEW e, NEW a, NEW b, NEW c PROVE <<e>> \o <<a, b, c>> = <<e, a, b, c>>
    <2> DEFINE S == {e, a, b, c}
    <2>1. <<e>> \in Seq(S) /\ <<a, b, c>> \in Seq(S) /\ <<e, a, b, c>> \in Seq(S)
      OBVIOUS
    <2>2. Len(<<e>> \o <<a, b, c>>) = 4
      BY <2>1
    <2>3. \A i \in 1..4 : (<<e>> \o <<a, b, c>>)[i] = <<e, a, b, c>>[i]
      BY <2>1
    <2>4. <<e>> \o <<a, b, c>> \in Seq(S)
      BY <2>1, ConcatProperties
    <2> QED BY <2>1, <2>2, <2>3, <2>4, SeqEqual
  <1>3. <<"end">> \o <<"c1", "c2", "end">> = <<"end", "c1", "c2", "end">>
    BY <1>0
  <1>4. <<"end">> \o <<"u1", "u2", "end">> = <<"end", "u1", "u2", "end">>
    BY <1>0
  <1> QED BY <1>1, <1>2, <1>3, <1>4, Zenon DEF Leftovers, Answers, Expected

LEMMA ExpectedIs ==
  ASSUME NEW u \in Expected
  PROVE  /\ u # <<>>
         /\ Head(u) = "end" => Tail(u) \in Expected
         /\ Head(u) # "end" => Tail(u) \in {<<"c2", "end">>, <<"u2", "end">>}
  <1>1. CASE u = <<"c1", "c2", "end">>
    <2>1. Tail(u) = <<"c2", "end">> /\ Head(u) = "c1" /\ u # <<>>
      BY <1>1
    <2> QED BY <2>1
  <1>2. CASE u = <<"u1", "u2", "end">>
    <2>1. Tail(u) = <<"u2", "end">> /\ Head(u) = "u1" /\ u # <<>>
      BY <1>2
    <2> QED BY <2>1
  <1>3. CASE u = <<"end", "c1", "c2", "end">>
    <2>1. Tail(u) = <<"c1", "c2", "end">> /\ Head(u) = "end" /\ u # <<>>
      BY <1>3
    <2> QED BY <2>1 DEF Expected
  <1>4. CASE u = <<"end", "u1", "u2", "end">>
    <2>1. Tail(u) = <<"u1", "u2", "end">> /\ Head(u) = "end" /\ u # <<>>
      BY <1>4
    <2> QED BY <2>1 DEF Expected
  <1> QED BY <1>1, <1>2, <1>3, <1>4 DEF Expected

LEMMA HeadRead ==
  ASSUME line \in Seq(Bytes), coming \in Seq(Bytes), line # <<>>
  PROVE  /\ Tail(line) \in Seq(Bytes) /\ Head(line) \in Bytes
         /\ Unread # <<>> /\ Head(line) = Head(Unread)
         /\ Tail(line) \o coming = Tail(Unread)
  BY SMT DEF Unread, Bytes

LEMMA Moves ==
  ASSUME line \in Seq(Bytes), coming \in Seq(Bytes), coming # <<>>
  PROVE  /\ Append(line, Head(coming)) \in Seq(Bytes) /\ Tail(coming) \in Seq(Bytes)
         /\ Append(line, Head(coming)) \o Tail(coming) = Unread
  BY SMT DEF Unread, Bytes

\* Nothing of the link changes.
LEMMA LinkStays == ASSUME LinkPart, UNCHANGED link PROVE LinkPart'
  BY DEF LinkPart, link, Silent, Sent, Replied, Begun, Known, Patient, Unread

LEMMA IdlesLink == ASSUME LinkPart, Fast, DirectAssumption, CmdIdles PROVE LinkPart'
  <1>1. /\ line = <<>> /\ parse = "ticking" /\ UNCHANGED <<parse, coming, line>>
        /\ Outstanding => due > 0
    BY DEF CmdIdles
  <1>2. Unread' = Unread /\ Unread = coming
    BY <1>1 DEF Unread, LinkPart
  <1>3. CASE ticks + 2 >= TickLimit /\ cmd_queue # <<>>
    <2>1. /\ toDevice' = Append(toDevice, Head(cmd_queue))
          /\ ticks' = TicksAfter(Head(cmd_queue)) /\ due' = Patience(Head(cmd_queue))
      BY <1>3 DEF CmdIdles, DirectAssumption, LinkPart
    <2>2. ~Patient \/ ~Outstanding
      BY <1>1, <1>3 DEF Patient, LinkPart, DirectAssumption
    <2>3. Silent
      <3>1. Sent => Patient /\ Outstanding
        BY DEF Sent, Outstanding
      <3>2. Replied => Patient /\ Outstanding
        BY <1>2, ExpectedIs DEF Replied, Outstanding
      <3>3. ~Begun /\ ~Known
        BY <1>1 DEF Begun, Known
      <3> QED BY <2>2, <3>1, <3>2, <3>3 DEF LinkPart
    <2>4. due' \in Nat /\ ticks' \in Int /\ ticks' + 2 * due' < TickLimit
      BY <2>1 DEF Fast, DirectAssumption, TicksAfter, Patience
    <2>5. toDevice' = <<Head(cmd_queue)>>
      BY <2>1, <2>3 DEF Silent
    <2>6. Sent'
      BY <1>1, <1>2, <2>3, <2>4, <2>5 DEF Silent, Sent, Patient
    <2> QED BY <1>1, <2>4, <2>6 DEF LinkPart
  <1>4. CASE ~(ticks + 2 >= TickLimit /\ cmd_queue # <<>>)
    <2>1. /\ ticks' = IF ticks + 2 < TickLimit THEN ticks + 2 ELSE TickLimit
          /\ due' = IF Outstanding THEN due - 1 ELSE 0
          /\ UNCHANGED toDevice
      BY <1>4 DEF CmdIdles
    <2>2. due' \in Nat /\ ticks' \in Int
      BY <1>1, <2>1 DEF LinkPart, DirectAssumption
    <2>3. Patient /\ Outstanding => Patient'
      BY <1>1, <2>1 DEF Patient, LinkPart, DirectAssumption
    <2>4. Silent => Silent'
      BY <1>1, <1>2, <2>1 DEF Silent
    <2>5. Sent => Sent'
      BY <1>1, <1>2, <2>1, <2>3 DEF Sent, Outstanding
    <2>6. Replied => Replied'
      BY <1>1, <1>2, <2>1, <2>3, ExpectedIs DEF Replied, Outstanding
    <2>7. ~Begun /\ ~Known
      BY <1>1 DEF Begun, Known
    <2> QED BY <1>1, <2>2, <2>4, <2>5, <2>6, <2>7 DEF LinkPart
  <1> QED BY <1>3, <1>4

LEMMA FirstLink == ASSUME LinkPart, CmdFirst PROVE LinkPart'
  <1>1. /\ line \in Seq(Bytes) /\ coming \in Seq(Bytes) /\ due \in Nat /\ ticks \in Int
        /\ line # <<>> /\ line' = Tail(line) /\ parse \in {"ticking", "first"}
        /\ parse' = IF Head(line) = "end" THEN "first" ELSE "second"
        /\ UNCHANGED <<ticks, toDevice, coming, due>>
    BY DEF CmdFirst, LinkPart
  <1>2. /\ line' \in Seq(Bytes) /\ Head(line) = Head(Unread) /\ Unread # <<>> /\ Unread' = Tail(Unread)
    BY <1>1, HeadRead DEF Unread
  <1>3. Unread \in Leftovers => Head(line) = "end" /\ Unread' \in Leftovers
    <2> DEFINE u == Unread
               w == Unread'
    <2>1. u # <<>> /\ w = Tail(u) /\ Head(line) = Head(u)
      BY <1>2
    <2> HIDE DEF u, w
    <2>2. u = <<"end">> => Head(u) = "end" /\ Tail(u) = <<>>
      OBVIOUS
    <2>3. u \in Leftovers => Head(line) = "end" /\ w \in Leftovers
      BY <2>1, <2>2 DEF Leftovers
    <2> QED BY <2>3 DEF u, w
  <1>4. Silent => Silent'
    BY <1>1, <1>3 DEF Silent
  <1>5. Sent => Sent'
    BY <1>1, <1>3 DEF Sent, Patient
  <1>6. Replied => Replied' \/ Begun'
    BY <1>1, <1>2, ExpectedIs DEF Replied, Begun, Patient
  <1>7. ~Begun /\ ~Known
    BY <1>1 DEF Begun, Known
  <1> QED BY <1>1, <1>2, <1>4, <1>5, <1>6, <1>7 DEF LinkPart

LEMMA SecondLink == ASSUME LinkPart, DirectAssumption, CmdSecond PROVE LinkPart'
  <1>1. /\ line \in Seq(Bytes) /\ coming \in Seq(Bytes) /\ due \in Nat /\ ticks \in Int
        /\ line # <<>> /\ parse = "second" /\ UNCHANGED <<toDevice, coming, due>>
    BY DEF CmdSecond, LinkPart
  <1>2. Begun /\ toDevice = <<>> /\ Unread \in {<<"c2", "end">>, <<"u2", "end">>}
    BY <1>1 DEF LinkPart, Silent, Sent, Replied, Begun, Known, Patient
  <1>3. Tail(Unread) = <<"end">>
    <2>1. Tail(<<"c2", "end">>) = <<"end">>
      OBVIOUS
    <2>2. Tail(<<"u2", "end">>) = <<"end">>
      OBVIOUS
    <2> QED BY <1>2, <2>1, <2>2
  <1>4. Tail(line) \in Seq(Bytes) /\ Tail(line) \o coming = <<"end">> /\ Head(line) = Head(Unread)
    BY <1>1, <1>3, HeadRead
  <1>5. CASE name = "c1" /\ Head(line) = "c2"
    <2>1. parse' = "rest" /\ line' = Tail(line) /\ UNCHANGED ticks
      BY <1>5 DEF CmdSecond
    <2>2. Known'
      BY <1>1, <1>2, <1>4, <2>1 DEF Known, Unread
    <2> QED BY <1>1, <1>4, <2>1, <2>2 DEF LinkPart
  <1>6. CASE ~(name = "c1" /\ Head(line) = "c2")
    <2>1. line' = <<>> /\ parse' = "ticking" /\ ticks' = AfterAnswer
      BY <1>6 DEF CmdSecond, Answered
    <2>2. coming \in Leftovers
      <3> DEFINE t == Tail(line)
      <3>1. t \in Seq(Bytes) /\ t \o coming = <<"end">>
        BY <1>4
      <3> HIDE DEF t
      <3>2. Len(t) \in Nat /\ Len(coming) \in Nat /\ Len(t \o coming) = Len(t) + Len(coming)
        BY <1>1, <3>1, LenProperties, ConcatProperties
      <3>3. Len(t) + Len(coming) = 1
        BY <3>1, <3>2
      <3>4. CASE Len(coming) = 0
        BY <1>1, <3>4, EmptySeq DEF Leftovers
      <3>5. CASE Len(t) = 0
        <4>1. t = <<>>
          BY <3>1, <3>5, EmptySeq
        <4>2. coming = <<"end">>
          BY <1>1, <3>1, <4>1
        <4> QED BY <4>2 DEF Leftovers
      <3> QED BY <3>2, <3>3, <3>4, <3>5
    <2>3. Unread' = coming
      BY <1>1, <2>1 DEF Unread
    <2>4. Silent'
      BY <1>1, <1>2, <2>1, <2>2, <2>3 DEF Silent
    <2>5. <<>> \in Seq(Bytes) /\ AfterAnswer \in Int
      BY DEF DirectAssumption
    <2> QED BY <1>1, <2>1, <2>4, <2>5 DEF LinkPart
  <1> QED BY <1>5, <1>6

LEMMA RestLink == ASSUME LinkPart, DirectAssumption, CmdRest PROVE LinkPart'
  <1>1. /\ line \in Seq(Bytes) /\ coming \in Seq(Bytes) /\ due \in Nat /\ ticks \in Int
        /\ line # <<>> /\ parse = "rest" /\ line' = Tail(line) /\ UNCHANGED <<toDevice, coming, due>>
    BY DEF CmdRest, LinkPart
  <1>2. Known /\ toDevice = <<>> /\ Unread = <<"end">>
    BY <1>1 DEF LinkPart, Silent, Sent, Replied, Begun, Known, Patient
  <1>3. line' \in Seq(Bytes) /\ Head(line) = "end" /\ Unread' = <<>>
    BY <1>1, <1>2, HeadRead DEF Unread
  <1>4. parse' = "ticking" /\ ticks' = AfterAnswer
    BY <1>3 DEF CmdRest, Answered
  <1>5. Silent'
    BY <1>1, <1>2, <1>3, <1>4 DEF Silent, Leftovers
  <1> QED BY <1>1, <1>3, <1>4, <1>5 DEF LinkPart, DirectAssumption

LEMMA ExecutesLink == ASSUME LinkPart, Executes PROVE LinkPart'
  <1>1. /\ line \in Seq(Bytes) /\ coming \in Seq(Bytes) /\ due \in Nat /\ ticks \in Int
        /\ toDevice # <<>> /\ toDevice' = Tail(toDevice) /\ UNCHANGED <<parse, ticks, line, due>>
    BY DEF Executes, LinkPart, parser
  <1>2. PICK a \in Answers : coming' = coming \o a
    BY DEF Executes, Answers
  <1>3. Sent
    BY <1>1 DEF LinkPart, Silent, Sent, Replied, Begun, Known
  <1>4. toDevice' = <<>>
    BY <1>1, <1>3 DEF Sent
  <1>5. a \in Seq(Bytes)
    <2>1. <<"c1", "c2", "end">> \in Seq(Bytes)
      BY DEF Bytes
    <2>2. <<"u1", "u2", "end">> \in Seq(Bytes)
      BY DEF Bytes
    <2> QED BY <2>1, <2>2 DEF Answers
  <1>6. coming' \in Seq(Bytes) /\ Unread' = Unread \o a
    BY <1>1, <1>2, <1>5, ConcatAssociative, ConcatProperties DEF Unread
  <1>7. Unread' \in Expected
    BY <1>3, <1>6, AnswersAre DEF Sent
  <1>8. Replied'
    BY <1>1, <1>3, <1>4, <1>7 DEF Sent, Replied, Patient
  <1> QED BY <1>1, <1>6, <1>8 DEF LinkPart

LEMMA ArrivesLink == ASSUME LinkPart, Arrives PROVE LinkPart'
  <1>1. /\ line \in Seq(Bytes) /\ coming \in Seq(Bytes) /\ coming # <<>>
        /\ line' = Append(line, Head(coming)) /\ coming' = Tail(coming)
        /\ UNCHANGED <<parse, ticks, toDevice, due>>
    BY DEF Arrives, LinkPart, parser
  <1>2. line' \in Seq(Bytes) /\ coming' \in Seq(Bytes) /\ Unread' = Unread
    BY <1>1, Moves DEF Unread
  <1> QED BY <1>1, <1>2 DEF LinkPart, Silent, Sent, Replied, Begun, Known, Patient

\* A command is sent only when the one before it has been executed, whatever clients write,
\* whatever the T4U answers and in whatever pieces, although an answer is never related to
\* its command: if the T4U is as fast as the waits assume (cmd_tick_count).
THEOREM OneCommand == ASSUME Fast PROVE DirectSpec => []OneAtATime
  <1>1. DirectInit => LinkPart
    BY DEF DirectInit, LinkPart, Silent, Unread, Leftovers
  <1>2. LinkPart /\ [DirectNext]_directVars => LinkPart'
    <2> SUFFICES ASSUME LinkPart, [DirectNext]_directVars PROVE LinkPart'
      OBVIOUS
    <2>1. CASE Port
      <3>1. UNCHANGED link
        BY <2>1 DEF Port, WriteRange, WriteSampleFreq, WriteAveragingTime, WriteInteger, WriteDouble,
                    WriteUpdate, Writes, parser, wire, link
      <3> QED BY <3>1, LinkStays
    <2>2. CASE CmdThread
      BY <2>2, DirectAssumption, IdlesLink, FirstLink, SecondLink, RestLink DEF CmdThread
    <2>3. CASE Executes
      BY <2>3, ExecutesLink
    <2>4. CASE Arrives
      BY <2>4, ArrivesLink
    <2>5. CASE Emits
      BY <2>5, LinkStays DEF Emits, parser, wire, link
    <2>6. CASE DataThread
      BY <2>6, LinkStays DEF DataThread, DataFlushes, DataReadings, DataTakes, DataApplies, parser, wire, link
    <2>7. CASE UNCHANGED directVars
      BY <2>7, LinkStays DEF directVars, parser, wire, link
    <2> QED BY <2>1, <2>2, <2>3, <2>4, <2>5, <2>6, <2>7 DEF DirectNext
  <1>3. LinkPart => OneAtATime
    <2> SUFFICES ASSUME LinkPart PROVE Len(toDevice) <= 1
      BY DEF OneAtATime
    <2>1. toDevice = <<>> \/ \E c : toDevice = <<c>>
      BY DEF LinkPart, Silent, Sent, Replied, Begun, Known
    <2>2. Len(<<>>) = 0 /\ \A c : Len(<<c>>) = 1
      OBVIOUS
    <2>3. Len(toDevice) = 0 \/ Len(toDevice) = 1
      BY <2>1, <2>2
    <2> QED BY <2>3
  <1> QED BY <1>1, <1>2, <1>3, PTL DEF DirectSpec

-----------------------------------------------------------------------------
(***************************************************************************)
(* Parameters and their registers.                                         *)
(***************************************************************************)
PidNames ==
  {"PIDXSp", "PIDXKp", "PIDXKi", "PIDXKd", "PIDX_Scale", "PIDX_VScale", "PIDX_VOffset",
   "PIDYSp", "PIDYKp", "PIDYKi", "PIDYKd", "PIDY_Scale", "PIDY_VScale", "PIDY_VOffset",
   "PIDCutout", "PIDHyst", "DACItoV", "DACItoVOffset", "PosTrackRad"}
SwitchNames ==
  {"BiasN", "BiasP", "PulseBias", "PIDHystEn", "PIDCuEn", "PIDEn", "PIDCtrlPol", "PIDCtrlEx"}
FieldNames == {"DACMode", "PosTrackMode"}
NumberNames ==
  {"SampleFreq", "Range", "BiasPVoltage", "BiasNVoltage", "PulseBiasOff", "PulseBiasOn",
   "ReadsPerPacket"}

\* Parameters that a register has.
Stored == BitParameters \cup DOMAIN Numbers \cup DOMAIN PidRegisters

BitRegisters == {0, 19, 93}

LEMMA NamesAre ==
  /\ DOMAIN Switches = SwitchNames /\ DOMAIN Fields = FieldNames
  /\ DOMAIN Numbers = NumberNames /\ DOMAIN PidRegisters = PidNames
  /\ BitParameters = SwitchNames \cup FieldNames \cup {"WaitStateMode"}
  <1>1. DOMAIN Switches = SwitchNames
    BY DEF Switches, SwitchNames
  <1>2. DOMAIN Fields = FieldNames
    BY DEF Fields, FieldNames
  <1>3. DOMAIN Numbers = NumberNames
    BY DEF Numbers, NumberNames
  <1>4. DOMAIN PidRegisters = PidNames
    BY DEF PidRegisters, PidNames
  <1> QED BY <1>1, <1>2, <1>3, <1>4 DEF BitParameters

\* No name is of two kinds.
LEMMA NamesDiffer ==
  /\ \A p \in SwitchNames : p \notin FieldNames \cup NumberNames \cup PidNames \cup {"WaitStateMode"}
  /\ \A p \in FieldNames : p \notin NumberNames \cup PidNames \cup {"WaitStateMode"}
  /\ \A p \in NumberNames : p \notin PidNames \cup {"WaitStateMode"}
  /\ "WaitStateMode" \notin PidNames
  BY DEF SwitchNames, FieldNames, NumberNames, PidNames

LEMMA RegistersAre ==
  /\ \A p \in SwitchNames : RegisterOf(p) = Switches[p][1]
  /\ \A p \in FieldNames : RegisterOf(p) = Fields[p][1]
  /\ RegisterOf("WaitStateMode") = 0
  /\ \A p \in NumberNames : RegisterOf(p) = Numbers[p]
  /\ \A p \in PidNames : RegisterOf(p) = PidRegisters[p].reg
  BY NamesAre, NamesDiffer DEF RegisterOf

LEMMA SwitchesAre ==
  \A p \in SwitchNames :
    /\ Switches[p][1] \in {0, 19}
    /\ Switches[p][1] = 0 => Switches[p][2] \in {9, 10, 18}
    /\ Switches[p][1] = 19 => Switches[p][2] \in {0, 1, 2, 6, 7}
    /\ \A q \in SwitchNames : Switches[p] = Switches[q] => p = q
  BY DEF SwitchNames, Switches

LEMMA FieldsAre == Fields["DACMode"] = <<93, 0, 3>> /\ Fields["PosTrackMode"] = <<19, 3, 2>>
  BY DEF Fields

LEMMA NumbersAre ==
  /\ \A p \in NumberNames : Numbers[p] \in {1, 3, 4, 5, 22, 23, 24}
  /\ \A p, q \in NumberNames : Numbers[p] = Numbers[q] => p = q
  /\ Numbers["SampleFreq"] = 1 /\ Numbers["Range"] = 3
  BY DEF NumberNames, Numbers

LEMMA PidsAre ==
  /\ \A p \in PidNames : PidRegisters[p].reg \in Nat /\ PidRegisters[p].reg < 93
  /\ \A p \in PidNames : PidRegisters[p].reg \notin {0, 19, 93, 1, 3, 4, 5, 22, 23, 24}
  /\ \A p, q \in PidNames : PidRegisters[p].reg = PidRegisters[q].reg => p = q
  <1>1. \A p \in PidNames : PidRegisters[p].reg \in Nat /\ PidRegisters[p].reg < 93
    BY DEF PidNames, PidRegisters, Pid
  <1>2. \A p \in PidNames : PidRegisters[p].reg \notin {0, 19, 93, 1, 3, 4, 5, 22, 23, 24}
    BY DEF PidNames, PidRegisters, Pid
  <1>3. \A p, q \in PidNames : PidRegisters[p].reg = PidRegisters[q].reg => p = q
    BY DEF PidNames, PidRegisters, Pid
  <1> QED BY <1>1, <1>2, <1>3

\* A register is one of bits or of a number, and one parameter alone has each of the second.
LEMMA RegistersDiffer ==
  /\ \A p \in Stored : RegisterOf(p) \in Nat /\ RegisterOf(p) < 100
  /\ \A p \in Stored : p \in BitParameters <=> RegisterOf(p) \in BitRegisters
  /\ \A p, q \in Stored : RegisterOf(p) = RegisterOf(q) => p = q \/ p \in BitParameters
  <1>1. \A p \in SwitchNames : RegisterOf(p) \in {0, 19}
    BY RegistersAre, SwitchesAre
  <1>2. \A p \in FieldNames : RegisterOf(p) \in {19, 93}
    BY RegistersAre, FieldsAre DEF FieldNames
  <1>3. \A p \in NumberNames : RegisterOf(p) \in {1, 3, 4, 5, 22, 23, 24}
    BY RegistersAre, NumbersAre
  <1>4. \A p \in PidNames : /\ RegisterOf(p) \in Nat /\ RegisterOf(p) < 93
                            /\ RegisterOf(p) \notin {0, 19, 93, 1, 3, 4, 5, 22, 23, 24}
    BY RegistersAre, PidsAre
  <1>5. Stored = BitParameters \cup NumberNames \cup PidNames
    BY NamesAre DEF Stored
  <1>6. \A p \in BitParameters : RegisterOf(p) \in {0, 19, 93}
    BY <1>1, <1>2, NamesAre, RegistersAre
  <1>7. \A p \in NumberNames \cup PidNames : p \notin BitParameters
    BY NamesAre, NamesDiffer
  <1>8. \A p \in Stored : RegisterOf(p) \in Nat /\ RegisterOf(p) < 100
    BY <1>3, <1>4, <1>5, <1>6
  <1>9. \A p \in Stored : p \in BitParameters <=> RegisterOf(p) \in BitRegisters
    BY <1>3, <1>4, <1>5, <1>6, <1>7 DEF BitRegisters
  <1>10. ASSUME NEW p \in Stored, NEW q \in Stored, RegisterOf(p) = RegisterOf(q), p \notin BitParameters
         PROVE p = q
    <2>1. q \notin BitParameters
      BY <1>9, <1>10
    <2>2. CASE p \in NumberNames
      <3>1. q \in NumberNames
        BY <1>3, <1>4, <1>5, <1>10, <2>1, <2>2
      <3> QED BY <1>10, <2>2, <3>1, RegistersAre, NumbersAre
    <2>3. CASE p \in PidNames
      <3>1. q \in PidNames
        BY <1>3, <1>4, <1>5, <1>10, <2>1, <2>3
      <3> QED BY <1>10, <2>3, <3>1, RegistersAre, PidsAre
    <2> QED BY <1>5, <1>10, <2>2, <2>3
  <1> QED BY <1>8, <1>9, <1>10

\* A register read back is what its parameters say it is.
LEMMA ToldHolds ==
  ASSUME NEW file, NEW p, IsTold(p), p \notin PidNames
  PROVE  Holds(file, p, Told(file, p))
  <1>1. p \in SwitchNames \cup FieldNames \cup NumbersTold
    BY NamesAre DEF IsTold
  <1>2. CASE p \in SwitchNames
    <2>1. Told(file, p) = IF Switches[p][2] \in file.bits[Switches[p][1]] THEN 1 ELSE 0
      BY <1>2, NamesAre, NamesDiffer DEF Told, NumbersTold, NumberNames
    <2>2. \A v : Holds(file, p, v) <=> ((Switches[p][2] \in file.bits[Switches[p][1]]) = (v # 0))
      BY <1>2, NamesAre, NamesDiffer DEF Holds
    <2> QED BY <2>1, <2>2
  <1>3. CASE p \in FieldNames
    <2> DEFINE f == Fields[p]
               low == f[2]
               b == file.bits[f[1]] \cap (low..(low + f[3] - 1))
    <2>1. Told(file, p) = CHOOSE v \in 0..(Powers[f[3] + 1] - 1) : Bits(v, f[2], f[3]) = b
      BY <1>3, NamesAre, NamesDiffer DEF Told, NumbersTold, NumberNames
    <2>2. \A v : Holds(file, p, v) <=> b = Bits(v, f[2], f[3])
      BY <1>3, NamesAre, NamesDiffer DEF Holds
    <2>3. \E v \in 0..(Powers[f[3] + 1] - 1) : Bits(v, f[2], f[3]) = b
      <3>1. CASE p = "DACMode"
        <4>1. f = <<93, 0, 3>>
          BY <3>1, FieldsAre
        <4>2. /\ Bits(0, 0, 3) = {} /\ Bits(1, 0, 3) = {0} /\ Bits(2, 0, 3) = {1}
              /\ Bits(3, 0, 3) = {0, 1} /\ Bits(4, 0, 3) = {2} /\ Bits(5, 0, 3) = {0, 2}
              /\ Bits(6, 0, 3) = {1, 2} /\ Bits(7, 0, 3) = {0, 1, 2}
          BY DEF Bits, Powers
        <4>3. b \subseteq {0, 1, 2}
          BY <4>1
        <4>4. b \in {{}, {0}, {1}, {0, 1}, {2}, {0, 2}, {1, 2}, {0, 1, 2}}
          BY <4>3
        <4>5. \E v \in {0, 1, 2, 3, 4, 5, 6, 7} : Bits(v, 0, 3) = b
          <5> HIDE DEF b
          <5> QED BY <4>2, <4>4
        <4>6. 0..(Powers[f[3] + 1] - 1) = {0, 1, 2, 3, 4, 5, 6, 7}
          BY <4>1 DEF Powers
        <4> QED BY <4>1, <4>5, <4>6
      <3>2. CASE p = "PosTrackMode"
        <4>1. f = <<19, 3, 2>>
          BY <3>2, FieldsAre
        <4>2. /\ Bits(0, 3, 2) = {} /\ Bits(1, 3, 2) = {3} /\ Bits(2, 3, 2) = {4}
              /\ Bits(3, 3, 2) = {3, 4}
          BY DEF Bits, Powers
        <4>3. b \subseteq {3, 4}
          BY <4>1
        <4>4. b \in {{}, {3}, {4}, {3, 4}}
          BY <4>3
        <4>5. \E v \in {0, 1, 2, 3} : Bits(v, 3, 2) = b
          <5> HIDE DEF b
          <5> QED BY <4>2, <4>4
        <4>6. 0..(Powers[f[3] + 1] - 1) = {0, 1, 2, 3}
          BY <4>1 DEF Powers
        <4> QED BY <4>1, <4>5, <4>6
      <3> QED BY <1>3, <3>1, <3>2 DEF FieldNames
    <2> HIDE DEF b, f
    <2> QED BY <2>1, <2>2, <2>3
  <1>4. CASE p \in NumbersTold
    <2>1. p \in NumberNames
      BY <1>4 DEF NumbersTold, NumberNames
    <2>2. Told(file, p) = file.nums[Numbers[p]]
      BY <1>4, <2>1, NamesAre, NamesDiffer DEF Told
    <2>3. \A v : Holds(file, p, v) <=> file.nums[Numbers[p]] = v
      BY <2>1, NamesAre, NamesDiffer DEF Holds
    <2> QED BY <2>2, <2>3
  <1> QED BY <1>1, <1>2, <1>3, <1>4

-----------------------------------------------------------------------------
(***************************************************************************)
(* Types.                                                                  *)
(***************************************************************************)
NumRegisters == {1, 3} \cup {RegisterOf(p) : p \in Others \ BitParameters}
Calibrations == {Loaded(s.file)[i] : s \in Scenarios, i \in {1, 2}}
Cals == Int \X Calibrations

Orders ==
  [op : {"wr"}, reg : NumRegisters, num : Int] \cup [op : {"wr"}, reg : {100}, cal : Cals]
  \cup [op : {"bs", "bc"}, reg : BitRegisters, bits : SUBSET Nat] \cup [op : {"tr"}, reg : {1, 2, 3}]

Files == [bits : [BitRegisters -> SUBSET Nat], nums : [NumRegisters -> Int], cal : Cals]

Packs ==
  {k \in [kind : {"bad", "readings", "regs"}, part : {0, 1, 2, 3}, regs : Files \cup {<<>>}] :
     k.kind = "regs" => k.part # 0}

TypePart ==
  /\ scenario \in Scenarios /\ Loaded(scenario.file) # <<>> /\ calSet \in Calibrations
  /\ DOMAIN other = Others
  /\ cmd_queue \in Seq(Orders) /\ Len(cmd_queue) <= QueueLen /\ toDevice \in Seq(Orders)
  /\ regs \in Files
  /\ packets \in Seq(Packs)
  /\ step \in {0, 1, 2, 3, 4, 5, 6}
  /\ step > 0 => /\ taken.part \in {1, 2, 3}
                 /\ taken.part = 1 => step < 6
                 /\ taken.part = 2 => step = 5
                 /\ taken.part = 3 => step = 6
  /\ synced \subseteq {1, 2, 3} /\ touched \in BOOLEAN

LEMMA OthersAre ==
  ASSUME scenario \in Scenarios
  PROVE  /\ Others \subseteq Stored
         /\ \A s \in scenario.settings : s[1] \in Stored \cup {"AveragingTime"} /\ s[2] \in Int
  <1>1. \A s \in scenario.settings : s[1] \in Settings /\ s[2] \in Int
    BY DirectAssumption
  <1>2. Settings = Stored \cup {"AveragingTime"}
    BY DEF Settings, Stored
  <1>3. BitParameters \subseteq Stored
    BY DEF Stored
  <1> QED BY <1>1, <1>2, <1>3 DEF Others

LEMMA NumRegistersAre ==
  ASSUME scenario \in Scenarios
  PROVE  /\ \A r \in NumRegisters : r \notin BitRegisters /\ r \in Nat /\ r < 100
         /\ 1 \in NumRegisters /\ 3 \in NumRegisters
         /\ \A p \in Others \ BitParameters : RegisterOf(p) \in NumRegisters
  <1>1. \A p \in Others \ BitParameters :
          RegisterOf(p) \notin BitRegisters /\ RegisterOf(p) \in Nat /\ RegisterOf(p) < 100
    BY OthersAre, RegistersDiffer
  <1>2. \A r \in {1, 3} : r \notin BitRegisters /\ r \in Nat /\ r < 100
    BY DEF BitRegisters
  <1> QED BY <1>1, <1>2 DEF NumRegisters

\* How many values parameters of the PID have.
Sizes == {1000, 2000, 10000}

LEMMA Quotient ==
  ASSUME NEW k \in Int, NEW d \in Sizes
  PROVE  /\ k \div d \in Int
         /\ \A n \in Int :
              n = k \div d \/ (n = (k \div d) - 1 /\ k % d = 0) => k - n * d \in -d..d
  BY SMT DEF Sizes

\* The value of a PID register is that of the parameter, to the nearest.
LEMMA ScaledIs ==
  ASSUME NEW p \in PidNames, NEW v \in Int, NEW n \in Scaled(PidRegisters[p], v)
  PROVE  LET pid == PidRegisters[p]
             size == pid.hi - pid.lo
         IN  n \in Int /\ Exact(pid, v) - n * size \in -size..size
  <1> DEFINE pid == PidRegisters[p]
             size == pid.hi - pid.lo
             m == Exact(pid, v)
             down == IF m < 0 THEN -((-m) \div size) ELSE m \div size
  <1>1. pid.hi \in Int /\ pid.lo \in Int /\ pid.first \in Int /\ pid.last \in Int
    BY DEF PidNames, PidRegisters, Pid
  <1>2. size \in Sizes
    BY DEF PidNames, PidRegisters, Pid, Sizes
  <1>3. m \in Int
    BY <1>1 DEF Exact
  <1>4. n \in {down} \cup IF m % size = 0 /\ m # 0 THEN {IF m < 0 THEN down + 1 ELSE down - 1} ELSE {}
    BY DEF Scaled
  <1> HIDE DEF pid, size, m
  <1>5. size \in Int /\ size > 0
    BY <1>2 DEF Sizes
  <1>6. ASSUME m >= 0 PROVE n \in Int /\ m - n * size \in -size..size
    <2>1. down = m \div size
      BY <1>3, <1>6
    <2>2. n \in {m \div size, (m \div size) - 1} /\ (n = (m \div size) - 1 => m % size = 0)
      BY <1>3, <1>4, <1>5, <1>6, <2>1
    <2> HIDE DEF down
    <2>3. /\ m \div size \in Int
          /\ \A x \in Int : x = m \div size \/ (x = (m \div size) - 1 /\ m % size = 0)
                             => m - x * size \in -size..size
      BY <1>2, <1>3, Quotient, Zenon
    <2>4. n \in Int
      BY <2>2, <2>3
    <2> QED BY <2>2, <2>3, <2>4
  <1>7. ASSUME m < 0 PROVE n \in Int /\ m - n * size \in -size..size
    <2> DEFINE k == -m
    <2>0. k \in Int /\ k > 0 /\ m = -k
      BY <1>3, <1>7
    <2>1. down = -(k \div size)
      BY <1>3, <1>7
    <2>2. n = -(k \div size) \/ (n = -(k \div size) + 1 /\ m % size = 0)
      BY <1>4, <1>7, <2>1
    <2>3. k \div size \in Int
      BY <1>2, <2>0, Quotient
    <2>4. m % size = 0 => k % size = 0
      BY <1>2, <2>0 DEF Sizes
    <2> HIDE DEF k, down
    <2>5. n \in Int /\ (-n = k \div size \/ (-n = (k \div size) - 1 /\ k % size = 0))
      BY <2>2, <2>3, <2>4
    <2>6. k - (-n) * size \in -size..size
      <3>1. \A x \in Int : x = k \div size \/ (x = (k \div size) - 1 /\ k % size = 0)
                             => k - x * size \in -size..size
        BY <1>2, <2>0, Quotient, Zenon
      <3>2. -n \in Int
        BY <2>5
      <3> QED BY <2>5, <3>1, <3>2
    <2>7. m - n * size = -(k - (-n) * size)
      BY <1>2, <2>0, <2>5 DEF Sizes
    <2>8. k - (-n) * size \in Int
      BY <1>5, <2>0, <2>5
    <2> QED BY <1>5, <2>5, <2>6, <2>7, <2>8
  <1>8. n \in Int /\ m - n * size \in -size..size
    BY <1>3, <1>6, <1>7
  <1> QED BY <1>8 DEF m, size, pid

LEMMA PairIs == ASSUME NEW c, NEW d PROVE <<c>> \o <<d>> = <<c, d>>
  <1> DEFINE S == {c, d}
             q == <<c>> \o <<d>>
  <1>1. <<c>> \in Seq(S) /\ <<d>> \in Seq(S) /\ <<c, d>> \in Seq(S)
    OBVIOUS
  <1>2. Len(q) = 2 /\ q[1] = c /\ q[2] = d
    BY <1>1
  <1>3. q \in Seq(S)
    BY <1>1, ConcatProperties
  <1>4. Len(<<c, d>>) = 2 /\ <<c, d>>[1] = c /\ <<c, d>>[2] = d
    OBVIOUS
  <1> HIDE DEF q
  <1>5. \A i \in 1..2 : q[i] = <<c, d>>[i]
    BY <1>2, <1>4
  <1> QED BY <1>1, <1>2, <1>3, <1>4, <1>5, SeqEqual DEF q

\* A setting becomes commands to its register, one of bits or one that is written.
OrdersTo(N) ==
  [op : {"wr"}, reg : N, num : Int] \cup [op : {"bs", "bc"}, reg : BitRegisters, bits : SUBSET Nat]

WrittenFor(p) == IF p \in BitParameters THEN {} ELSE {RegisterOf(p)}

LEMMA SettingIs ==
  ASSUME NEW p \in Stored, NEW v \in Int, NEW cs \in Commands(p, v)
  PROVE  /\ cs \in Seq(OrdersTo(WrittenFor(p))) /\ Len(cs) \in {1, 2}
         /\ \A i \in 1..Len(cs) : cs[i].op # "tr" /\ cs[i].reg = RegisterOf(p)
  <1> DEFINE N == WrittenFor(p)
  <1> SUFFICES /\ cs \in Seq(OrdersTo(N)) /\ Len(cs) \in {1, 2}
               /\ \A i \in 1..Len(cs) : cs[i].op # "tr" /\ cs[i].reg = RegisterOf(p)
    OBVIOUS
  <1>0. p \notin BitParameters => RegisterOf(p) \in N
    BY DEF WrittenFor
  <1> HIDE DEF N
  <1> DEFINE Good(q) == /\ q \in Seq(OrdersTo(N)) /\ Len(q) \in {1, 2}
                        /\ \A i \in 1..Len(q) : q[i].op # "tr" /\ q[i].reg = RegisterOf(p)
             r == RegisterOf(p)
  <1>1. ASSUME NEW c \in OrdersTo(N), c.op # "tr", c.reg = r PROVE Good(<<c>>)
    <2>1. <<c>> \in Seq(OrdersTo(N)) /\ Len(<<c>>) = 1 /\ <<c>>[1] = c
      OBVIOUS
    <2> QED BY <1>1, <2>1
  <1>2. ASSUME NEW c \in OrdersTo(N), c.op # "tr", c.reg = r, NEW d \in OrdersTo(N), d.op # "tr", d.reg = r
        PROVE  Good(<<c, d>>)
    <2> DEFINE q == <<c, d>>
    <2>1. q \in Seq(OrdersTo(N)) /\ Len(q) = 2 /\ q[1] = c /\ q[2] = d
      OBVIOUS
    <2> HIDE DEF q
    <2>2. Good(q)
      BY <1>2, <2>1
    <2> QED BY <2>2 DEF q
  <1>3. ASSUME NEW n \in Int, p \notin BitParameters
        PROVE  Wr(r, n) \in OrdersTo(N) /\ Wr(r, n).op # "tr" /\ Wr(r, n).reg = r
    <2>1. r \in N
      BY <1>0, <1>3
    <2> HIDE DEF r
    <2> QED BY <2>1 DEF Wr, OrdersTo
  <1>4. ASSUME NEW b \in SUBSET Nat, p \in BitParameters
        PROVE  /\ Bs(r, b) \in OrdersTo(N) /\ Bs(r, b).op # "tr" /\ Bs(r, b).reg = r
               /\ Bc(r, b) \in OrdersTo(N) /\ Bc(r, b).op # "tr" /\ Bc(r, b).reg = r
    <2>1. r \in BitRegisters
      BY <1>4, RegistersDiffer
    <2> HIDE DEF r
    <2> QED BY <2>1 DEF Bs, Bc, OrdersTo
  <1> HIDE DEF Good
  <1>5. CASE p \in SwitchNames
    <2>1. cs = <<IF v # 0 THEN Bs(r, {Switches[p][2]}) ELSE Bc(r, {Switches[p][2]})>>
      BY <1>5, NamesAre, NamesDiffer, RegistersAre DEF Commands
    <2>2. {Switches[p][2]} \in SUBSET Nat /\ p \in BitParameters
      BY <1>5, SwitchesAre, NamesAre
    <2>3. Good(<<Bs(r, {Switches[p][2]})>>) /\ Good(<<Bc(r, {Switches[p][2]})>>)
      BY <1>1, <1>4, <2>2
    <2>4. Good(cs)
      BY <2>1, <2>3
    <2> QED BY <2>4 DEF Good
  <1>6. CASE p \in FieldNames
    <2> DEFINE f == Fields[p]
    <2>1. cs = <<Bc(r, Bits(-1, f[2], f[3])), Bs(r, Bits(v, f[2], f[3]))>>
      BY <1>6, NamesAre, NamesDiffer, RegistersAre DEF Commands
    <2>2. f[2] \in Nat /\ f[3] \in Nat /\ p \in BitParameters
      BY <1>6, FieldsAre, NamesAre DEF FieldNames
    <2>3. \A w \in Int : Bits(w, f[2], f[3]) \in SUBSET Nat
      BY <2>2 DEF Bits
    <2>4. Bits(-1, f[2], f[3]) \in SUBSET Nat /\ Bits(v, f[2], f[3]) \in SUBSET Nat
      BY <2>3
    <2> HIDE DEF f
    <2>5. Good(cs)
      BY <1>2, <1>4, <2>1, <2>2, <2>4
    <2> QED BY <2>5 DEF Good
  <1>7. CASE p = "WaitStateMode"
    <2>1. cs = <<Bc(0, WaitStateBits)>> \o IF v \in {1, 2} THEN <<Bs(0, WaitStates[v + 1])>> ELSE <<>>
      BY <1>7, NamesAre, NamesDiffer DEF Commands
    <2>2. r = 0 /\ p \in BitParameters
      BY <1>7, RegistersAre, NamesAre
    <2>3. WaitStateBits \in SUBSET Nat /\ (v \in {1, 2} => WaitStates[v + 1] \in SUBSET Nat)
      BY DEF WaitStateBits, WaitStates
    <2>4. CASE v \in {1, 2}
      <3> DEFINE c == Bc(0, WaitStateBits)
                 d == Bs(0, WaitStates[v + 1])
      <3>1. cs = <<c>> \o <<d>>
        BY <2>1, <2>4
      <3>2. c \in OrdersTo(N) /\ d \in OrdersTo(N) /\ c.op # "tr" /\ c.reg = r /\ d.op # "tr" /\ d.reg = r
        BY <1>4, <2>2, <2>3, <2>4
      <3> HIDE DEF c, d
      <3>3. cs = <<c, d>>
        BY <3>1, PairIs
      <3>4. Good(cs)
        BY <1>2, <3>2, <3>3
      <3> QED BY <3>4 DEF Good
    <2>5. CASE v \notin {1, 2}
      <3> DEFINE c == Bc(0, WaitStateBits)
      <3>1. cs = <<c>> \o <<>>
        BY <2>1, <2>5
      <3>2. c \in OrdersTo(N) /\ c.op # "tr" /\ c.reg = r
        BY <1>4, <2>2, <2>3
      <3> HIDE DEF c
      <3>3. cs = <<c>>
        BY <3>1
      <3>4. Good(cs)
        BY <1>1, <3>2, <3>3
      <3> QED BY <3>4 DEF Good
    <2> QED BY <2>4, <2>5
  <1>8. CASE p \in NumberNames
    <2>1. cs = <<Wr(r, v)>> /\ p \notin BitParameters
      BY <1>8, NamesAre, NamesDiffer, RegistersAre DEF Commands
    <2>2. Good(cs)
      BY <1>1, <1>3, <2>1
    <2> QED BY <2>2 DEF Good
  <1>9. CASE p \in PidNames
    <2>1. PICK n \in Scaled(PidRegisters[p], v) : cs = <<Wr(r, n)>>
      BY <1>9, NamesAre, NamesDiffer, RegistersAre DEF Commands
    <2>2. p \notin BitParameters
      BY <1>9, NamesAre, NamesDiffer
    <2>3. n \in Int
      BY <1>9, ScaledIs
    <2>4. Good(cs)
      BY <1>1, <1>3, <2>1, <2>2, <2>3
    <2> QED BY <2>4 DEF Good
  <1> QED BY <1>5, <1>6, <1>7, <1>8, <1>9, NamesAre DEF Stored

LEMMA CommandsAre ==
  ASSUME scenario \in Scenarios, NEW p \in Stored, NEW v \in Int,
         p \notin BitParameters => RegisterOf(p) \in NumRegisters,
         NEW cs \in Commands(p, v)
  PROVE  /\ cs \in Seq(Orders) /\ Len(cs) \in {1, 2}
         /\ \A i \in 1..Len(cs) : cs[i].op # "tr" /\ cs[i].reg = RegisterOf(p)
  <1>1. OrdersTo(WrittenFor(p)) \subseteq Orders
    <2>1. WrittenFor(p) \subseteq NumRegisters
      BY DEF WrittenFor
    <2> QED BY <2>1 DEF OrdersTo, Orders
  <1>2. cs \in Seq(OrdersTo(WrittenFor(p)))
    BY SettingIs
  <1>3. cs \in Seq(Orders)
    BY <1>1, <1>2
  <1> QED BY <1>3, SettingIs

\* writeReadMeter puts the commands there is room for into the ring buffer, and only those.
LEMMA PushIs ==
  ASSUME cmd_queue \in Seq(Orders), Len(cmd_queue) <= QueueLen, NEW cs \in Seq(Orders), Push(cs)
  PROVE  \E u \in Seq(Orders) :
           /\ cmd_queue' = cmd_queue \o u /\ Len(u) <= Len(cs)
           /\ \A i \in 1..Len(u) : u[i] = cs[i]
           /\ Len(cs) <= Len(u) => u = cs
           /\ dropped \subseteq dropped'
           /\ \A i \in 1..Len(cs) : i > Len(u) /\ cs[i].op # "tr" => cs[i].reg \in dropped'
           /\ cmd_queue' \in Seq(Orders) /\ Len(cmd_queue') <= QueueLen
  <1> DEFINE room == QueueLen - Len(cmd_queue)
             n == IF Len(cs) <= room THEN Len(cs) ELSE room
             u == SubSeq(cs, 1, n)
  <1>1. QueueLen \in Nat /\ Len(cmd_queue) \in Nat /\ Len(cs) \in Nat
    BY DirectAssumption, LenProperties
  <1>2. n \in Nat /\ n <= Len(cs) /\ n <= room /\ room \in Nat
    BY <1>1
  <1>3. /\ cmd_queue' = cmd_queue \o u
        /\ dropped' = dropped \cup
             {cs[i].reg : i \in {j \in (n + 1)..Len(cs) : cs[j].op # "tr"}}
    BY DEF Push
  <1> HIDE DEF n, room
  <1>4. u \in Seq(Orders) /\ Len(u) = n /\ \A i \in 1..n : u[i] = cs[i]
    BY <1>1, <1>2, SubSeqProperties
  <1> HIDE DEF u
  <1>5. Len(cs) <= Len(u) => u = cs
    <2> SUFFICES ASSUME Len(cs) <= Len(u) PROVE u = cs
      OBVIOUS
    <2>1. Len(u) = Len(cs)
      BY <1>1, <1>2, <1>4
    <2> QED BY <1>4, <2>1, SeqEqual
  <1>6. \A i \in 1..Len(cs) : i > Len(u) /\ cs[i].op # "tr" => cs[i].reg \in dropped'
    BY <1>1, <1>2, <1>3, <1>4
  <1>7. cmd_queue' \in Seq(Orders) /\ Len(cmd_queue') = Len(cmd_queue) + Len(u)
    BY <1>3, <1>4, ConcatProperties
  <1>8. Len(cmd_queue') <= QueueLen
    BY <1>1, <1>2, <1>4, <1>7 DEF room
  <1> QED BY <1>1, <1>2, <1>3, <1>4, <1>5, <1>6, <1>7, <1>8

-----------------------------------------------------------------------------
(***************************************************************************)
(* What a command does to a register.                                      *)
(***************************************************************************)
Content(file, r) ==
  IF r \in BitRegisters THEN file.bits[r] ELSE IF r = 100 THEN file.cal ELSE file.nums[r]

Effect(c, r, x) ==
  IF c.op = "tr" \/ c.reg # r THEN x
  ELSE IF c.op = "bs" THEN x \cup c.bits
  ELSE IF c.op = "bc" THEN x \ c.bits
  ELSE IF r = 100 THEN c.cal ELSE c.num

Registers == BitRegisters \cup NumRegisters \cup {100}

\* The T4U's file after a command, register by register.
LEMMA ExecuteIs ==
  ASSUME scenario \in Scenarios, regs \in Files, NEW c \in Orders
  PROVE  /\ Execute(c) \in Files
         /\ \A r \in Registers : Content(Execute(c), r) = Effect(c, r, Content(regs, r))
         /\ c.op = "tr" => Execute(c) = regs
  <1> DEFINE E == Execute(c)
             Right == /\ E \in Files
                      /\ \A r \in Registers : Content(E, r) = Effect(c, r, Content(regs, r))
                      /\ c.op = "tr" => E = regs
  <1>1. /\ regs.bits \in [BitRegisters -> SUBSET Nat] /\ regs.nums \in [NumRegisters -> Int]
        /\ regs.cal \in Cals
    BY DEF Files
  <1>2. /\ \A r \in NumRegisters : r \notin BitRegisters /\ r # 100
        /\ 100 \notin BitRegisters
    BY NumRegistersAre DEF BitRegisters
  <1>3. CASE c \in [op : {"wr"}, reg : NumRegisters, num : Int]
    <2> DEFINE f == [regs.nums EXCEPT ![c.reg] = c.num]
    <2>1. c.op = "wr" /\ c.reg \in NumRegisters /\ c.num \in Int /\ c.reg # 100
      BY <1>2, <1>3
    <2>2. E = [regs EXCEPT !.nums = f]
      BY <2>1, <1>1 DEF Execute, Executed, Files
    <2>3. f \in [NumRegisters -> Int] /\ \A r \in NumRegisters : f[r] = IF r = c.reg THEN c.num ELSE regs.nums[r]
      BY <1>1, <2>1
    <2> HIDE DEF f, E
    <2>4. E \in Files /\ E.bits = regs.bits /\ E.nums = f /\ E.cal = regs.cal
      BY <1>1, <2>2, <2>3 DEF Files
    <2>5. ASSUME NEW r \in Registers PROVE Content(E, r) = Effect(c, r, Content(regs, r))
      <3>1. CASE r \in NumRegisters
        BY <1>2, <2>1, <2>3, <2>4, <3>1 DEF Content, Effect
      <3>2. CASE r \notin NumRegisters
        <4>1. r # c.reg /\ (r \in BitRegisters \/ r = 100)
          BY <2>1, <3>2 DEF Registers
        <4> QED BY <2>4, <4>1 DEF Content, Effect
      <3> QED BY <3>1, <3>2
    <2> QED BY <2>1, <2>4, <2>5 DEF E
  <1>4. CASE c \in [op : {"wr"}, reg : {100}, cal : Cals]
    <2>1. c.op = "wr" /\ c.reg = 100 /\ c.cal \in Cals
      BY <1>4
    <2>2. E = [regs EXCEPT !.cal = c.cal]
      BY <2>1 DEF Execute
    <2> HIDE DEF E
    <2>3. E \in Files /\ E.bits = regs.bits /\ E.nums = regs.nums /\ E.cal = c.cal
      BY <1>1, <2>1, <2>2 DEF Files
    <2>4. ASSUME NEW r \in Registers PROVE Content(E, r) = Effect(c, r, Content(regs, r))
      BY <1>2, <2>1, <2>3 DEF Content, Effect
    <2> QED BY <2>1, <2>3, <2>4 DEF E
  <1>5. CASE c \in [op : {"bs", "bc"}, reg : BitRegisters, bits : SUBSET Nat]
    <2> DEFINE b == IF c.op = "bs" THEN regs.bits[c.reg] \cup c.bits ELSE regs.bits[c.reg] \ c.bits
               f == [regs.bits EXCEPT ![c.reg] = b]
    <2>1. c.op \in {"bs", "bc"} /\ c.reg \in BitRegisters /\ c.bits \in SUBSET Nat /\ c.reg # 100
      BY <1>2, <1>5
    <2>2. b \in SUBSET Nat
      BY <1>1, <2>1
    <2>3. E = [regs EXCEPT !.bits = f]
      <3>1. CASE c.op = "bs"
        <4>1. E = Executed(regs, c)
          BY <3>1 DEF Execute
        <4>2. Executed(regs, c) = [regs EXCEPT !.bits[c.reg] = @ \cup c.bits]
          BY <3>1 DEF Executed
        <4> QED BY <1>1, <2>1, <3>1, <4>1, <4>2 DEF Files
      <3>2. CASE c.op = "bc"
        <4>1. E = Executed(regs, c)
          BY <3>2 DEF Execute
        <4>2. Executed(regs, c) = [regs EXCEPT !.bits[c.reg] = @ \ c.bits]
          BY <3>2 DEF Executed
        <4> QED BY <1>1, <2>1, <3>2, <4>1, <4>2 DEF Files
      <3> QED BY <2>1, <3>1, <3>2
    <2>4. /\ f \in [BitRegisters -> SUBSET Nat]
          /\ \A r \in BitRegisters : f[r] = IF r = c.reg THEN b ELSE regs.bits[r]
      <3> HIDE DEF b
      <3> QED BY <1>1, <2>1, <2>2
    <2> HIDE DEF f, E
    <2>5. E \in Files /\ E.bits = f /\ E.nums = regs.nums /\ E.cal = regs.cal
      BY <1>1, <2>3, <2>4 DEF Files
    <2>6. ASSUME NEW r \in Registers PROVE Content(E, r) = Effect(c, r, Content(regs, r))
      <3>1. CASE r = c.reg
        <4>1. Content(E, r) = b /\ Content(regs, r) = regs.bits[c.reg]
          BY <2>1, <2>4, <2>5, <3>1 DEF Content
        <4>2. Effect(c, r, regs.bits[c.reg]) = b
          BY <2>1, <3>1 DEF Effect
        <4> QED BY <4>1, <4>2
      <3>2. CASE r # c.reg
        <4>1. r \in BitRegisters => f[r] = regs.bits[r]
          BY <2>4, <3>2
        <4> QED BY <2>5, <3>2, <4>1 DEF Content, Effect
      <3> QED BY <3>1, <3>2
    <2> QED BY <2>1, <2>5, <2>6 DEF E
  <1>6. CASE c \in [op : {"tr"}, reg : {1, 2, 3}]
    <2>1. c.op = "tr"
      BY <1>6
    <2>2. E = regs
      BY <2>1 DEF Execute, Executed
    <2> QED BY <2>1, <2>2 DEF Effect
  <1>7. Right
    BY <1>3, <1>4, <1>5, <1>6 DEF Orders
  <1> QED BY <1>7

-----------------------------------------------------------------------------
(***************************************************************************)
(* Writes of clients: what they change of all this.                        *)
(***************************************************************************)
\* A setting of a register, or of none, and the request to tell the registers.
Sets(p, v) ==
  /\ p \in Stored \ {"Range"} /\ v \in Int
  /\ p \notin BitParameters => RegisterOf(p) \in NumRegisters
  /\ wanted' = [wanted EXCEPT ![p] = v]
  /\ \E cs \in Commands(p, v) : Push(cs)

RangeOrders(v) == <<Wr(3, Clip(v)), WrCal(Clip(v), calSet)>>

SetsRange(v) ==
  /\ v \in Int /\ wanted' = [wanted EXCEPT !["Range"] = Clip(v)] /\ Push(RangeOrders(v))

SetsTime == \E t : wanted' = [wanted EXCEPT !["AveragingTime"] = t] /\ UNCHANGED <<cmd_queue, dropped>>

Updates == UNCHANGED wanted /\ Push(<<Tr(1), Tr(2), Tr(3)>>)

LEMMA PortIs ==
  ASSUME TypePart, Port
  PROVE  /\ UNCHANGED <<scenario, toDevice, regs, packets, taken, step, readTime, misscaled>>
         /\ calSet' \in Calibrations /\ DOMAIN other' = Others
         /\ \/ /\ synced' = {} /\ touched' = (step > 0)
               /\ (\E p, v : Sets(p, v)) \/ (\E v : SetsRange(v)) \/ SetsTime
            \/ /\ UNCHANGED <<range, currRange, sampleFreq, rate, averaging, numAverage, other, cal>>
               /\ UNCHANGED <<synced, touched>>
               /\ Updates
  <1> USE DEF data
  <1> DEFINE Kept == UNCHANGED <<scenario, toDevice, regs, packets, taken, step, readTime, misscaled>>
             Reset == synced' = {} /\ touched' = (step > 0)
             Good == /\ Kept /\ calSet' \in Calibrations /\ DOMAIN other' = Others
                     /\ Reset /\ ((\E p, v : Sets(p, v)) \/ (\E v : SetsRange(v)) \/ SetsTime)
  <1>1. /\ DOMAIN other = Others /\ calSet \in Calibrations /\ scenario \in Scenarios
        /\ Others \subseteq Stored
        /\ \A s \in scenario.settings : s[1] \in Stored \cup {"AveragingTime"} /\ s[2] \in Int
        /\ \A p \in Others \ BitParameters : RegisterOf(p) \in NumRegisters
        /\ 1 \in NumRegisters
    BY OthersAre, NumRegistersAre DEF TypePart
  <1>2. ASSUME NEW p, NEW v, Writes(p, v) PROVE Kept /\ Reset /\ wanted' = [wanted EXCEPT ![p] = v]
    BY <1>2 DEF Writes, wire
  <1> HIDE DEF Kept, Reset
  <1>3. ASSUME NEW s \in scenario.settings, s[1] = "Range" /\ WriteRange(s[2]) PROVE Good
    <2>1. SetsRange(s[2])
      BY <1>1, <1>2, <1>3 DEF WriteRange, SetsRange, RangeOrders
    <2> QED BY <1>1, <1>2, <1>3, <2>1 DEF WriteRange
  <1>4. ASSUME NEW s \in scenario.settings, s[1] = "SampleFreq" /\ WriteSampleFreq(s[2]) PROVE Good
    <2>1. "SampleFreq" \in Stored \ {"Range"} /\ RegisterOf("SampleFreq") = 1
      BY NamesAre, NumbersAre, RegistersAre DEF Stored, NumberNames
    <2>2. Sets("SampleFreq", s[2])
      BY <1>1, <1>2, <1>4, <2>1 DEF WriteSampleFreq, Sets
    <2> QED BY <1>1, <1>2, <1>4, <2>2 DEF WriteSampleFreq
  <1>5. ASSUME NEW s \in scenario.settings, s[1] = "AveragingTime" /\ WriteAveragingTime(s[2]) PROVE Good
    <2>1. SetsTime
      BY <1>2, <1>5 DEF WriteAveragingTime, SetsTime
    <2> QED BY <1>1, <1>2, <1>5, <2>1 DEF WriteAveragingTime
  <1>6. ASSUME NEW s \in scenario.settings, WriteInteger(s[1], s[2]) PROVE Good
    <2>1. /\ s[1] \in BitParameters \cup NumbersTold \cup {"ReadsPerPacket"}
          /\ Writes(s[1], s[2]) /\ other' = [other EXCEPT ![s[1]] = s[2]]
          /\ \E commands \in Commands(s[1], s[2]) : Push(commands)
      BY <1>6 DEF WriteInteger
    <2>2. s[1] \in Stored \ {"Range"} /\ s[1] \notin {"SampleFreq", "AveragingTime"}
      <3>1. NumbersTold \cup {"ReadsPerPacket"} \subseteq NumberNames
        BY DEF NumbersTold, NumberNames
      <3>2. s[1] \in Stored
        BY <2>1, <3>1, NamesAre DEF Stored
      <3>3. \A p \in BitParameters : p \notin {"Range", "SampleFreq", "AveragingTime"}
        BY NamesAre DEF SwitchNames, FieldNames
      <3>4. \A p \in NumbersTold \cup {"ReadsPerPacket"} : p \notin {"Range", "SampleFreq", "AveragingTime"}
        BY DEF NumbersTold
      <3> QED BY <2>1, <3>2, <3>3, <3>4
    <2>3. s[1] \in Others
      BY <2>2 DEF Others
    <2>4. Sets(s[1], s[2])
      BY <1>1, <1>2, <2>1, <2>2, <2>3 DEF Sets
    <2>5. calSet' \in Calibrations
      <3>1. Loaded(scenario.file)[1] \in Calibrations /\ Loaded(scenario.file)[2] \in Calibrations
        BY <1>1 DEF Calibrations
      <3> QED BY <1>1, <1>6, <3>1 DEF WriteInteger
    <2>6. DOMAIN other' = Others
      BY <1>1, <2>1
    <2> QED BY <1>2, <2>1, <2>4, <2>5, <2>6
  <1>7. ASSUME NEW s \in scenario.settings, WriteDouble(s[1], s[2]) PROVE Good
    <2>1. /\ s[1] \in DOMAIN PidRegisters \cup {"BiasNVoltage", "BiasPVoltage"}
          /\ Writes(s[1], s[2]) /\ other' = [other EXCEPT ![s[1]] = s[2]]
          /\ \E commands \in Commands(s[1], s[2]) : Push(commands)
          /\ UNCHANGED calSet
      BY <1>7 DEF WriteDouble
    <2>2. s[1] \in Stored \ {"Range"} /\ s[1] \notin {"SampleFreq", "AveragingTime"}
      <3>1. {"BiasNVoltage", "BiasPVoltage"} \subseteq NumberNames
        BY DEF NumberNames
      <3>2. s[1] \in Stored
        BY <2>1, <3>1, NamesAre DEF Stored
      <3>3. \A p \in PidNames : p \notin {"Range", "SampleFreq", "AveragingTime"}
        BY DEF PidNames
      <3> QED BY <2>1, <3>2, <3>3, NamesAre
    <2>3. s[1] \in Others
      BY <2>2 DEF Others
    <2>4. Sets(s[1], s[2])
      BY <1>1, <1>2, <2>1, <2>2, <2>3 DEF Sets
    <2>5. DOMAIN other' = Others
      BY <1>1, <2>1
    <2> QED BY <1>1, <1>2, <2>1, <2>4, <2>5
  <1>8. CASE WriteUpdate
    BY <1>1, <1>8 DEF WriteUpdate, wire, params, Updates
  <1>9. CASE \E s \in scenario.settings :
               \/ s[1] = "Range" /\ WriteRange(s[2])
               \/ s[1] = "SampleFreq" /\ WriteSampleFreq(s[2])
               \/ s[1] = "AveragingTime" /\ WriteAveragingTime(s[2])
               \/ WriteInteger(s[1], s[2])
               \/ WriteDouble(s[1], s[2])
    <2>1. Good
      BY <1>3, <1>4, <1>5, <1>6, <1>7, <1>9
    <2> QED BY <2>1 DEF Kept, Reset
  <1> QED BY <1>8, <1>9 DEF Port

\* The commands they push are commands.
LEMMA OrdersPushed ==
  ASSUME TypePart
  PROVE  /\ \A p, v : Sets(p, v) => \E cs \in Seq(Orders) : cs \in Commands(p, v) /\ Push(cs)
         /\ \A v \in Int : /\ Clip(v) \in {0, 1, 2} /\ RangeOrders(v) \in Seq(Orders)
                           /\ Wr(3, Clip(v)) \in Orders /\ WrCal(Clip(v), calSet) \in Orders
         /\ <<Tr(1), Tr(2), Tr(3)>> \in Seq(Orders)
  <1>1. ASSUME NEW p, NEW v, Sets(p, v)
        PROVE  \E cs \in Seq(Orders) : cs \in Commands(p, v) /\ Push(cs)
    <2>1. PICK cs \in Commands(p, v) : Push(cs)
      BY <1>1 DEF Sets
    <2>2. p \in Stored /\ v \in Int /\ scenario \in Scenarios
          /\ (p \notin BitParameters => RegisterOf(p) \in NumRegisters)
      BY <1>1 DEF Sets, TypePart
    <2>3. cs \in Seq(Orders)
      BY <2>2, CommandsAre
    <2> QED BY <2>1, <2>3
  <1>2. ASSUME NEW v \in Int
        PROVE  /\ Clip(v) \in {0, 1, 2} /\ RangeOrders(v) \in Seq(Orders)
               /\ Wr(3, Clip(v)) \in Orders /\ WrCal(Clip(v), calSet) \in Orders
    <2>1. Clip(v) \in {0, 1, 2}
      BY DEF Clip
    <2>2. Wr(3, Clip(v)) \in Orders
      BY <2>1, NumRegistersAre DEF Wr, Orders, TypePart
    <2>3. WrCal(Clip(v), calSet) \in Orders
      BY <2>1 DEF WrCal, Orders, TypePart, Cals
    <2> DEFINE c == Wr(3, Clip(v))
               d == WrCal(Clip(v), calSet)
    <2> HIDE DEF c, d
    <2>4. <<c, d>> \in Seq(Orders)
      BY <2>2, <2>3 DEF c, d
    <2> QED BY <2>1, <2>2, <2>3, <2>4 DEF RangeOrders, c, d
  <1>3. <<Tr(1), Tr(2), Tr(3)>> \in Seq(Orders)
    <2>1. Tr(1) \in Orders /\ Tr(2) \in Orders /\ Tr(3) \in Orders
      BY DEF Tr, Orders
    <2> DEFINE a == Tr(1)
               b == Tr(2)
               c == Tr(3)
    <2> HIDE DEF a, b, c
    <2>2. <<a, b, c>> \in Seq(Orders)
      BY <2>1 DEF a, b, c
    <2> QED BY <2>2 DEF a, b, c
  <1> QED BY <1>1, <1>2, <1>3

-----------------------------------------------------------------------------
(***************************************************************************)
(* Registers and what the driver knows of them.                            *)
(***************************************************************************)
OnlyTells(q) == \A i \in 1..Len(q) : q[i].op = "tr"

\* What is under way, when the driver knows a part of the registers, says the same.
Settled ==
  /\ ~touched /\ OnlyTells(cmd_queue) /\ OnlyTells(toDevice)
  /\ \A i \in 1..Len(packets) : packets[i].kind = "bad" \/ packets[i].regs = regs
  /\ step > 0 => taken.regs = regs

\* How far the first part of the registers has been applied.
Applied ==
  taken.part = 1 /\ ~touched =>
    /\ step > 1 => sampleFreq = taken.regs.nums[1] /\ rate = taken.regs.nums[1]
    /\ step = 2 => readTime = averaging
    /\ step > 2 => numAverage = averaging * taken.regs.nums[1]
    /\ step > 3 => range = taken.regs.nums[3]
    /\ step > 4 => currRange = taken.regs.nums[3]

FirstKnown ==
  /\ range = regs.nums[3] /\ currRange = regs.nums[3]
  /\ sampleFreq = regs.nums[1] /\ rate = regs.nums[1] /\ numAverage = averaging * regs.nums[1]

\* The parameters of one part are as that part of a file says.
PartIs(params_, file, part) ==
  \A p \in Others : IsTold(p) /\ RegisterOf(p) \in Parts[part] => params_[p] = Told(file, p)

KnownPart ==
  /\ ~misscaled
  /\ synced # {} => Settled
  /\ Applied
  /\ 1 \in synced => FirstKnown
  /\ 3 \in synced => cal = regs.cal
  /\ \A part \in synced : PartIs(other, regs, part)

LEMMA PartsAre ==
  /\ \A r \in Parts[3] : r \in Int /\ r >= 100
  /\ PartBegins[1] = 1 /\ PartBegins[2] = 5 /\ PartBegins[3] = 6
  /\ PartEnds[1] = 5 /\ PartEnds[2] = 5 /\ PartEnds[3] = 6
  BY DEF Parts, PartBegins, PartEnds

\* What the invariant says is what InSync says.
LEMMA KnownIsInSync == TypePart /\ KnownPart => InSync
  <1> SUFFICES ASSUME TypePart, KnownPart PROVE InSync
    OBVIOUS
  <1>1. /\ ~misscaled
        /\ 1 \in synced => /\ range = regs.nums[3] /\ currRange = regs.nums[3]
                           /\ sampleFreq = regs.nums[1] /\ numAverage = averaging * regs.nums[1]
        /\ 3 \in synced => cal = regs.cal
    BY DEF KnownPart, FirstKnown
  <1>2. ASSUME NEW part \in synced, NEW p \in DOMAIN other, IsTold(p), RegisterOf(p) \in Parts[part]
        PROVE  IF p \in DOMAIN PidRegisters THEN other[p] = Told(regs, p) ELSE Holds(regs, p, other[p])
    <2>1. other[p] = Told(regs, p)
      BY <1>2 DEF KnownPart, PartIs, TypePart
    <2>2. p \notin DOMAIN PidRegisters => Holds(regs, p, Told(regs, p))
      BY <1>2, ToldHolds, NamesAre
    <2> QED BY <2>1, <2>2
  <1> QED BY <1>1, <1>2 DEF InSync

\* A write.
LEMMA PortKnown == ASSUME TypePart, KnownPart, Port PROVE TypePart' /\ KnownPart'
  <1>1. /\ UNCHANGED <<scenario, toDevice, regs, packets, taken, step, readTime, misscaled>>
        /\ calSet' \in Calibrations /\ DOMAIN other' = Others
    BY PortIs
  <1>2. Others' = Others /\ Orders' = Orders /\ Files' = Files /\ Packs' = Packs
    BY <1>1 DEF Others, Orders, Files, Packs, NumRegisters
  <1>3. ASSUME NEW cs \in Seq(Orders), Push(cs)
        PROVE  /\ cmd_queue' \in Seq(Orders) /\ Len(cmd_queue') <= QueueLen
               /\ OnlyTells(cmd_queue) /\ OnlyTells(cs) => OnlyTells(cmd_queue')
    <2>1. PICK u \in Seq(Orders) :
            /\ cmd_queue' = cmd_queue \o u /\ Len(u) <= Len(cs)
            /\ \A i \in 1..Len(u) : u[i] = cs[i]
            /\ cmd_queue' \in Seq(Orders) /\ Len(cmd_queue') <= QueueLen
      BY <1>3, PushIs DEF TypePart
    <2>2. /\ Len(cmd_queue') = Len(cmd_queue) + Len(u) /\ Len(cmd_queue) \in Nat /\ Len(u) \in Nat
          /\ \A i \in 1..Len(cmd_queue) + Len(u) :
               cmd_queue'[i] = IF i <= Len(cmd_queue) THEN cmd_queue[i] ELSE u[i - Len(cmd_queue)]
      BY <2>1, ConcatProperties, LenProperties DEF TypePart
    <2>3. Len(cs) \in Nat
      BY LenProperties
    <2>4. ASSUME OnlyTells(cmd_queue), OnlyTells(cs), NEW i \in 1..Len(cmd_queue') PROVE cmd_queue'[i].op = "tr"
      <3>1. CASE i <= Len(cmd_queue)
        BY <2>2, <2>4, <3>1 DEF OnlyTells
      <3>2. CASE i > Len(cmd_queue)
        <4>1. i - Len(cmd_queue) \in 1..Len(u) /\ i - Len(cmd_queue) \in 1..Len(cs)
          BY <2>1, <2>2, <2>3, <3>2
        <4>2. cmd_queue'[i] = cs[i - Len(cmd_queue)]
          BY <2>1, <2>2, <3>2, <4>1
        <4> QED BY <2>4, <4>1, <4>2 DEF OnlyTells
      <3> QED BY <2>2, <3>1, <3>2
    <2> QED BY <2>1, <2>4 DEF OnlyTells
  <1>4. CASE synced' = {} /\ touched' = (step > 0)
             /\ ((\E p, v : Sets(p, v)) \/ (\E v : SetsRange(v)) \/ SetsTime)
    <2>1. cmd_queue' \in Seq(Orders) /\ Len(cmd_queue') <= QueueLen
      <3>1. CASE \E p, v : Sets(p, v)
        BY <1>3, <3>1, OrdersPushed
      <3>2. CASE \E v : SetsRange(v)
        BY <1>3, <3>2, OrdersPushed DEF SetsRange
      <3>3. CASE SetsTime
        BY <3>3 DEF SetsTime, TypePart
      <3> QED BY <1>4, <3>1, <3>2, <3>3
    <2>2. touched' \in BOOLEAN /\ (step > 0 => touched')
      <3>1. CASE step > 0
        <4>0. (step > 0) = TRUE
          BY <3>1
        <4>1. touched' = TRUE
          BY <1>4, <4>0, Zenon
        <4> QED BY <4>1
      <3>2. CASE ~(step > 0)
        <4>0. (step > 0) = FALSE
          BY <3>2
        <4>1. touched' = FALSE
          BY <1>4, <4>0, Zenon
        <4> QED BY <3>2, <4>1
      <3> QED BY <3>1, <3>2
    <2>3. TypePart'
      BY <1>1, <1>2, <1>4, <2>1, <2>2 DEF TypePart
    <2>4. ~misscaled'
      BY <1>1 DEF KnownPart
    <2>5. Applied'
      BY <1>1, <2>2 DEF Applied, TypePart
    <2> QED BY <1>4, <2>3, <2>4, <2>5 DEF KnownPart
  <1>5. CASE /\ UNCHANGED <<range, currRange, sampleFreq, rate, averaging, numAverage, other, cal>>
             /\ UNCHANGED <<synced, touched>> /\ Updates
    <2>1. Push(<<Tr(1), Tr(2), Tr(3)>>) /\ <<Tr(1), Tr(2), Tr(3)>> \in Seq(Orders)
      BY <1>5, OrdersPushed DEF Updates
    <2>2. OnlyTells(<<Tr(1), Tr(2), Tr(3)>>)
      <3>1. Tr(1).op = "tr" /\ Tr(2).op = "tr" /\ Tr(3).op = "tr"
        BY DEF Tr
      <3> DEFINE a == Tr(1)
                 b == Tr(2)
                 c == Tr(3)
      <3> HIDE DEF a, b, c
      <3>2. OnlyTells(<<a, b, c>>)
        BY <3>1 DEF OnlyTells, a, b, c
      <3> QED BY <3>2 DEF a, b, c
    <2>3. /\ cmd_queue' \in Seq(Orders) /\ Len(cmd_queue') <= QueueLen
          /\ OnlyTells(cmd_queue) => OnlyTells(cmd_queue')
      BY <1>3, <2>1, <2>2
    <2>4. TypePart'
      BY <1>1, <1>2, <1>5, <2>3 DEF TypePart
    <2>5. Settled => Settled'
      BY <1>1, <1>5, <2>3 DEF Settled, OnlyTells
    <2>6. Applied' /\ (FirstKnown => FirstKnown')
      BY <1>1, <1>5 DEF KnownPart, Applied, FirstKnown
    <2>7. \A part \in synced' : PartIs(other, regs, part)'
      BY <1>1, <1>2, <1>5 DEF KnownPart, PartIs
    <2> QED BY <1>1, <1>5, <2>4, <2>5, <2>6, <2>7 DEF KnownPart
  <1> QED BY <1>4, <1>5, PortIs

\* The command thread takes a command and sends it.
LEMMA IdlesKnown == ASSUME TypePart, KnownPart, CmdIdles PROVE TypePart' /\ KnownPart'
  <1> USE DEF data, params, bounds, history
  <1>1. /\ UNCHANGED <<scenario, calSet, other, regs, packets, taken, step, synced, touched, misscaled>>
        /\ UNCHANGED <<range, currRange, sampleFreq, rate, averaging, numAverage, cal, readTime>>
    BY DEF CmdIdles
  <1>2. Others' = Others /\ Orders' = Orders /\ Files' = Files /\ Packs' = Packs
    BY <1>1 DEF Others, Orders, Files, Packs, NumRegisters
  <1>3. \/ UNCHANGED <<cmd_queue, toDevice>>
        \/ /\ cmd_queue # <<>> /\ cmd_queue' = Tail(cmd_queue)
           /\ toDevice' = Append(toDevice, Head(cmd_queue))
    BY DEF CmdIdles
  <1>4. /\ cmd_queue' \in Seq(Orders) /\ Len(cmd_queue') <= QueueLen /\ toDevice' \in Seq(Orders)
        /\ OnlyTells(cmd_queue) /\ OnlyTells(toDevice) => OnlyTells(cmd_queue') /\ OnlyTells(toDevice')
    <2>1. CASE UNCHANGED <<cmd_queue, toDevice>>
      BY <2>1 DEF TypePart, OnlyTells
    <2>2. CASE /\ cmd_queue # <<>> /\ cmd_queue' = Tail(cmd_queue)
               /\ toDevice' = Append(toDevice, Head(cmd_queue))
      <3>1. /\ cmd_queue \in Seq(Orders) /\ Len(cmd_queue) <= QueueLen /\ toDevice \in Seq(Orders)
        BY DEF TypePart
      <3>2. /\ cmd_queue' \in Seq(Orders) /\ Head(cmd_queue) \in Orders /\ Head(cmd_queue) = cmd_queue[1]
            /\ Len(cmd_queue) \in Nat /\ Len(cmd_queue) > 0 /\ Len(cmd_queue') = Len(cmd_queue) - 1
            /\ \A i \in 1..Len(cmd_queue') : cmd_queue'[i] = cmd_queue[i + 1]
        BY <2>2, <3>1
      <3>3. /\ toDevice' \in Seq(Orders) /\ Len(toDevice) \in Nat /\ Len(toDevice') = Len(toDevice) + 1
            /\ \A i \in 1..Len(toDevice') :
                 toDevice'[i] = IF i <= Len(toDevice) THEN toDevice[i] ELSE cmd_queue[1]
        BY <2>2, <3>1, <3>2
      <3>4. Len(cmd_queue') <= QueueLen
        BY <3>1, <3>2, DirectAssumption
      <3>5. OnlyTells(cmd_queue) => OnlyTells(cmd_queue')
        BY <3>2 DEF OnlyTells
      <3>6. OnlyTells(cmd_queue) /\ OnlyTells(toDevice) => OnlyTells(toDevice')
        BY <3>2, <3>3 DEF OnlyTells
      <3> QED BY <3>2, <3>3, <3>4, <3>5, <3>6
    <2> QED BY <1>3, <2>1, <2>2
  <1>5. TypePart'
    BY <1>1, <1>2, <1>4 DEF TypePart
  <1>6. Settled => Settled'
    BY <1>1, <1>4 DEF Settled
  <1>7. Applied' /\ (FirstKnown => FirstKnown')
    BY <1>1 DEF KnownPart, Applied, FirstKnown
  <1>8. \A part \in synced' : PartIs(other, regs, part)'
    BY <1>1, <1>2 DEF KnownPart, PartIs
  <1> QED BY <1>1, <1>5, <1>6, <1>7, <1>8 DEF KnownPart

\* The T4U executes a command, or does not know it.
LEMMA ExecutesKnown == ASSUME TypePart, KnownPart, Executes PROVE TypePart' /\ KnownPart'
  <1> USE DEF params
  <1> DEFINE c == Head(toDevice)
             k == [kind |-> "regs", part |-> c.reg, regs |-> regs]
  <1>1. /\ UNCHANGED <<scenario, calSet, other, cmd_queue, taken, step, synced, touched, misscaled>>
        /\ UNCHANGED <<range, currRange, sampleFreq, rate, averaging, numAverage, cal, readTime>>
        /\ toDevice # <<>> /\ toDevice' = Tail(toDevice)
    BY DEF Executes
  <1>2. Others' = Others /\ Orders' = Orders /\ Files' = Files /\ Packs' = Packs
    BY <1>1 DEF Others, Orders, Files, Packs, NumRegisters
  <1>3. /\ c \in Orders /\ toDevice' \in Seq(Orders)
        /\ OnlyTells(toDevice) => c.op = "tr" /\ OnlyTells(toDevice')
    <2>1. /\ toDevice \in Seq(Orders) /\ Len(toDevice) \in Nat /\ Len(toDevice) > 0
          /\ c = toDevice[1] /\ c \in Orders
          /\ toDevice' \in Seq(Orders) /\ Len(toDevice') = Len(toDevice) - 1
          /\ \A i \in 1..Len(toDevice') : toDevice'[i] = toDevice[i + 1]
      BY <1>1 DEF TypePart
    <2> HIDE DEF c
    <2> QED BY <2>1 DEF OnlyTells
  <1>4. \/ /\ regs' = Execute(c)
           /\ packets' = packets \/ (c.op = "tr" /\ packets' = Append(packets, k))
        \/ UNCHANGED <<regs, packets>>
    BY DEF Executes
  <1> HIDE DEF c
  <1>5. regs' \in Files /\ (c.op = "tr" => regs' = regs)
    <2>1. scenario \in Scenarios /\ regs \in Files
      BY DEF TypePart
    <2>2. Execute(c) \in Files /\ (c.op = "tr" => Execute(c) = regs)
      BY <1>3, <2>1, ExecuteIs
    <2> QED BY <1>4, <2>1, <2>2
  <1>6. c.op = "tr" => k \in Packs
    <2>1. c.op = "tr" => c.reg \in {1, 2, 3}
      BY <1>3 DEF Orders
    <2> QED BY <2>1 DEF Packs, TypePart
  <1>7. packets' = packets \/ (c.op = "tr" /\ packets' = Append(packets, k))
    BY <1>4
  <1>8. packets' \in Seq(Packs)
    <2>1. packets \in Seq(Packs)
      BY DEF TypePart
    <2> HIDE DEF k
    <2> QED BY <1>6, <1>7, <2>1, AppendProperties
  <1>9. \A i \in 1..Len(packets') :
          \/ i \in 1..Len(packets) /\ packets'[i] = packets[i]
          \/ packets'[i].regs = regs
    <2>1. packets \in Seq(Packs) /\ k.regs = regs
      BY DEF TypePart
    <2>2. CASE packets' = packets
      BY <2>2
    <2>3. CASE c.op = "tr" /\ packets' = Append(packets, k)
      <3> HIDE DEF k
      <3>1. /\ Len(packets') = Len(packets) + 1 /\ Len(packets) \in Nat /\ packets'[Len(packets) + 1] = k
            /\ \A i \in 1..Len(packets) : packets'[i] = packets[i]
        BY <1>6, <2>1, <2>3, AppendProperties, LenProperties
      <3> QED BY <2>1, <3>1
    <2> QED BY <1>7, <2>2, <2>3
  <1>10. TypePart'
    BY <1>1, <1>2, <1>3, <1>5, <1>8 DEF TypePart
  <1>11. ASSUME Settled PROVE Settled' /\ regs' = regs
    <2>1. c.op = "tr" /\ regs' = regs /\ OnlyTells(toDevice')
      BY <1>3, <1>5, <1>11 DEF Settled
    <2>2. \A i \in 1..Len(packets') : packets'[i].kind = "bad" \/ packets'[i].regs = regs'
      BY <1>9, <1>11, <2>1 DEF Settled
    <2> QED BY <1>1, <1>11, <2>1, <2>2 DEF Settled, OnlyTells
  <1>12. Applied'
    BY <1>1 DEF KnownPart, Applied
  <1>13. CASE synced = {}
    BY <1>1, <1>10, <1>12, <1>13 DEF KnownPart
  <1>14. CASE synced # {}
    <2>1. Settled' /\ regs' = regs
      BY <1>11, <1>14 DEF KnownPart
    <2>2. FirstKnown => FirstKnown'
      BY <1>1, <2>1 DEF FirstKnown
    <2>3. \A part \in synced' : PartIs(other, regs, part)'
      BY <1>1, <1>2, <2>1 DEF KnownPart, PartIs
    <2> QED BY <1>1, <1>10, <1>12, <2>1, <2>2, <2>3 DEF KnownPart
  <1> QED BY <1>13, <1>14

\* A packet comes.
LEMMA EmitsKnown == ASSUME TypePart, KnownPart, Emits PROVE TypePart' /\ KnownPart'
  <1> USE DEF params, wire, history
  <1>1. /\ UNCHANGED <<scenario, calSet, other, cmd_queue, toDevice, regs, taken, step, synced, touched, misscaled>>
        /\ UNCHANGED <<range, currRange, sampleFreq, rate, averaging, numAverage, cal, readTime>>
    BY DEF Emits
  <1>2. Others' = Others /\ Orders' = Orders /\ Files' = Files /\ Packs' = Packs
    BY <1>1 DEF Others, Orders, Files, Packs, NumRegisters
  <1>3. PICK kind \in scenario.emits :
          packets' = Append(packets, IF kind = "bad" THEN NoPacket
                                     ELSE [kind |-> kind, part |-> 0, regs |-> regs])
    BY DEF Emits
  <1> DEFINE k == IF kind = "bad" THEN NoPacket ELSE [kind |-> kind, part |-> 0, regs |-> regs]
  <1>4. k \in Packs /\ (k.kind = "bad" \/ k.regs = regs)
    <2>1. kind \in {"readings", "bad"} /\ regs \in Files
      BY <1>3, DirectAssumption DEF TypePart
    <2>2. NoPacket \in Packs /\ NoPacket.kind = "bad"
      BY DEF NoPacket, Packs
    <2>3. kind = "readings" => [kind |-> kind, part |-> 0, regs |-> regs] \in Packs
      BY <2>1 DEF Packs
    <2> QED BY <2>1, <2>2, <2>3
  <1>5. packets' = Append(packets, k) /\ packets \in Seq(Packs)
    BY <1>3 DEF TypePart
  <1> HIDE DEF k
  <1>6. /\ packets' \in Seq(Packs)
        /\ Len(packets') = Len(packets) + 1 /\ Len(packets) \in Nat /\ packets'[Len(packets) + 1] = k
        /\ \A i \in 1..Len(packets) : packets'[i] = packets[i]
    BY <1>4, <1>5, AppendProperties, LenProperties
  <1>7. TypePart'
    BY <1>1, <1>2, <1>6 DEF TypePart
  <1>8. Settled => Settled'
    <2>1. ASSUME Settled, NEW i \in 1..Len(packets') PROVE packets'[i].kind = "bad" \/ packets'[i].regs = regs
      BY <1>4, <1>6, <2>1 DEF Settled
    <2> QED BY <1>1, <2>1 DEF Settled, OnlyTells
  <1>9. Applied' /\ (FirstKnown => FirstKnown')
    BY <1>1 DEF KnownPart, Applied, FirstKnown
  <1>10. \A part \in synced' : PartIs(other, regs, part)'
    BY <1>1, <1>2 DEF KnownPart, PartIs
  <1> QED BY <1>1, <1>7, <1>8, <1>9, <1>10 DEF KnownPart

\* The data thread takes a packet, or all of them.
LEMMA TakesKnown ==
  ASSUME TypePart, KnownPart, DataFlushes \/ DataReadings \/ DataTakes
  PROVE  TypePart' /\ KnownPart'
  <1> USE DEF params, wire, history, Waits
  <1>1. /\ UNCHANGED <<scenario, calSet, other, cmd_queue, toDevice, regs, synced>>
        /\ UNCHANGED <<range, currRange, sampleFreq, rate, averaging, numAverage, cal, readTime>>
        /\ step = 0 /\ packets # <<>>
    BY DEF DataFlushes, DataReadings, DataTakes
  <1>2. Others' = Others /\ Orders' = Orders /\ Files' = Files /\ Packs' = Packs
    BY <1>1 DEF Others, Orders, Files, Packs, NumRegisters
  <1>3. /\ packets \in Seq(Packs) /\ Head(packets) \in Packs /\ Tail(packets) \in Seq(Packs)
        /\ Len(packets) \in Nat /\ Len(packets) > 0 /\ Head(packets) = packets[1]
        /\ Len(Tail(packets)) = Len(packets) - 1
        /\ \A i \in 1..Len(Tail(packets)) : Tail(packets)[i] = packets[i + 1]
    BY <1>1 DEF TypePart
  <1>4. packets' \in {<<>>, Tail(packets)}
    BY DEF DataFlushes, DataReadings, DataTakes
  <1>5. packets' \in Seq(Packs)
    <2>1. <<>> \in Seq(Packs)
      OBVIOUS
    <2> QED BY <1>3, <1>4, <2>1, Zenon
  <1>6. \A i \in 1..Len(packets') : i + 1 \in 1..Len(packets) /\ packets'[i] = packets[i + 1]
    BY <1>3, <1>4
  <1>7. Settled => \A i \in 1..Len(packets') : packets'[i].kind = "bad" \/ packets'[i].regs = regs
    BY <1>6 DEF Settled
  <1>8. Settled => Head(packets).kind = "bad" \/ Head(packets).regs = regs
    BY <1>3 DEF Settled
  <1>9. FirstKnown => FirstKnown'
    BY <1>1 DEF FirstKnown
  <1>10. \A part \in synced' : PartIs(other, regs, part)'
    BY <1>1, <1>2 DEF KnownPart, PartIs
  <1>11. CASE DataFlushes \/ DataReadings
    <2>1. UNCHANGED <<taken, step, touched>>
      BY <1>11 DEF DataFlushes, DataReadings
    <2>2. ~misscaled'
      <3>1. CASE DataFlushes
        BY <3>1 DEF DataFlushes, KnownPart
      <3>2. CASE DataReadings
        <4>1. 1 \in synced => Head(packets).regs.nums[3] = currRange
          <5>1. Head(packets).kind # "bad"
            BY <3>2 DEF DataReadings
          <5> QED BY <1>8, <5>1 DEF KnownPart, FirstKnown
        <4> QED BY <3>2, <4>1 DEF DataReadings, KnownPart
      <3> QED BY <1>11, <3>1, <3>2
    <2>3. TypePart'
      BY <1>1, <1>2, <1>5, <2>1 DEF TypePart
    <2>4. Settled => Settled'
      BY <1>1, <1>7, <2>1 DEF Settled, OnlyTells
    <2>5. Applied'
      BY <1>1, <2>1 DEF KnownPart, Applied
    <2> QED BY <1>1, <1>9, <1>10, <2>2, <2>3, <2>4, <2>5 DEF KnownPart
  <1>12. CASE DataTakes
    <2>1. /\ taken' = Head(packets) /\ step' = PartBegins[Head(packets).part] /\ touched' = FALSE
          /\ UNCHANGED misscaled /\ Head(packets).kind = "regs"
      BY <1>12 DEF DataTakes
    <2>2. taken'.part \in {1, 2, 3}
      BY <1>3, <2>1 DEF Packs
    <2>3. /\ taken'.part = 1 => step' = 1
          /\ taken'.part = 2 => step' = 5
          /\ taken'.part = 3 => step' = 6
      BY <2>1, PartsAre
    <2>4. step' \in {0, 1, 2, 3, 4, 5, 6}
      BY <2>2, <2>3
    <2>5. /\ taken'.part \in {1, 2, 3}
          /\ taken'.part = 1 => step' < 6
          /\ taken'.part = 2 => step' = 5
          /\ taken'.part = 3 => step' = 6
      BY <2>2, <2>3
    <2>6. touched' \in BOOLEAN
      BY <2>1
    <2>7. TypePart'
      <3> HIDE DEF Waits, params, wire, history
      <3> QED BY <1>1, <1>2, <1>5, <2>4, <2>5, <2>6 DEF TypePart
    <2>8. Settled => Settled'
      BY <1>1, <1>7, <1>8, <2>1 DEF Settled, OnlyTells
    <2>9. Applied'
      BY <2>3 DEF Applied
    <2> QED BY <1>1, <1>9, <1>10, <2>1, <2>7, <2>8, <2>9 DEF KnownPart
  <1> QED BY <1>11, <1>12

\* The parameters after the registers of a packet are as these say, and the others as before.
LEMMA ReadBackIs ==
  ASSUME TypePart, NEW file, NEW mine \in {1, 2}
  PROVE  LET o == ReadBack(other, file, Parts[mine])
         IN  /\ DOMAIN o = Others
             /\ PartIs(o, file, mine)
             /\ \A part \in 1..3 : PartIs(other, file, part) => PartIs(o, file, part)
  BY DEF ReadBack, PartIs, TypePart

\* A part is applied, step by step.
LEMMA AppliesKnown == ASSUME TypePart, KnownPart, DataApplies PROVE TypePart' /\ KnownPart'
  <1> DEFINE T == taken.regs
             part == taken.part
             Final == step = PartEnds[part]
             Gained == /\ ~touched /\ T = regs
                       /\ \A i \in DOMAIN packets : packets[i].kind = "bad" \/ packets[i].regs = regs
                       /\ \A i \in DOMAIN (cmd_queue \o toDevice) : (cmd_queue \o toDevice)[i].op = "tr"
  <1>1. /\ UNCHANGED <<scenario, averaging, calSet, cmd_queue, toDevice, regs, packets, misscaled>>
        /\ step > 0
        /\ \/ ApplyRate /\ UNCHANGED <<range, currRange, other, cal>>
           \/ ApplyRange /\ UNCHANGED <<sampleFreq, rate, numAverage, readTime, other, cal>>
           \/ ApplyOthers /\ UNCHANGED <<range, currRange, sampleFreq, rate, numAverage, readTime, cal>>
           \/ ApplyCalibration
              /\ UNCHANGED <<range, currRange, sampleFreq, rate, numAverage, readTime, other>>
        /\ IF step < PartEnds[part]
           THEN step' = step + 1 /\ UNCHANGED <<taken, touched, synced>>
           ELSE /\ step' = 0 /\ taken' = NoPacket /\ touched' = FALSE
                /\ synced' = IF Gained THEN synced \cup {part} ELSE synced \ {part}
    BY DEF DataApplies, wire
  <1>2. Others' = Others /\ Orders' = Orders /\ Files' = Files /\ Packs' = Packs
    BY <1>1 DEF Others, Orders, Files, Packs, NumRegisters
  <1>3. /\ part \in {1, 2, 3} /\ step \in {1, 2, 3, 4, 5, 6}
        /\ part = 1 => step \in {1, 2, 3, 4, 5} /\ PartEnds[part] = 5
        /\ part = 2 => step = 5 /\ PartEnds[part] = 5
        /\ part = 3 => step = 6 /\ PartEnds[part] = 6
    BY <1>1, PartsAre DEF TypePart
  <1>4. Gained => OnlyTells(cmd_queue) /\ OnlyTells(toDevice)
    <2> DEFINE q == cmd_queue \o toDevice
    <2>1. /\ Len(q) = Len(cmd_queue) + Len(toDevice) /\ Len(cmd_queue) \in Nat /\ Len(toDevice) \in Nat
          /\ DOMAIN q = 1..Len(q)
          /\ \A i \in 1..Len(cmd_queue) + Len(toDevice) :
               q[i] = IF i <= Len(cmd_queue) THEN cmd_queue[i] ELSE toDevice[i - Len(cmd_queue)]
      <3>1. cmd_queue \in Seq(Orders) /\ toDevice \in Seq(Orders)
        BY DEF TypePart
      <3>2. q \in Seq(Orders)
        BY <3>1, ConcatProperties
      <3>3. DOMAIN q = 1..Len(q)
        <4> HIDE DEF q
        <4> QED BY <3>2, LenProperties
      <3> QED BY <3>1, <3>3, ConcatProperties, LenProperties
    <2>2. Gained => \A i \in DOMAIN q : q[i].op = "tr"
      OBVIOUS
    <2> HIDE DEF Gained, q
    <2>3. ASSUME Gained, NEW i \in 1..Len(cmd_queue) PROVE cmd_queue[i].op = "tr"
      <3>1. i \in DOMAIN q /\ q[i] = cmd_queue[i]
        BY <2>1
      <3> QED BY <2>2, <2>3, <3>1
    <2>4. ASSUME Gained, NEW i \in 1..Len(toDevice) PROVE toDevice[i].op = "tr"
      <3> DEFINE j == Len(cmd_queue) + i
      <3>1. j \in DOMAIN q /\ q[j] = toDevice[i]
        BY <2>1
      <3> QED BY <2>2, <2>4, <3>1
    <2> QED BY <2>3, <2>4 DEF OnlyTells
  <1>5. Gained => /\ ~touched /\ T = regs
                  /\ \A i \in 1..Len(packets) : packets[i].kind = "bad" \/ packets[i].regs = regs
    <2>1. DOMAIN packets = 1..Len(packets)
      BY LenProperties DEF TypePart
    <2> QED BY <2>1
  <1> HIDE DEF Gained
  <1>6. synced # {} => T = regs /\ Settled
    BY <1>1 DEF KnownPart, Settled
  \* The last step of a part.
  <1>7. /\ DOMAIN other' = Others
        /\ Final => PartIs(other', T, part)
        /\ \A n \in synced : PartIs(other', regs, n)
    <2>1. CASE step = 5
      <3>1. other' = ReadBack(other, T, Parts[part]) /\ part \in {1, 2}
        BY <1>1, <1>3, <2>1 DEF ApplyRate, ApplyRange, ApplyOthers, ApplyCalibration
      <3>2. /\ DOMAIN other' = Others /\ PartIs(other', T, part)
            /\ \A n \in 1..3 : PartIs(other, T, n) => PartIs(other', T, n)
        BY <3>1, ReadBackIs
      <3>3. \A n \in synced : n \in 1..3 /\ PartIs(other, regs, n)
        BY DEF KnownPart, TypePart
      <3> QED BY <1>6, <3>2, <3>3
    <2>2. CASE step # 5
      <3>1. UNCHANGED other
        BY <1>1, <1>3, <2>2 DEF ApplyOthers
      <3>2. Final => part = 3
        BY <1>3, <2>2
      <3>3. part = 3 => PartIs(other', T, part)
        <4>1. \A p \in Others : RegisterOf(p) \in Nat /\ RegisterOf(p) < 100
          BY OthersAre, RegistersDiffer DEF TypePart
        <4>2. \A p \in Others : RegisterOf(p) \notin Parts[3]
          BY <4>1, PartsAre
        <4> QED BY <4>2 DEF PartIs
      <3> QED BY <3>1, <3>2, <3>3 DEF KnownPart, TypePart
    <2> QED BY <2>1, <2>2
  <1>8. /\ part = 3 => cal' = T.cal
        /\ part # 3 => UNCHANGED cal
    BY <1>1, <1>3 DEF ApplyRate, ApplyRange, ApplyOthers, ApplyCalibration
  <1>9. /\ part # 1 => UNCHANGED <<range, currRange, sampleFreq, rate, numAverage, readTime>>
        /\ step = 1 => /\ sampleFreq' = T.nums[1] /\ rate' = T.nums[1] /\ readTime' = averaging
                       /\ UNCHANGED <<range, currRange, numAverage>>
        /\ step = 2 => /\ numAverage' = readTime * rate
                       /\ UNCHANGED <<range, currRange, sampleFreq, rate>>
        /\ step = 3 => /\ range' = T.nums[3]
                       /\ UNCHANGED <<currRange, sampleFreq, rate, numAverage>>
        /\ step = 4 => /\ currRange' = T.nums[3]
                       /\ UNCHANGED <<range, sampleFreq, rate, numAverage>>
        /\ step = 5 => UNCHANGED <<range, currRange, sampleFreq, rate, numAverage>>
    BY <1>1, <1>3 DEF ApplyRate, ApplyRange, ApplyOthers, ApplyCalibration
  <1>10. 1 \in synced => FirstKnown'
    <2>1. ASSUME 1 \in synced PROVE FirstKnown'
      <3>1. T = regs /\ regs' = regs /\ averaging' = averaging /\ FirstKnown /\ ~touched
        BY <1>1, <1>6, <2>1 DEF KnownPart, Settled
      <3>2. part = 1 /\ step = 2 => readTime = averaging
        BY <3>1 DEF KnownPart, Applied
      <3> HIDE DEF T, part
      <3>3. CASE part # 1
        BY <1>9, <3>1, <3>3 DEF FirstKnown
      <3>4. CASE part = 1
        <4>1. step \in {1, 2, 3, 4, 5}
          BY <1>3, <3>4
        <4> QED BY <1>9, <3>1, <3>2, <3>4, <4>1 DEF FirstKnown
      <3> QED BY <3>3, <3>4
    <2> QED BY <2>1
  <1>11. CASE step < PartEnds[part]
    <2>1. step' = step + 1 /\ UNCHANGED <<taken, touched, synced>> /\ part = 1 /\ step \in {1, 2, 3, 4}
      BY <1>1, <1>3, <1>11
    <2>2. TypePart'
      BY <1>1, <1>2, <1>7, <2>1 DEF TypePart
    <2>3. Applied'
      <3> SUFFICES ASSUME ~touched
                   PROVE  /\ step' > 1 => sampleFreq' = T.nums[1] /\ rate' = T.nums[1]
                          /\ step' = 2 => readTime' = averaging
                          /\ step' > 2 => numAverage' = averaging * T.nums[1]
                          /\ step' > 3 => range' = T.nums[3]
                          /\ step' > 4 => currRange' = T.nums[3]
        BY <1>1, <2>1 DEF Applied
      <3>1. /\ step > 1 => sampleFreq = T.nums[1] /\ rate = T.nums[1]
            /\ step = 2 => readTime = averaging
            /\ step > 2 => numAverage = averaging * T.nums[1]
            /\ step > 3 => range = T.nums[3]
        BY <2>1 DEF KnownPart, Applied
      <3> HIDE DEF T, part
      <3>2. CASE step = 1
        BY <1>9, <2>1, <3>1, <3>2
      <3>3. CASE step = 2
        BY <1>9, <2>1, <3>1, <3>3
      <3>4. CASE step = 3
        BY <1>9, <2>1, <3>1, <3>4
      <3>5. CASE step = 4
        BY <1>9, <2>1, <3>1, <3>5
      <3> QED BY <2>1, <3>2, <3>3, <3>4, <3>5
    <2>4. synced' # {} => Settled'
      BY <1>1, <1>6, <2>1 DEF Settled, OnlyTells
    <2>5. \A n \in synced' : PartIs(other, regs, n)'
      BY <1>1, <1>2, <1>7, <2>1 DEF PartIs
    <2>6. 3 \in synced' => cal' = regs'.cal
      BY <1>1, <1>8, <2>1 DEF KnownPart
    <2> QED BY <1>1, <1>10, <2>1, <2>2, <2>3, <2>4, <2>5, <2>6 DEF KnownPart
  <1>12. CASE ~(step < PartEnds[part])
    <2>1. /\ step' = 0 /\ taken' = NoPacket /\ touched' = FALSE
          /\ synced' = IF Gained THEN synced \cup {part} ELSE synced \ {part}
      BY <1>1, <1>12
    <2>2. Final
      BY <1>3, <1>12
    <2>3. synced' \subseteq synced \cup {part} /\ (part \in synced' => Gained)
      BY <2>1
    <2>4. TypePart'
      <3>1. synced' \subseteq {1, 2, 3} /\ step' = 0 /\ ~(step' > 0)
        <4>1. synced \subseteq {1, 2, 3}
          BY DEF TypePart
        <4> HIDE DEF part, Final, T
        <4>2. synced' \subseteq {1, 2, 3}
          BY <1>3, <2>3, <4>1
        <4> QED BY <2>1, <4>2
      <3>3. touched' \in BOOLEAN
        BY <2>1, Zenon
      <3>2. DOMAIN other' = Others'
        BY <1>2, <1>7
      <3> QED BY <1>1, <1>2, <3>1, <3>2, <3>3 DEF TypePart
    <2>5. Applied'
      BY <2>1 DEF Applied, NoPacket
    <2>6. synced' # {} => Settled'
      <3>1. ASSUME Gained PROVE Settled'
        BY <1>1, <1>4, <1>5, <2>1, <3>1 DEF Settled, OnlyTells
      <3>2. ASSUME synced # {} PROVE Settled'
        BY <1>1, <1>6, <2>1, <3>2 DEF Settled, OnlyTells
      <3> QED BY <2>3, <3>1, <3>2
    <2>7. \A n \in synced' : PartIs(other, regs, n)'
      <3>1. \A n \in synced' : PartIs(other', regs, n)
        BY <1>5, <1>7, <2>2, <2>3
      <3> QED BY <1>1, <1>2, <3>1 DEF PartIs
    <2>8. 3 \in synced' => cal' = regs'.cal
      BY <1>1, <1>5, <1>8, <2>3 DEF KnownPart
    <2>9. 1 \in synced' => FirstKnown'
      <3>1. CASE part = 1
        <4>1. ASSUME 1 \in synced' PROVE FirstKnown'
          <5>1. Gained /\ T = regs /\ ~touched /\ step = 5
            BY <1>3, <1>5, <2>2, <2>3, <3>1, <4>1
          <5>2. /\ sampleFreq = T.nums[1] /\ rate = T.nums[1] /\ numAverage = averaging * T.nums[1]
                /\ range = T.nums[3] /\ currRange = T.nums[3]
            BY <3>1, <5>1 DEF KnownPart, Applied
          <5> HIDE DEF T, part
          <5> QED BY <1>1, <1>9, <5>1, <5>2 DEF FirstKnown
        <4> QED BY <4>1
      <3>2. CASE part # 1
        BY <1>10, <2>3, <3>2
      <3> QED BY <3>1, <3>2
    <2> QED BY <1>1, <2>4, <2>5, <2>6, <2>7, <2>8, <2>9 DEF KnownPart
  <1> QED BY <1>11, <1>12

\* All this is left alone.
kept == <<scenario, range, currRange, sampleFreq, rate, averaging, numAverage, other, calSet, cal,
          cmd_queue, toDevice, regs, packets, taken, step, readTime, synced, touched, misscaled>>

LEMMA KnownStays == ASSUME TypePart, KnownPart, UNCHANGED kept PROVE TypePart' /\ KnownPart'
  <1>1. /\ UNCHANGED <<scenario, calSet, other, cmd_queue, toDevice, regs, packets, taken, step>>
        /\ UNCHANGED <<range, currRange, sampleFreq, rate, averaging, numAverage, cal, readTime>>
        /\ UNCHANGED <<synced, touched, misscaled>>
    BY DEF kept
  <1>2. Others' = Others /\ Orders' = Orders /\ Files' = Files /\ Packs' = Packs
    BY <1>1 DEF Others, Orders, Files, Packs, NumRegisters
  <1>3. TypePart'
    BY <1>1, <1>2 DEF TypePart
  <1>4. (Settled => Settled') /\ Applied' /\ (FirstKnown => FirstKnown')
    BY <1>1 DEF KnownPart, Settled, OnlyTells, Applied, FirstKnown
  <1>5. \A part \in synced' : PartIs(other, regs, part)'
    BY <1>1, <1>2 DEF KnownPart, PartIs
  <1> QED BY <1>1, <1>3, <1>4, <1>5 DEF KnownPart

LEMMA TypesStay == DirectSpec => [](TypePart /\ KnownPart)
  <1>1. DirectInit => TypePart /\ KnownPart
    <2> SUFFICES ASSUME DirectInit PROVE TypePart /\ KnownPart
      OBVIOUS
    <2>1. /\ scenario \in Scenarios /\ Loaded(scenario.file) # <<>> /\ calSet = Loaded(scenario.file)[1]
          /\ other = [p \in Others |-> 0] /\ cmd_queue = <<>> /\ toDevice = <<>>
          /\ packets = <<>> /\ step = 0 /\ synced = {} /\ touched = FALSE /\ misscaled = FALSE
          /\ taken = NoPacket
      BY DEF DirectInit
    <2>2. calSet \in Calibrations
      BY <2>1 DEF Calibrations
    <2>3. regs \in Files
      <3>1. PICK r \in Ranges, f \in Rates :
              regs = [bits |-> [reg \in {0, 19, 93} |-> IF reg = 0 THEN {10} ELSE IF reg = 19 THEN {0, 4} ELSE {}],
                      nums |-> [reg \in {1, 3} \cup {RegisterOf(p) : p \in Others \ BitParameters} |->
                                  IF reg = 1 THEN f ELSE IF reg = 3 THEN r ELSE 0],
                      cal |-> <<r, calSet>>]
        BY DEF DirectInit
      <3>2. r \in Int /\ f \in Int
        BY DirectAssumption
      <3> DEFINE b == [reg \in {0, 19, 93} |-> IF reg = 0 THEN {10} ELSE IF reg = 19 THEN {0, 4} ELSE {}]
                 n == [reg \in NumRegisters |-> IF reg = 1 THEN f ELSE IF reg = 3 THEN r ELSE 0]
      <3>3. b \in [BitRegisters -> SUBSET Nat]
        BY DEF BitRegisters
      <3>4. n \in [NumRegisters -> Int]
        BY <3>2
      <3>5. <<r, calSet>> \in Cals
        BY <2>2, <3>2 DEF Cals
      <3>6. regs = [bits |-> b, nums |-> n, cal |-> <<r, calSet>>]
        BY <3>1 DEF NumRegisters
      <3> HIDE DEF b, n
      <3> QED BY <3>3, <3>4, <3>5, <3>6 DEF Files
    <2>4. TypePart
      <3>1. /\ DOMAIN other = Others /\ synced \subseteq {1, 2, 3}
            /\ step \in {0, 1, 2, 3, 4, 5, 6} /\ ~(step > 0)
        BY <2>1
      <3>4. touched \in BOOLEAN
        BY <2>1, Zenon
      <3>2. cmd_queue \in Seq(Orders) /\ toDevice \in Seq(Orders) /\ packets \in Seq(Packs)
        BY <2>1
      <3>3. Len(cmd_queue) <= QueueLen
        BY <2>1, DirectAssumption
      <3> QED BY <2>1, <2>2, <2>3, <3>1, <3>2, <3>3, <3>4 DEF TypePart
    <2> QED BY <2>1, <2>4 DEF KnownPart, Applied, NoPacket
  <1>2. TypePart /\ KnownPart /\ [DirectNext]_directVars => TypePart' /\ KnownPart'
    <2> SUFFICES ASSUME TypePart, KnownPart, [DirectNext]_directVars PROVE TypePart' /\ KnownPart'
      OBVIOUS
    <2>1. CASE Port
      BY <2>1, PortKnown
    <2>2. CASE CmdIdles
      BY <2>2, IdlesKnown
    <2>3. CASE CmdFirst \/ CmdSecond \/ CmdRest \/ Arrives \/ UNCHANGED directVars
      <3>1. UNCHANGED kept
        BY <2>3 DEF CmdFirst, CmdSecond, CmdRest, Arrives, directVars, params, parser, wire, data,
                    bounds, history, kept
      <3> QED BY <3>1, KnownStays
    <2>4. CASE Executes
      BY <2>4, ExecutesKnown
    <2>5. CASE Emits
      BY <2>5, EmitsKnown
    <2>6. CASE DataThread
      BY <2>6, TakesKnown, AppliesKnown DEF DataThread
    <2> QED BY <2>1, <2>2, <2>3, <2>4, <2>5, <2>6 DEF DirectNext, CmdThread
  <1> QED BY <1>1, <1>2, PTL DEF DirectSpec

\* Once the driver knows a part of the registers its parameters are those of the T4U, what it
\* computes from them too, and readings are scaled for the range they were made in, as long
\* as nobody writes: whatever was dropped, lost or flushed (processRegVal, triggerCallbacks).
THEOREM StaysInSync == DirectSpec => []InSync
  BY TypesStay, KnownIsInSync, PTL

-----------------------------------------------------------------------------
(***************************************************************************)
(* Settings: what is under way leads each register to its values.          *)
(***************************************************************************)
\* The commands q take register r from x to y.
Leads(r, x, q, y) ==
  \E f : f[0] = x /\ f[Len(q)] = y /\ \A i \in 1..Len(q) : f[i] = Effect(q[i], r, f[i - 1])

LEMMA LeadsNowhere == \A r, x, y : Leads(r, x, <<>>, y) <=> x = y
  <1>1. ASSUME NEW r, NEW x PROVE Leads(r, x, <<>>, x)
    <2> DEFINE f == [i \in {0} |-> x]
    <2>1. f[0] = x /\ Len(<<>>) = 0
      OBVIOUS
    <2> HIDE DEF f
    <2> QED BY <2>1 DEF Leads
  <1>2. ASSUME NEW r, NEW x, NEW y, Leads(r, x, <<>>, y) PROVE x = y
    BY <1>2 DEF Leads
  <1> QED BY <1>1, <1>2

LEMMA LeadsOn ==
  ASSUME NEW S, NEW q \in Seq(S), NEW u \in Seq(S), NEW r, NEW x, NEW y, NEW z,
         Leads(r, x, q, y), Leads(r, y, u, z)
  PROVE  Leads(r, x, q \o u, z)
  <1>1. PICK f : f[0] = x /\ f[Len(q)] = y /\ \A i \in 1..Len(q) : f[i] = Effect(q[i], r, f[i - 1])
    BY DEF Leads
  <1>2. PICK g : g[0] = y /\ g[Len(u)] = z /\ \A i \in 1..Len(u) : g[i] = Effect(u[i], r, g[i - 1])
    BY DEF Leads
  <1> DEFINE w == q \o u
             m == Len(q)
             n == Len(u)
             h == [i \in 0..(m + n) |-> IF i <= m THEN f[i] ELSE g[i - m]]
  <1>3. /\ m \in Nat /\ n \in Nat /\ Len(w) = m + n
        /\ \A i \in 1..(m + n) : w[i] = IF i <= m THEN q[i] ELSE u[i - m]
    BY ConcatProperties, LenProperties
  <1>4. \A i \in 0..(m + n) : h[i] = IF i <= m THEN f[i] ELSE g[i - m]
    OBVIOUS
  <1> HIDE DEF h, m, n, w
  <1>5. h[0] = x /\ h[Len(w)] = z
    <2>1. h[0] = x
      BY <1>1, <1>3, <1>4
    <2>2. CASE n = 0
      BY <1>1, <1>2, <1>3, <1>4, <2>2 DEF m, n
    <2>3. CASE n # 0
      <3>1. m + n \in 0..(m + n) /\ ~(m + n <= m) /\ (m + n) - m = n
        BY <1>3, <2>3
      <3> QED BY <1>2, <1>3, <1>4, <2>1, <3>1 DEF n
    <2> QED BY <2>1, <2>2, <2>3
  <1>6. ASSUME NEW i \in 1..Len(w) PROVE h[i] = Effect(w[i], r, h[i - 1])
    <2>0. i \in Int /\ i >= 1 /\ i <= m + n /\ i \in 0..(m + n) /\ i - 1 \in 0..(m + n)
      BY <1>3
    <2>1. CASE i <= m
      <3>1. i \in 1..m /\ i - 1 <= m
        BY <1>3, <2>0, <2>1
      <3>2. h[i] = f[i] /\ h[i - 1] = f[i - 1] /\ w[i] = q[i]
        BY <1>3, <1>4, <2>0, <2>1, <3>1
      <3> QED BY <1>1, <3>1, <3>2 DEF m
    <2>2. CASE i > m
      <3> DEFINE j == i - m
      <3>1. j \in 1..n /\ ~(i <= m)
        BY <1>3, <2>0, <2>2
      <3>2. h[i] = g[j] /\ w[i] = u[j]
        BY <1>3, <1>4, <2>0, <3>1
      <3>3. h[i - 1] = g[j - 1]
        <4>1. CASE i - 1 <= m
          <5>1. i - 1 = m /\ j - 1 = 0
            BY <1>3, <2>0, <2>2, <4>1
          <5>2. h[m] = f[m]
            BY <1>3, <1>4
          <5> QED BY <1>1, <1>2, <5>1, <5>2 DEF m
        <4>2. CASE ~(i - 1 <= m)
          <5>1. (i - 1) - m = j - 1
            BY <1>3, <2>0
          <5> QED BY <1>4, <2>0, <4>2, <5>1
        <4> QED BY <4>1, <4>2
      <3> HIDE DEF j
      <3> QED BY <1>2, <3>1, <3>2, <3>3 DEF n
    <2> QED BY <1>3, <2>0, <2>1, <2>2
  <1>7. Leads(r, x, w, z)
    BY <1>5, <1>6 DEF Leads
  <1> QED BY <1>7 DEF w

\* When the first of them has been executed.
LEMMA LeadsFrom ==
  ASSUME NEW S, NEW q \in Seq(S), q # <<>>, NEW r, NEW x, NEW y, Leads(r, x, q, y)
  PROVE  Leads(r, Effect(Head(q), r, x), Tail(q), y)
  <1>1. PICK f : f[0] = x /\ f[Len(q)] = y /\ \A i \in 1..Len(q) : f[i] = Effect(q[i], r, f[i - 1])
    BY DEF Leads
  <1> DEFINE w == Tail(q)
             n == Len(w)
             h == [i \in 0..n |-> f[i + 1]]
  <1>2. /\ n \in Nat /\ Len(q) = n + 1 /\ Head(q) = q[1]
        /\ \A i \in 1..n : w[i] = q[i + 1]
    OBVIOUS
  <1>3. \A i \in 0..n : h[i] = f[i + 1]
    OBVIOUS
  <1> HIDE DEF h, n, w
  <1>4. h[0] = Effect(Head(q), r, x)
    <2>1. 1 \in 1..Len(q) /\ h[0] = f[1]
      BY <1>2, <1>3
    <2>2. f[1] = Effect(q[1], r, f[1 - 1])
      BY <1>1, <2>1
    <2> QED BY <1>1, <1>2, <2>1, <2>2
  <1>5. h[Len(w)] = y
    BY <1>1, <1>2, <1>3 DEF n
  <1>6. ASSUME NEW i \in 1..Len(w) PROVE h[i] = Effect(w[i], r, h[i - 1])
    <2> DEFINE j == i + 1
    <2>1. j \in 1..Len(q) /\ i \in 0..n /\ i - 1 \in 0..n /\ j - 1 = i /\ (i - 1) + 1 = i
      BY <1>2 DEF n
    <2>2. f[j] = Effect(q[j], r, f[j - 1])
      BY <1>1, <2>1
    <2> QED BY <1>2, <1>3, <2>1, <2>2 DEF n
  <1>7. Leads(r, Effect(Head(q), r, x), w, y)
    BY <1>4, <1>5, <1>6 DEF Leads
  <1> QED BY <1>7 DEF w

\* Commands to other registers.
LEMMA LeadsPast ==
  ASSUME NEW S, NEW q \in Seq(S), NEW r, NEW x, \A i \in 1..Len(q) : q[i].op = "tr" \/ q[i].reg # r
  PROVE  Leads(r, x, q, x)
  <1> DEFINE f == [i \in 0..Len(q) |-> x]
  <1>1. Len(q) \in Nat
    BY LenProperties
  <1>2. \A i \in 0..Len(q) : f[i] = x
    OBVIOUS
  <1> HIDE DEF f
  <1>3. f[0] = x /\ f[Len(q)] = x
    BY <1>1, <1>2
  <1>4. ASSUME NEW i \in 1..Len(q) PROVE f[i] = Effect(q[i], r, f[i - 1])
    <2>1. i \in 0..Len(q) /\ i - 1 \in 0..Len(q)
      BY <1>1
    <2> QED BY <1>2, <2>1 DEF Effect
  <1> QED BY <1>3, <1>4 DEF Leads

\* One command, and two.
LEMMA LeadsOne == \A c, r, x : Leads(r, x, <<c>>, Effect(c, r, x))
  <1> SUFFICES ASSUME NEW c, NEW r, NEW x PROVE Leads(r, x, <<c>>, Effect(c, r, x))
    OBVIOUS
  <1> DEFINE y == Effect(c, r, x)
             f == [i \in {0, 1} |-> IF i = 0 THEN x ELSE y]
             q == <<c>>
  <1>1. f[0] = x /\ f[1] = y /\ Len(q) = 1 /\ q[1] = c
    OBVIOUS
  <1> HIDE DEF f, q
  <1>2. \A i \in 1..Len(q) : i = 1 /\ i - 1 = 0
    BY <1>1
  <1>3. \A i \in 1..Len(q) : f[i] = Effect(q[i], r, f[i - 1])
    BY <1>1, <1>2
  <1>4. Leads(r, x, q, y)
    BY <1>1, <1>3 DEF Leads
  <1> QED BY <1>4 DEF q

LEMMA LeadsTwo == \A c, d, r, x : Leads(r, x, <<c, d>>, Effect(d, r, Effect(c, r, x)))
  <1> SUFFICES ASSUME NEW c, NEW d, NEW r, NEW x
               PROVE  Leads(r, x, <<c, d>>, Effect(d, r, Effect(c, r, x)))
    OBVIOUS
  <1> DEFINE y == Effect(c, r, x)
             z == Effect(d, r, y)
             f == [i \in {0, 1, 2} |-> IF i = 0 THEN x ELSE IF i = 1 THEN y ELSE z]
             q == <<c, d>>
  <1>1. f[0] = x /\ f[1] = y /\ f[2] = z /\ Len(q) = 2 /\ q[1] = c /\ q[2] = d
    OBVIOUS
  <1> HIDE DEF f, q
  <1>2. \A i \in 1..Len(q) : (i = 1 /\ i - 1 = 0) \/ (i = 2 /\ i - 1 = 1)
    BY <1>1
  <1> HIDE DEF z
  <1>3. \A i \in 1..Len(q) : f[i] = Effect(q[i], r, f[i - 1])
    BY <1>1, <1>2 DEF z
  <1>4. Leads(r, x, q, z)
    BY <1>1, <1>3 DEF Leads
  <1> QED BY <1>4 DEF q, z

\* The bits of a register a parameter has, and those of them a value sets.
Place(p) ==
  IF p \in SwitchNames THEN {Switches[p][2]}
  ELSE IF p = "DACMode" THEN {0, 1, 2} ELSE IF p = "PosTrackMode" THEN {3, 4} ELSE {12, 13, 14}

Pattern(p, v) ==
  IF p \in SwitchNames THEN IF v # 0 THEN {Switches[p][2]} ELSE {}
  ELSE IF p \in FieldNames THEN Bits(v, Fields[p][2], Fields[p][3])
  ELSE IF v \in {1, 2} THEN WaitStates[v + 1] ELSE {}

\* The content of a register of parameter p has the value v: Holds.
HoldsIn(x, p, v) ==
  IF p \in BitParameters THEN x \cap Place(p) = Pattern(p, v)
  ELSE IF p \in NumberNames THEN x = v
  ELSE LET pid == PidRegisters[p]
           size == pid.hi - pid.lo
       IN  Exact(pid, v) - x * size \in -size..size

LEMMA HoldsIs ==
  ASSUME NEW file, NEW p \in Stored, NEW v
  PROVE  Holds(file, p, v) <=> HoldsIn(Content(file, RegisterOf(p)), p, v)
  <1>1. p \in SwitchNames \cup FieldNames \cup {"WaitStateMode"} \cup NumberNames \cup PidNames
    BY NamesAre DEF Stored
  <1>2. /\ p \in BitParameters <=> RegisterOf(p) \in BitRegisters
        /\ RegisterOf(p) # 100
    <2>1. RegisterOf(p) \in Nat /\ RegisterOf(p) < 100
      BY RegistersDiffer
    <2> QED BY <2>1, RegistersDiffer
  <1>3. CASE p \in SwitchNames
    <2> DEFINE b == Switches[p][2]
               x == file.bits[Switches[p][1]]
    <2>1. p \in BitParameters /\ Content(file, RegisterOf(p)) = x
      BY <1>2, <1>3, NamesAre, RegistersAre DEF Content
    <2>2. Holds(file, p, v) <=> ((b \in x) = (v # 0))
      BY <1>3, NamesAre, NamesDiffer DEF Holds
    <2>3. Place(p) = {b} /\ Pattern(p, v) = IF v # 0 THEN {b} ELSE {}
      BY <1>3 DEF Place, Pattern
    <2> HIDE DEF b, x
    <2>4. ((b \in x) = (v # 0)) <=> x \cap {b} = IF v # 0 THEN {b} ELSE {}
      OBVIOUS
    <2>5. HoldsIn(x, p, v) <=> x \cap {b} = IF v # 0 THEN {b} ELSE {}
      BY <2>1, <2>3 DEF HoldsIn
    <2> QED BY <2>1, <2>2, <2>4, <2>5
  <1>4. CASE p \in FieldNames
    <2> DEFINE f == Fields[p]
               x == file.bits[f[1]]
    <2>1. p \in BitParameters /\ Content(file, RegisterOf(p)) = x
      BY <1>2, <1>4, NamesAre, RegistersAre DEF Content
    <2>2. Holds(file, p, v) <=> x \cap (f[2]..(f[2] + f[3] - 1)) = Bits(v, f[2], f[3])
      BY <1>4, NamesAre, NamesDiffer DEF Holds
    <2>3. Place(p) = f[2]..(f[2] + f[3] - 1)
      <3>1. p = "DACMode" \/ p = "PosTrackMode"
        BY <1>4 DEF FieldNames
      <3>2. p \notin SwitchNames
        BY <1>4, NamesDiffer
      <3>3. 0..(0 + 3 - 1) = {0, 1, 2} /\ 3..(3 + 2 - 1) = {3, 4}
        OBVIOUS
      <3>4. CASE p = "DACMode"
        BY <3>2, <3>3, <3>4, FieldsAre DEF Place
      <3>5. CASE p = "PosTrackMode"
        <4>1. Place(p) = {3, 4} /\ f = <<19, 3, 2>>
          BY <3>2, <3>5, FieldsAre DEF Place
        <4> QED BY <3>3, <4>1
      <3> QED BY <3>1, <3>4, <3>5
    <2>4. Pattern(p, v) = Bits(v, f[2], f[3])
      BY <1>4, NamesDiffer DEF Pattern
    <2> HIDE DEF f, x
    <2> QED BY <2>1, <2>2, <2>3, <2>4 DEF HoldsIn
  <1>5. CASE p = "WaitStateMode"
    <2> DEFINE x == file.bits[0]
    <2>1. p \in BitParameters /\ Content(file, RegisterOf(p)) = x
      BY <1>2, <1>5, NamesAre, RegistersAre DEF Content
    <2>2. Holds(file, p, v) <=> x \cap WaitStateBits = IF v \in {1, 2} THEN WaitStates[v + 1] ELSE {}
      BY <1>5, NamesAre, NamesDiffer DEF Holds
    <2>3. Place(p) = WaitStateBits
      <3>1. p \notin SwitchNames /\ p # "DACMode" /\ p # "PosTrackMode"
        BY <1>5, NamesDiffer
      <3>2. WaitStateBits = {12, 13, 14}
        BY DEF WaitStateBits
      <3> QED BY <3>1, <3>2 DEF Place
    <2>4. Pattern(p, v) = IF v \in {1, 2} THEN WaitStates[v + 1] ELSE {}
      BY <1>5, NamesDiffer DEF Pattern
    <2> HIDE DEF x
    <2> QED BY <2>1, <2>2, <2>3, <2>4 DEF HoldsIn
  <1>6. CASE p \in NumberNames
    <2>1. p \notin BitParameters
      BY <1>6, NamesAre, NamesDiffer
    <2>2. Content(file, RegisterOf(p)) = file.nums[Numbers[p]]
      BY <1>2, <1>6, <2>1, RegistersAre DEF Content
    <2>3. Holds(file, p, v) <=> file.nums[Numbers[p]] = v
      BY <1>6, NamesAre, NamesDiffer DEF Holds
    <2> QED BY <1>6, <2>1, <2>2, <2>3 DEF HoldsIn
  <1>7. CASE p \in PidNames
    <2> DEFINE pid == PidRegisters[p]
               size == pid.hi - pid.lo
               x == file.nums[pid.reg]
    <2>1. p \notin BitParameters /\ p \notin NumberNames
      BY <1>7, NamesAre, NamesDiffer
    <2>2. Content(file, RegisterOf(p)) = x
      BY <1>2, <1>7, <2>1, RegistersAre DEF Content
    <2>3. Holds(file, p, v) <=> Exact(pid, v) - x * size \in -size..size
      BY <1>7, NamesAre, NamesDiffer DEF Holds
    <2>4. HoldsIn(x, p, v) <=> Exact(pid, v) - x * size \in -size..size
      BY <2>1 DEF HoldsIn
    <2> HIDE DEF x, pid, size
    <2> QED BY <2>2, <2>3, <2>4
  <1> QED BY <1>1, <1>3, <1>4, <1>5, <1>6, <1>7

\* Parameters of one register have bits of their own.
LEMMA PlacesDiffer ==
  /\ \A p \in BitParameters : \A v : Pattern(p, v) \subseteq Place(p)
  /\ \A p, q \in BitParameters : RegisterOf(p) = RegisterOf(q) /\ p # q => Place(p) \cap Place(q) = {}
  <1>1. ASSUME NEW p \in BitParameters, NEW v PROVE Pattern(p, v) \subseteq Place(p)
    <2>1. CASE p \in SwitchNames
      BY <2>1 DEF Pattern, Place
    <2>2. CASE p \in FieldNames
      <3>1. Bits(v, 0, 3) \subseteq {0, 1, 2} /\ Bits(v, 3, 2) \subseteq {3, 4}
        BY DEF Bits
      <3>2. p \notin SwitchNames /\ p \in {"DACMode", "PosTrackMode"}
        BY <2>2, NamesDiffer DEF FieldNames
      <3>3. Pattern(p, v) = Bits(v, Fields[p][2], Fields[p][3])
        BY <2>2, <3>2 DEF Pattern
      <3>4. CASE p = "DACMode"
        BY <3>1, <3>2, <3>3, <3>4, FieldsAre DEF Place
      <3>5. CASE p = "PosTrackMode"
        BY <3>1, <3>2, <3>3, <3>5, FieldsAre DEF Place
      <3> QED BY <3>2, <3>4, <3>5
    <2>3. CASE p = "WaitStateMode"
      <3>1. p \notin SwitchNames /\ p \notin FieldNames /\ p # "DACMode" /\ p # "PosTrackMode"
        BY <2>3, NamesDiffer
      <3>2. WaitStates[1 + 1] = {12, 13} /\ WaitStates[2 + 1] = {12, 14}
        BY DEF WaitStates
      <3>3. Place(p) = {12, 13, 14}
        BY <3>1 DEF Place
      <3>4. Pattern(p, v) = IF v \in {1, 2} THEN WaitStates[v + 1] ELSE {}
        BY <3>1 DEF Pattern
      <3> QED BY <3>2, <3>3, <3>4
    <2> QED BY <2>1, <2>2, <2>3, NamesAre
  <1>2. ASSUME NEW p \in BitParameters, NEW q \in BitParameters, RegisterOf(p) = RegisterOf(q), p # q
        PROVE  Place(p) \cap Place(q) = {}
    <2>0. /\ \A s \in SwitchNames :
               /\ Place(s) = {Switches[s][2]} /\ RegisterOf(s) = Switches[s][1]
               /\ Switches[s] = <<Switches[s][1], Switches[s][2]>>
          /\ Place("DACMode") = {0, 1, 2} /\ RegisterOf("DACMode") = 93
          /\ Place("PosTrackMode") = {3, 4} /\ RegisterOf("PosTrackMode") = 19
          /\ Place("WaitStateMode") = {12, 13, 14} /\ RegisterOf("WaitStateMode") = 0
      <3>1. \A s \in SwitchNames : Switches[s] = <<Switches[s][1], Switches[s][2]>>
        BY DEF SwitchNames, Switches
      <3>2. "DACMode" \in FieldNames /\ "PosTrackMode" \in FieldNames
        BY DEF FieldNames
      <3>3. "DACMode" \notin SwitchNames /\ "PosTrackMode" \notin SwitchNames /\ "WaitStateMode" \notin SwitchNames
        BY <3>2, NamesDiffer
      <3> QED BY <3>1, <3>2, <3>3, RegistersAre, FieldsAre DEF Place
    <2>1. ASSUME NEW s \in SwitchNames, NEW t \in SwitchNames, RegisterOf(s) = RegisterOf(t), s # t
          PROVE  Switches[s][2] # Switches[t][2]
      BY <2>0, <2>1, SwitchesAre
    <2>2. ASSUME NEW s \in SwitchNames, RegisterOf(s) = 19 PROVE Switches[s][2] \notin {3, 4}
      BY <2>0, <2>2, SwitchesAre
    <2>3. ASSUME NEW s \in SwitchNames, RegisterOf(s) = 0 PROVE Switches[s][2] \notin {12, 13, 14}
      BY <2>0, <2>3, SwitchesAre
    <2>4. \A s \in SwitchNames : RegisterOf(s) # 93
      BY <2>0, SwitchesAre
    <2>5. /\ p \in SwitchNames \/ p = "DACMode" \/ p = "PosTrackMode" \/ p = "WaitStateMode"
          /\ q \in SwitchNames \/ q = "DACMode" \/ q = "PosTrackMode" \/ q = "WaitStateMode"
      BY NamesAre DEF FieldNames
    <2>6. CASE p \in SwitchNames /\ q \in SwitchNames
      BY <1>2, <2>0, <2>1, <2>6
    <2>7. CASE p \in SwitchNames /\ q \notin SwitchNames
      BY <1>2, <2>0, <2>2, <2>3, <2>4, <2>5, <2>7
    <2>8. CASE p \notin SwitchNames /\ q \in SwitchNames
      BY <1>2, <2>0, <2>2, <2>3, <2>4, <2>5, <2>8
    <2>9. CASE p \notin SwitchNames /\ q \notin SwitchNames
      BY <1>2, <2>0, <2>5, <2>9
    <2> QED BY <2>6, <2>7, <2>8, <2>9
  <1> QED BY <1>1, <1>2

\* A setting's commands give its bits their value and leave the others.
LEMMA BitsDo ==
  ASSUME NEW p \in BitParameters, NEW v \in Int, NEW cs \in Commands(p, v), NEW x
  PROVE  Leads(RegisterOf(p), x, cs, (x \ Place(p)) \cup Pattern(p, v))
  <1> DEFINE r == RegisterOf(p)
  <1>0. r # 100
    <2>1. p \in Stored
      BY DEF Stored
    <2> QED BY <2>1, RegistersDiffer
  <1>1. \A b : Effect(Bs(r, b), r, x) = x \cup b /\ Effect(Bc(r, b), r, x) = x \ b
    BY DEF Effect, Bs, Bc
  <1>2. \A a, b : Effect(Bs(r, b), r, Effect(Bc(r, a), r, x)) = (x \ a) \cup b
    BY DEF Effect, Bs, Bc
  <1> HIDE DEF r
  <1>6. Leads(r, x, <<Bc(r, Place(p)), Bs(r, Pattern(p, v))>>, (x \ Place(p)) \cup Pattern(p, v))
    <2> DEFINE c == Bc(r, Place(p))
               d == Bs(r, Pattern(p, v))
    <2>1. Effect(d, r, Effect(c, r, x)) = (x \ Place(p)) \cup Pattern(p, v)
      BY <1>2
    <2> HIDE DEF c, d
    <2>2. Leads(r, x, <<c, d>>, Effect(d, r, Effect(c, r, x)))
      BY LeadsTwo
    <2> QED BY <2>1, <2>2 DEF c, d
  <1>3. CASE p \in SwitchNames
    <2> DEFINE b == Switches[p][2]
    <2>1. cs = <<IF v # 0 THEN Bs(r, {b}) ELSE Bc(r, {b})>>
      BY <1>3, NamesAre, NamesDiffer, RegistersAre DEF Commands, r
    <2>2. Place(p) = {b} /\ Pattern(p, v) = IF v # 0 THEN {b} ELSE {}
      BY <1>3 DEF Place, Pattern
    <2> HIDE DEF b
    <2>3. CASE v # 0
      <3>1. cs = <<Bs(r, {b})>> /\ Effect(Bs(r, {b}), r, x) = (x \ Place(p)) \cup Pattern(p, v)
        BY <1>1, <2>1, <2>2, <2>3
      <3> QED BY <3>1, LeadsOne DEF r
    <2>4. CASE v = 0
      <3>1. cs = <<Bc(r, {b})>> /\ Effect(Bc(r, {b}), r, x) = (x \ Place(p)) \cup Pattern(p, v)
        BY <1>1, <2>1, <2>2, <2>4
      <3> QED BY <3>1, LeadsOne DEF r
    <2> QED BY <2>3, <2>4
  <1>4. CASE p \in FieldNames
    <2> DEFINE f == Fields[p]
    <2>1. cs = <<Bc(r, Bits(-1, f[2], f[3])), Bs(r, Bits(v, f[2], f[3]))>>
      BY <1>4, NamesAre, NamesDiffer, RegistersAre DEF Commands, r
    <2>2. Pattern(p, v) = Bits(v, f[2], f[3])
      BY <1>4, NamesDiffer DEF Pattern
    <2>3. Place(p) = Bits(-1, f[2], f[3])
      <3>1. Bits(-1, 0, 3) = {0, 1, 2} /\ Bits(-1, 3, 2) = {3, 4}
        <4>1. \A j \in 0..2 : ((-1) \div Powers[j + 1]) % 2 = 1
          <5>1. \A j \in 0..2 : Powers[j + 1] \in {1, 2, 4}
            BY DEF Powers
          <5>2. \A m \in Int, d \in {1, 2, 4} : m = -1 => (m \div d) % 2 = 1
            OBVIOUS
          <5>3. -1 \in Int
            OBVIOUS
          <5>4. \A d \in {1, 2, 4} : ((-1) \div d) % 2 = 1
            BY <5>2, <5>3
          <5> QED BY <5>1, <5>4
        <4>2. {j \in 0..(3 - 1) : ((-1) \div Powers[j + 1]) % 2 = 1} = {0, 1, 2}
          BY <4>1
        <4>3. {j \in 0..(2 - 1) : ((-1) \div Powers[j + 1]) % 2 = 1} = {0, 1}
          BY <4>1
        <4>4. Bits(-1, 0, 3) = {0 + i : i \in {0, 1, 2}} /\ Bits(-1, 3, 2) = {3 + i : i \in {0, 1}}
          BY <4>2, <4>3, Zenon DEF Bits
        <4>5. {0 + i : i \in {0, 1, 2}} = {0, 1, 2} /\ {3 + i : i \in {0, 1}} = {3, 4}
          OBVIOUS
        <4> QED BY <4>4, <4>5
      <3>2. p \notin SwitchNames /\ p \in {"DACMode", "PosTrackMode"}
        BY <1>4, NamesDiffer DEF FieldNames
      <3> QED BY <3>1, <3>2, FieldsAre DEF Place
    <2>4. cs = <<Bc(r, Place(p)), Bs(r, Pattern(p, v))>>
      BY <2>1, <2>2, <2>3
    <2> QED BY <1>6, <2>4 DEF r
  <1>5. CASE p = "WaitStateMode"
    <2>0. p \notin SwitchNames /\ p \notin FieldNames /\ p # "DACMode" /\ p # "PosTrackMode" /\ r = 0
      BY <1>5, NamesDiffer, RegistersAre DEF r
    <2>1. cs = <<Bc(0, WaitStateBits)>> \o IF v \in {1, 2} THEN <<Bs(0, WaitStates[v + 1])>> ELSE <<>>
      BY <1>5, NamesAre, NamesDiffer DEF Commands
    <2>2. Place(p) = WaitStateBits
      <3>1. WaitStateBits = {12, 13, 14}
        BY DEF WaitStateBits
      <3> QED BY <2>0, <3>1 DEF Place
    <2>3. Pattern(p, v) = IF v \in {1, 2} THEN WaitStates[v + 1] ELSE {}
      BY <2>0 DEF Pattern
    <2>4. CASE v \in {1, 2}
      <3>1. cs = <<Bc(r, Place(p))>> \o <<Bs(r, Pattern(p, v))>>
        BY <2>0, <2>1, <2>2, <2>3, <2>4
      <3>2. cs = <<Bc(r, Place(p)), Bs(r, Pattern(p, v))>>
        BY <3>1, PairIs
      <3> QED BY <1>6, <3>2 DEF r
    <2>5. CASE v \notin {1, 2}
      <3> DEFINE c == Bc(r, Place(p))
      <3>1. cs = <<c>> \o <<>>
        BY <2>0, <2>1, <2>2, <2>5
      <3>2. Effect(c, r, x) = (x \ Place(p)) \cup Pattern(p, v)
        BY <1>1, <2>3, <2>5
      <3> HIDE DEF c
      <3>3. cs = <<c>>
        BY <3>1
      <3> QED BY <3>2, <3>3, LeadsOne DEF r
    <2> QED BY <2>4, <2>5
  <1> QED BY <1>3, <1>4, <1>5, NamesAre

\* A setting's commands give its parameter its value, and leave those that share the register.
LEMMA CommandsDo ==
  ASSUME NEW p \in Stored, NEW v \in Int, NEW cs \in Commands(p, v), NEW x
  PROVE  \E y : /\ Leads(RegisterOf(p), x, cs, y) /\ HoldsIn(y, p, v)
                /\ \A q \in Stored : \A w :
                     q # p /\ RegisterOf(q) = RegisterOf(p) /\ HoldsIn(x, q, w) => HoldsIn(y, q, w)
  <1>1. CASE p \in BitParameters
    <2> DEFINE y == (x \ Place(p)) \cup Pattern(p, v)
    <2>1. Leads(RegisterOf(p), x, cs, y)
      BY <1>1, BitsDo
    <2>2. HoldsIn(y, p, v)
      <3>1. Pattern(p, v) \subseteq Place(p)
        BY <1>1, PlacesDiffer
      <3> QED BY <1>1, <3>1 DEF HoldsIn
    <2>3. ASSUME NEW q \in Stored, NEW w, q # p, RegisterOf(q) = RegisterOf(p), HoldsIn(x, q, w)
          PROVE  HoldsIn(y, q, w)
      <3>1. q \in BitParameters
        BY <1>1, <2>3, RegistersDiffer
      <3>2. Pattern(p, v) \subseteq Place(p) /\ Place(p) \cap Place(q) = {}
        BY <1>1, <2>3, <3>1, PlacesDiffer
      <3>3. y \cap Place(q) = x \cap Place(q)
        BY <3>2
      <3> QED BY <2>3, <3>1, <3>3 DEF HoldsIn
    <2> QED BY <2>1, <2>2, <2>3
  <1>2. CASE p \notin BitParameters
    <2> DEFINE r == RegisterOf(p)
    <2>1. \A q \in Stored : RegisterOf(q) = r => q = p
      BY <1>2, RegistersDiffer
    <2>2. /\ \A n : Effect(Wr(r, n), r, x) = n
      <3>1. r # 100
        BY RegistersDiffer
      <3> HIDE DEF r
      <3> QED BY <3>1 DEF Effect, Wr
    <2>3. CASE p \in NumberNames
      <3>1. cs = <<Wr(r, v)>>
        BY <2>3, NamesAre, NamesDiffer, RegistersAre DEF Commands
      <3>2. Leads(r, x, cs, v)
        BY <2>2, <3>1, LeadsOne
      <3>3. HoldsIn(v, p, v)
        BY <1>2, <2>3 DEF HoldsIn
      <3> QED BY <2>1, <3>2, <3>3
    <2>4. CASE p \in PidNames
      <3>1. PICK n \in Scaled(PidRegisters[p], v) : cs = <<Wr(r, n)>>
        BY <2>4, NamesAre, NamesDiffer, RegistersAre DEF Commands
      <3>2. Leads(r, x, cs, n)
        BY <2>2, <3>1, LeadsOne
      <3>3. HoldsIn(n, p, v)
        BY <1>2, <2>4, NamesDiffer, ScaledIs DEF HoldsIn
      <3> QED BY <2>1, <3>2, <3>3
    <2> QED BY <1>2, <2>3, <2>4, NamesAre DEF Stored
  <1> QED BY <1>1, <1>2

\* What is under way leads every register that lost no command to the values wanted of it,
\* and the calibration to that of the range.
Todo == toDevice \o cmd_queue

SettingsPart ==
  /\ DOMAIN wanted = Others \cup {"Range", "SampleFreq", "AveragingTime"}
  /\ \A p \in DOMAIN wanted \ {"AveragingTime"} :
       RegisterOf(p) \notin dropped =>
         \E y : Leads(RegisterOf(p), Content(regs, RegisterOf(p)), Todo, y) /\ HoldsIn(y, p, wanted[p])
  /\ dropped \cap {3, 100} = {} =>
       \E y, z : Leads(3, Content(regs, 3), Todo, y) /\ Leads(100, Content(regs, 100), Todo, z) /\ z[1] = y

LEMMA WantedAre ==
  ASSUME TypePart, SettingsPart
  PROVE  \A p \in DOMAIN wanted \ {"AveragingTime"} :
           p \in Stored /\ RegisterOf(p) \in Registers /\ RegisterOf(p) # 100
  <1>1. scenario \in Scenarios
    BY DEF TypePart
  <1>2. {"Range", "SampleFreq"} \subseteq NumberNames
    BY DEF NumberNames
  <1>3. \A p \in DOMAIN wanted \ {"AveragingTime"} : p \in Stored
    <2>1. {"Range", "SampleFreq"} \subseteq Stored
      BY <1>2, NamesAre DEF Stored
    <2> QED BY <1>1, <2>1, OthersAre DEF SettingsPart
  <1>4. \A p \in DOMAIN wanted \ {"AveragingTime"} : RegisterOf(p) # 100
    BY <1>3, RegistersDiffer
  <1>5. ASSUME NEW p \in DOMAIN wanted \ {"AveragingTime"} PROVE RegisterOf(p) \in Registers
    <2>1. CASE p \in BitParameters
      BY <1>3, <1>5, <2>1, RegistersDiffer DEF Registers
    <2>2. CASE p \in {"Range", "SampleFreq"}
      <3>1. RegisterOf(p) \in {1, 3}
        BY <1>2, <2>2, RegistersAre, NumbersAre
      <3>2. 1 \in NumRegisters /\ 3 \in NumRegisters
        BY <1>1, NumRegistersAre
      <3> QED BY <3>1, <3>2 DEF Registers
    <2>3. CASE p \notin BitParameters \cup {"Range", "SampleFreq"}
      <3>1. p \in Others \ BitParameters
        BY <1>5, <2>3 DEF SettingsPart
      <3> QED BY <1>1, <3>1, NumRegistersAre DEF Registers
    <2> QED BY <2>1, <2>2, <2>3
  <1> QED BY <1>3, <1>4, <1>5

\* When nothing is under way the registers have them.
LEMMA SettingsHold == TypePart /\ SettingsPart => SettingsTake
  <1> SUFFICES ASSUME TypePart, SettingsPart, Quiet
               PROVE  /\ dropped \cap {3, 100} = {} => regs.cal[1] = regs.nums[3]
                      /\ \A p \in DOMAIN wanted \ {"AveragingTime"} :
                           RegisterOf(p) \notin dropped => Holds(regs, p, wanted[p])
    BY DEF SettingsTake
  <1>1. Todo = <<>>
    <2>1. toDevice = <<>> /\ cmd_queue = <<>>
      BY DEF Quiet
    <2>2. <<>> \o <<>> = <<>>
      OBVIOUS
    <2> QED BY <2>1, <2>2 DEF Todo
  <1>2. ASSUME dropped \cap {3, 100} = {} PROVE regs.cal[1] = regs.nums[3]
    <2>1. PICK y, z : /\ Leads(3, Content(regs, 3), <<>>, y) /\ Leads(100, Content(regs, 100), <<>>, z)
                      /\ z[1] = y
      BY <1>1, <1>2 DEF SettingsPart
    <2>2. y = Content(regs, 3) /\ z = Content(regs, 100)
      BY <2>1, LeadsNowhere
    <2>3. Content(regs, 3) = regs.nums[3] /\ Content(regs, 100) = regs.cal
      BY DEF Content, BitRegisters
    <2> QED BY <2>1, <2>2, <2>3
  <1>3. ASSUME NEW p \in DOMAIN wanted \ {"AveragingTime"}, RegisterOf(p) \notin dropped
        PROVE  Holds(regs, p, wanted[p])
    <2>1. PICK y : Leads(RegisterOf(p), Content(regs, RegisterOf(p)), <<>>, y) /\ HoldsIn(y, p, wanted[p])
      BY <1>1, <1>3 DEF SettingsPart
    <2>2. HoldsIn(Content(regs, RegisterOf(p)), p, wanted[p])
      BY <2>1, LeadsNowhere
    <2> QED BY <2>2, WantedAre, HoldsIs
  <1> QED BY <1>2, <1>3

\* More commands in the ring buffer lead on.
LEMMA TodoGrows ==
  ASSUME TypePart, UNCHANGED toDevice, NEW u \in Seq(Orders), cmd_queue' = cmd_queue \o u
  PROVE  \A r, x, y, z : Leads(r, x, Todo, y) /\ Leads(r, y, u, z) => Leads(r, x, Todo', z)
  <1>1. toDevice \in Seq(Orders) /\ cmd_queue \in Seq(Orders)
    BY DEF TypePart
  <1>2. Todo \in Seq(Orders)
    BY <1>1, ConcatProperties DEF Todo
  <1>3. Todo' = Todo \o u
    <2>1. (toDevice \o cmd_queue) \o u = toDevice \o (cmd_queue \o u)
      BY <1>1, ConcatAssociative
    <2> QED BY <2>1 DEF Todo
  <1> QED BY <1>2, <1>3, LeadsOn

\* A setting of one register.
LEMMA SetsSettings ==
  ASSUME TypePart, SettingsPart, UNCHANGED <<scenario, toDevice, regs>>, NEW p, NEW v, Sets(p, v)
  PROVE  SettingsPart'
  <1> DEFINE r == RegisterOf(p)
  <1>1. p \in Stored /\ p # "Range" /\ v \in Int /\ wanted' = [wanted EXCEPT ![p] = v]
    BY DEF Sets
  <1>2. PICK cs \in Seq(Orders) : cs \in Commands(p, v) /\ Push(cs)
    BY OrdersPushed
  <1>3. Len(cs) \in {1, 2} /\ \A i \in 1..Len(cs) : cs[i].op # "tr" /\ cs[i].reg = r
    <2>1. scenario \in Scenarios /\ (p \notin BitParameters => RegisterOf(p) \in NumRegisters)
      BY DEF TypePart, Sets
    <2> QED BY <1>1, <1>2, <2>1, CommandsAre
  <1>4. PICK u \in Seq(Orders) :
          /\ cmd_queue' = cmd_queue \o u /\ Len(u) <= Len(cs)
          /\ \A i \in 1..Len(u) : u[i] = cs[i]
          /\ Len(cs) <= Len(u) => u = cs
          /\ dropped \subseteq dropped'
          /\ \A i \in 1..Len(cs) : i > Len(u) /\ cs[i].op # "tr" => cs[i].reg \in dropped'
    BY <1>2, PushIs DEF TypePart
  <1> HIDE DEF r
  <1>5. Len(u) \in Nat /\ Len(cs) \in Nat
    BY LenProperties
  <1>6. r \notin dropped' => u = cs
    <2>1. ASSUME ~(Len(cs) <= Len(u)) PROVE r \in dropped'
      <3>1. Len(cs) \in 1..Len(cs) /\ Len(cs) > Len(u)
        BY <1>3, <1>5, <2>1
      <3> QED BY <1>3, <1>4, <3>1
    <2> QED BY <1>4, <2>1
  <1>7. ASSUME NEW s, s # r, NEW y PROVE Leads(s, y, u, y)
    <2>1. \A i \in 1..Len(u) : i \in 1..Len(cs) /\ u[i] = cs[i]
      BY <1>4, <1>5
    <2>2. \A i \in 1..Len(u) : u[i].op = "tr" \/ u[i].reg # s
      BY <1>3, <1>7, <2>1
    <2> QED BY <2>2, LeadsPast
  <1>8. \A s, x, y, z : Leads(s, x, Todo, y) /\ Leads(s, y, u, z) => Leads(s, x, Todo', z)
    BY <1>4, TodoGrows
  <1>9. r # 3 /\ r # 100
    <2>1. "Range" \in Stored /\ RegisterOf("Range") = 3 /\ "Range" \notin BitParameters
      <3>1. "Range" \in NumberNames
        BY DEF NumberNames
      <3> QED BY <3>1, NamesAre, NamesDiffer, RegistersAre, NumbersAre DEF Stored
    <2>2. RegisterOf(p) = 3 => p = "Range"
      BY <1>1, <2>1, RegistersDiffer
    <2>3. RegisterOf(p) < 100 /\ RegisterOf(p) \in Nat
      BY <1>1, RegistersDiffer
    <2> QED BY <1>1, <2>2, <2>3 DEF r
  <1>10. DOMAIN wanted' = DOMAIN wanted /\ Others' = Others
    BY <1>1 DEF Others
  <1>11. ASSUME NEW q \in DOMAIN wanted \ {"AveragingTime"}, RegisterOf(q) \notin dropped'
         PROVE  \E y : /\ Leads(RegisterOf(q), Content(regs, RegisterOf(q)), Todo', y)
                       /\ HoldsIn(y, q, wanted'[q])
    <2> DEFINE s == RegisterOf(q)
               x == Content(regs, s)
    <2>1. PICK y : Leads(s, x, Todo, y) /\ HoldsIn(y, q, wanted[q])
      BY <1>4, <1>11 DEF SettingsPart
    <2>2. q \in Stored
      BY WantedAre
    <2>3. wanted'[q] = IF q = p THEN v ELSE wanted[q]
      BY <1>1
    <2>4. CASE s # r
      <3>1. q # p
        BY <2>4 DEF r
      <3>2. Leads(s, x, Todo', y)
        BY <1>7, <1>8, <2>1, <2>4
      <3> QED BY <2>1, <2>3, <3>1, <3>2
    <2>5. CASE s = r
      <3>1. u = cs
        BY <1>6, <1>11, <2>5
      <3>2. PICK z : /\ Leads(RegisterOf(p), y, cs, z) /\ HoldsIn(z, p, v)
                     /\ \A t \in Stored : \A w :
                          t # p /\ RegisterOf(t) = RegisterOf(p) /\ HoldsIn(y, t, w) => HoldsIn(z, t, w)
        BY <1>1, <1>2, CommandsDo
      <3>3. Leads(s, x, Todo', z)
        BY <1>8, <2>1, <2>5, <3>1, <3>2 DEF r
      <3>4. HoldsIn(z, q, wanted'[q])
        BY <2>1, <2>2, <2>3, <2>5, <3>2 DEF r
      <3> QED BY <3>3, <3>4
    <2> QED BY <2>4, <2>5
  <1>12. ASSUME dropped' \cap {3, 100} = {}
         PROVE  \E y, z : /\ Leads(3, Content(regs, 3), Todo', y) /\ Leads(100, Content(regs, 100), Todo', z)
                          /\ z[1] = y
    <2>1. PICK y, z : /\ Leads(3, Content(regs, 3), Todo, y) /\ Leads(100, Content(regs, 100), Todo, z)
                      /\ z[1] = y
      BY <1>4, <1>12 DEF SettingsPart
    <2>2. Leads(3, y, u, y) /\ Leads(100, z, u, z)
      BY <1>7, <1>9
    <2>3. Leads(3, Content(regs, 3), Todo', y) /\ Leads(100, Content(regs, 100), Todo', z)
      BY <1>8, <2>1, <2>2
    <2> QED BY <2>1, <2>3
  <1> QED BY <1>10, <1>11, <1>12 DEF SettingsPart

\* The range and its calibration.
LEMMA RangeSettings ==
  ASSUME TypePart, SettingsPart, UNCHANGED <<scenario, toDevice, regs>>, NEW v, SetsRange(v)
  PROVE  SettingsPart'
  <1> DEFINE n == Clip(v)
             a == Wr(3, n)
             b == WrCal(n, calSet)
             cs == <<a, b>>
  <1>1. wanted' = [wanted EXCEPT !["Range"] = n] /\ v \in Int /\ Push(cs) /\ cs \in Seq(Orders)
    BY OrdersPushed DEF SetsRange, RangeOrders
  <1>2. /\ a.op = "wr" /\ a.reg = 3 /\ b.op = "wr" /\ b.reg = 100
        /\ \A x : Effect(a, 3, x) = n /\ Effect(b, 3, x) = x
        /\ \A x : Effect(a, 100, x) = x /\ Effect(b, 100, x) = <<n, calSet>>
    BY DEF Wr, WrCal, Effect
  <1> HIDE DEF a, b, n
  <1>3. Len(cs) = 2 /\ cs[1] = a /\ cs[2] = b
    OBVIOUS
  <1>4. PICK u \in Seq(Orders) :
          /\ cmd_queue' = cmd_queue \o u /\ Len(u) <= Len(cs)
          /\ \A i \in 1..Len(u) : u[i] = cs[i]
          /\ Len(cs) <= Len(u) => u = cs
          /\ dropped \subseteq dropped'
          /\ \A i \in 1..Len(cs) : i > Len(u) /\ cs[i].op # "tr" => cs[i].reg \in dropped'
    <2> HIDE DEF cs
    <2> QED BY <1>1, PushIs DEF TypePart
  <1> HIDE DEF cs
  <1>5. Len(u) \in Nat
    BY LenProperties
  <1>6. ASSUME NEW s, s # 3, s # 100, NEW y PROVE Leads(s, y, u, y)
    <2>1. \A i \in 1..Len(u) : u[i] = a \/ u[i] = b
      <3>1. \A i \in 1..Len(u) : i = 1 \/ i = 2
        BY <1>3, <1>4, <1>5
      <3> QED BY <1>3, <1>4, <3>1
    <2>2. \A i \in 1..Len(u) : u[i].op = "tr" \/ u[i].reg # s
      BY <1>2, <1>6, <2>1
    <2> QED BY <2>2, LeadsPast
  <1>7. \A s, x, y, z : Leads(s, x, Todo, y) /\ Leads(s, y, u, z) => Leads(s, x, Todo', z)
    BY <1>4, TodoGrows
  \* If the first command found room the range is written, and if both did the calibration is.
  <1>8. ASSUME 3 \notin dropped', NEW y PROVE Leads(3, y, u, n)
    <2>1. Len(u) = 1 \/ Len(u) = 2
      <3>1. 1 \in 1..Len(cs) /\ ~(1 > Len(u))
        BY <1>2, <1>3, <1>4, <1>8
      <3> DEFINE m == Len(u)
      <3>2. m <= 2 /\ m \in Nat /\ ~(1 > m)
        BY <1>3, <1>4, <1>5, <3>1
      <3> HIDE DEF m
      <3>3. m = 1 \/ m = 2
        BY <3>2
      <3> QED BY <3>3 DEF m
    <2>2. CASE Len(u) = 1
      <3>1. u = <<a>>
        <4>0. 1 \in 1..Len(u)
          BY <2>2
        <4>1. u[1] = a /\ a \in Orders
          BY <1>3, <1>4, <4>0, ElementOfSeq
        <4>2. <<a>> \in Seq(Orders) /\ Len(<<a>>) = 1 /\ <<a>>[1] = a
          BY <4>1
        <4>3. \A i \in 1..Len(u) : u[i] = <<a>>[i]
          BY <2>2, <4>1, <4>2
        <4> QED BY <2>2, <4>2, <4>3, SeqEqual
      <3>2. Leads(3, y, <<a>>, Effect(a, 3, y))
        BY LeadsOne
      <3> QED BY <1>2, <3>1, <3>2
    <2>3. CASE Len(u) = 2
      <3>1. u = <<a, b>>
        BY <1>3, <1>4, <2>3 DEF cs
      <3>2. Leads(3, y, <<a, b>>, Effect(b, 3, Effect(a, 3, y)))
        BY LeadsTwo
      <3> QED BY <1>2, <3>1, <3>2
    <2> QED BY <2>1, <2>2, <2>3
  <1>9. ASSUME 100 \notin dropped', NEW z PROVE Leads(100, z, u, <<n, calSet>>)
    <2>1. u = <<a, b>>
      <3>1. 2 \in 1..Len(cs) /\ ~(2 > Len(u))
        BY <1>2, <1>3, <1>4, <1>9
      <3> QED BY <1>3, <1>4, <1>5, <3>1 DEF cs
    <2>2. Leads(100, z, <<a, b>>, Effect(b, 100, Effect(a, 100, z)))
      BY LeadsTwo
    <2> QED BY <1>2, <2>1, <2>2
  <1>10. DOMAIN wanted' = DOMAIN wanted /\ Others' = Others
    BY <1>1 DEF Others
  <1>11. ASSUME NEW q \in DOMAIN wanted \ {"AveragingTime"}, RegisterOf(q) \notin dropped'
         PROVE  \E y : /\ Leads(RegisterOf(q), Content(regs, RegisterOf(q)), Todo', y)
                       /\ HoldsIn(y, q, wanted'[q])
    <2> DEFINE s == RegisterOf(q)
               x == Content(regs, s)
    <2>1. PICK y : Leads(s, x, Todo, y) /\ HoldsIn(y, q, wanted[q])
      BY <1>4, <1>11 DEF SettingsPart
    <2>2. q \in Stored /\ s # 100
      BY WantedAre
    <2>3. "Range" \in Stored /\ "Range" \in NumberNames /\ RegisterOf("Range") = 3 /\ "Range" \notin BitParameters
      <3>1. "Range" \in NumberNames
        BY DEF NumberNames
      <3> QED BY <3>1, NamesAre, NamesDiffer, RegistersAre, NumbersAre DEF Stored
    <2>4. s = 3 <=> q = "Range"
      BY <2>2, <2>3, RegistersDiffer
    <2>5. wanted'[q] = IF q = "Range" THEN n ELSE wanted[q]
      BY <1>1
    <2>6. CASE s # 3
      <3>1. Leads(s, x, Todo', y)
        BY <1>6, <1>7, <2>1, <2>2, <2>6
      <3> QED BY <2>1, <2>4, <2>5, <2>6, <3>1
    <2>7. CASE s = 3
      <3>1. Leads(s, x, Todo', n)
        BY <1>7, <1>8, <1>11, <2>1, <2>7
      <3>2. HoldsIn(n, q, wanted'[q])
        BY <2>3, <2>4, <2>5, <2>7 DEF HoldsIn
      <3> QED BY <3>1, <3>2
    <2> QED BY <2>6, <2>7
  <1>12. ASSUME dropped' \cap {3, 100} = {}
         PROVE  \E y, z : /\ Leads(3, Content(regs, 3), Todo', y) /\ Leads(100, Content(regs, 100), Todo', z)
                          /\ z[1] = y
    <2>1. PICK y, z : Leads(3, Content(regs, 3), Todo, y) /\ Leads(100, Content(regs, 100), Todo, z)
      BY <1>4, <1>12 DEF SettingsPart
    <2>2. Leads(3, y, u, n) /\ Leads(100, z, u, <<n, calSet>>)
      BY <1>8, <1>9, <1>12
    <2>3. Leads(3, Content(regs, 3), Todo', n) /\ Leads(100, Content(regs, 100), Todo', <<n, calSet>>)
      BY <1>7, <2>1, <2>2
    <2>4. <<n, calSet>>[1] = n
      OBVIOUS
    <2> QED BY <2>3, <2>4
  <1> QED BY <1>10, <1>11, <1>12 DEF SettingsPart

\* A write.
LEMMA PortSettings == ASSUME TypePart, SettingsPart, Port PROVE SettingsPart'
  <1>1. UNCHANGED <<scenario, toDevice, regs>>
    BY PortIs
  <1>2. Others' = Others
    BY <1>1 DEF Others
  <1>3. CASE \E p, v : Sets(p, v)
    BY <1>1, <1>3, SetsSettings
  <1>4. CASE \E v : SetsRange(v)
    BY <1>1, <1>4, RangeSettings
  <1>5. CASE SetsTime
    <2>1. Todo' = Todo /\ dropped' = dropped /\ regs' = regs
      BY <1>1, <1>5 DEF SetsTime, Todo
    <2>2. /\ DOMAIN wanted' = DOMAIN wanted
          /\ \A q \in DOMAIN wanted \ {"AveragingTime"} : wanted'[q] = wanted[q]
      BY <1>5 DEF SetsTime
    <2> QED BY <1>2, <2>1, <2>2 DEF SettingsPart
  <1>6. CASE Updates
    <2> DEFINE cs == <<Tr(1), Tr(2), Tr(3)>>
    <2>1. Push(cs) /\ cs \in Seq(Orders) /\ UNCHANGED wanted
      BY <1>6, OrdersPushed DEF Updates
    <2>2. \A i \in 1..Len(cs) : cs[i].op = "tr"
      <3>1. Tr(1).op = "tr" /\ Tr(2).op = "tr" /\ Tr(3).op = "tr"
        BY DEF Tr
      <3> DEFINE a == Tr(1)
                 b == Tr(2)
                 c == Tr(3)
      <3> HIDE DEF a, b, c
      <3>2. \A i \in 1..Len(<<a, b, c>>) : <<a, b, c>>[i].op = "tr"
        BY <3>1 DEF a, b, c
      <3> QED BY <3>2 DEF a, b, c
    <2> HIDE DEF cs
    <2>3. PICK u \in Seq(Orders) :
            /\ cmd_queue' = cmd_queue \o u /\ Len(u) <= Len(cs)
            /\ \A i \in 1..Len(u) : u[i] = cs[i]
            /\ dropped \subseteq dropped'
      BY <2>1, PushIs DEF TypePart
    <2>4. \A i \in 1..Len(u) : u[i].op = "tr"
      <3>1. Len(u) \in Nat /\ Len(cs) \in Nat
        BY <2>1, LenProperties
      <3> QED BY <2>2, <2>3, <3>1
    <2>5. \A r, y : Leads(r, y, u, y)
      BY <2>4, LeadsPast
    <2>6. \A r, x, y : Leads(r, x, Todo, y) => Leads(r, x, Todo', y)
      BY <1>1, <2>3, <2>5, TodoGrows
    <2> QED BY <1>1, <1>2, <2>1, <2>3, <2>6 DEF SettingsPart
  <1> QED BY <1>3, <1>4, <1>5, <1>6, PortIs

LEMMA SentIsUnderWay ==
  ASSUME NEW S, NEW t \in Seq(S), NEW q \in Seq(S), q # <<>>
  PROVE  Append(t, Head(q)) \o Tail(q) = t \o q
  <1> DEFINE w == Append(t, Head(q)) \o Tail(q)
             z == t \o q
  <1>1. /\ Head(q) \in S /\ Head(q) = q[1] /\ Tail(q) \in Seq(S) /\ Len(q) \in Nat /\ Len(q) > 0
        /\ Len(Tail(q)) = Len(q) - 1 /\ \A i \in 1..Len(q) - 1 : Tail(q)[i] = q[i + 1]
    BY HeadTailProperties, EmptySeq
  <1>2. /\ Append(t, Head(q)) \in Seq(S) /\ Len(t) \in Nat /\ Len(Append(t, Head(q))) = Len(t) + 1
        /\ \A i \in 1..Len(t) : Append(t, Head(q))[i] = t[i]
        /\ Append(t, Head(q))[Len(t) + 1] = q[1]
    BY <1>1, AppendProperties, LenProperties
  <1> DEFINE a == Append(t, Head(q))
             b == Tail(q)
  <1> HIDE DEF a, b
  <1>3. /\ a \o b \in Seq(S) /\ Len(a \o b) = Len(t) + Len(q)
        /\ \A i \in 1..(Len(t) + Len(q)) : (a \o b)[i] = IF i <= Len(t) + 1 THEN a[i] ELSE b[i - (Len(t) + 1)]
    BY <1>1, <1>2, ConcatProperties DEF a, b
  <1>4. /\ z \in Seq(S) /\ Len(z) = Len(t) + Len(q)
        /\ \A i \in 1..(Len(t) + Len(q)) : z[i] = IF i <= Len(t) THEN t[i] ELSE q[i - Len(t)]
    BY ConcatProperties
  <1> HIDE DEF z
  <1>5. ASSUME NEW i \in 1..(Len(t) + Len(q)) PROVE (a \o b)[i] = z[i]
    <2>1. CASE i <= Len(t)
      BY <1>1, <1>2, <1>3, <1>4, <2>1 DEF a
    <2>2. CASE i = Len(t) + 1
      <3>1. /\ ~(i <= Len(t)) /\ i <= Len(t) + 1 /\ i - Len(t) = 1
        BY <1>1, <1>2, <2>2
      <3>2. (a \o b)[i] = a[i] /\ z[i] = q[1]
        BY <1>3, <1>4, <3>1
      <3> QED BY <1>2, <2>2, <3>2 DEF a
    <2>3. CASE i > Len(t) + 1
      <3> DEFINE j == i - (Len(t) + 1)
      <3>1. j \in 1..Len(q) - 1 /\ j + 1 = i - Len(t) /\ ~(i <= Len(t) + 1) /\ ~(i <= Len(t))
        BY <1>1, <1>2, <2>3
      <3>2. (a \o b)[i] = b[j] /\ z[i] = q[j + 1]
        BY <1>3, <1>4, <3>1
      <3> QED BY <1>1, <3>1, <3>2 DEF b
    <2>4. i \in Int /\ Len(t) \in Int
      BY <1>1, <1>2
    <2>5. i <= Len(t) \/ i = Len(t) + 1 \/ i > Len(t) + 1
      BY <2>4
    <2> QED BY <2>1, <2>2, <2>3, <2>5
  <1>6. a \o b = z
    BY <1>3, <1>4, <1>5, SeqEqual
  <1> QED BY <1>6 DEF a, b, z

\* A command that is sent is still under way.
LEMMA IdlesSettings == ASSUME TypePart, SettingsPart, CmdIdles PROVE SettingsPart'
  <1> USE DEF data, params, bounds, history
  <1>1. UNCHANGED <<scenario, regs, dropped, wanted>>
    BY DEF CmdIdles
  <1>2. Todo' = Todo
    <2>1. \/ UNCHANGED <<cmd_queue, toDevice>>
          \/ /\ cmd_queue # <<>> /\ cmd_queue' = Tail(cmd_queue)
             /\ toDevice' = Append(toDevice, Head(cmd_queue))
      BY DEF CmdIdles
    <2>2. CASE UNCHANGED <<cmd_queue, toDevice>>
      BY <2>2 DEF Todo
    <2>3. CASE cmd_queue # <<>> /\ cmd_queue' = Tail(cmd_queue) /\ toDevice' = Append(toDevice, Head(cmd_queue))
      <3>1. cmd_queue \in Seq(Orders) /\ toDevice \in Seq(Orders)
        BY DEF TypePart
      <3>2. Append(toDevice, Head(cmd_queue)) \o Tail(cmd_queue) = toDevice \o cmd_queue
        BY <2>3, <3>1, SentIsUnderWay
      <3> QED BY <2>3, <3>2 DEF Todo
    <2> QED BY <2>1, <2>2, <2>3
  <1>3. Others' = Others
    BY <1>1 DEF Others
  <1> QED BY <1>1, <1>2, <1>3 DEF SettingsPart

\* A command has done what it leads to; one that is not known counts as dropped.
LEMMA ExecutesSettings == ASSUME TypePart, SettingsPart, Executes PROVE SettingsPart'
  <1> DEFINE c == Head(toDevice)
  <1>1. /\ UNCHANGED <<scenario, cmd_queue, wanted>> /\ toDevice # <<>> /\ toDevice' = Tail(toDevice)
        /\ \/ regs' = Execute(c) /\ UNCHANGED dropped
           \/ regs' = regs /\ dropped' = dropped \cup IF c.op = "tr" THEN {} ELSE {c.reg}
    BY DEF Executes
  <1>2. /\ Todo \in Seq(Orders) /\ Todo # <<>> /\ Head(Todo) = c /\ Todo' = Tail(Todo) /\ c \in Orders
    <2>1. toDevice \in Seq(Orders) /\ cmd_queue \in Seq(Orders)
      BY DEF TypePart
    <2> QED BY <1>1, <2>1 DEF Todo
  <1> HIDE DEF c
  <1>3. \A r, x, y : Leads(r, x, Todo, y) => Leads(r, Effect(c, r, x), Todo', y)
    BY <1>2, LeadsFrom
  <1>4. \A r \in Registers : r \notin dropped' => Content(regs, r)' = Effect(c, r, Content(regs, r))
    <2>1. CASE regs' = Execute(c) /\ UNCHANGED dropped
      <3>1. \A r \in Registers : Content(Execute(c), r) = Effect(c, r, Content(regs, r))
        BY <1>2, ExecuteIs DEF TypePart
      <3> QED BY <2>1, <3>1
    <2>2. CASE regs' = regs /\ dropped' = dropped \cup IF c.op = "tr" THEN {} ELSE {c.reg}
      <3>1. \A r \in Registers : r \notin dropped' => c.op = "tr" \/ c.reg # r
        BY <2>2
      <3> QED BY <2>2, <3>1 DEF Effect
    <2> QED BY <1>1, <2>1, <2>2
  <1>5. dropped \subseteq dropped' /\ Others' = Others
    BY <1>1 DEF Others
  <1>6. ASSUME NEW p \in DOMAIN wanted \ {"AveragingTime"}, RegisterOf(p) \notin dropped'
        PROVE  \E y : Leads(RegisterOf(p), Content(regs, RegisterOf(p))', Todo', y) /\ HoldsIn(y, p, wanted[p])
    <2> DEFINE r == RegisterOf(p)
    <2>1. PICK y : Leads(r, Content(regs, r), Todo, y) /\ HoldsIn(y, p, wanted[p])
      BY <1>5, <1>6 DEF SettingsPart
    <2>2. r \in Registers
      BY WantedAre
    <2>3. Leads(r, Content(regs, r)', Todo', y)
      BY <1>3, <1>4, <1>6, <2>1, <2>2
    <2> QED BY <2>1, <2>3
  <1>7. ASSUME dropped' \cap {3, 100} = {}
        PROVE  \E y, z : /\ Leads(3, Content(regs, 3)', Todo', y) /\ Leads(100, Content(regs, 100)', Todo', z)
                         /\ z[1] = y
    <2>1. PICK y, z : /\ Leads(3, Content(regs, 3), Todo, y) /\ Leads(100, Content(regs, 100), Todo, z)
                      /\ z[1] = y
      BY <1>5, <1>7 DEF SettingsPart
    <2>2. 3 \in Registers /\ 100 \in Registers
      BY NumRegistersAre DEF Registers, TypePart
    <2>3. Leads(3, Content(regs, 3)', Todo', y) /\ Leads(100, Content(regs, 100)', Todo', z)
      BY <1>3, <1>4, <1>7, <2>1, <2>2
    <2> QED BY <2>1, <2>3
  <1> QED BY <1>1, <1>5, <1>6, <1>7 DEF SettingsPart

\* A parameter of the PID, of a register that is zero, is what it is told to be.
LEMMA PidTold ==
  ASSUME NEW p \in PidNames, NEW file, file.nums[PidRegisters[p].reg] = 0
  PROVE  HoldsIn(0, p, Told(file, p))
  <1> DEFINE pid == PidRegisters[p]
             size == pid.hi - pid.lo
             d == pid.last - pid.first
             t == Told(file, p)
  <1>1. t = ((0 - pid.first) * size) \div d + pid.lo
    <2>1. t = ((Unsigned(file.nums[pid.reg]) - pid.first) * size) \div d + pid.lo
      <3>1. p \notin NumbersTold
        BY NamesDiffer DEF NumbersTold, NumberNames
      <3> QED BY <3>1, NamesAre, NamesDiffer DEF Told
    <2>2. Unsigned(0) = 0
      BY DEF Unsigned
    <2> QED BY <2>1, <2>2
  <1>2. (((0 - pid.first) * size) \div d) * d + pid.first * size = 0 /\ size > 0
    BY DEF PidNames, PidRegisters, Pid
  <1>3. pid.first \in Int /\ pid.last \in Int /\ pid.hi \in Int /\ pid.lo \in Int
        /\ ((0 - pid.first) * size) \div d \in Int
    BY DEF PidNames, PidRegisters, Pid
  <1>4. Exact(pid, t) - 0 * size = 0
    <2> DEFINE k == ((0 - pid.first) * size) \div d
    <2>1. t = k + pid.lo /\ k \in Int /\ k * d + pid.first * size = 0
      BY <1>1, <1>2, <1>3
    <2> HIDE DEF k, t
    <2>2. Exact(pid, t) = (t - pid.lo) * (pid.last - pid.first) + pid.first * (pid.hi - pid.lo)
      BY DEF Exact
    <2> HIDE DEF pid
    <2>3. t - pid.lo = k
      BY <1>3, <2>1
    <2> QED BY <1>3, <2>1, <2>2, <2>3
  <1>5. 0 \in -size..size
    BY <1>2, <1>3
  <1>6. p \notin BitParameters /\ p \notin NumberNames
    BY NamesAre, NamesDiffer
  <1>7. HoldsIn(0, p, t) <=> Exact(pid, t) - 0 * size \in -size..size
    BY <1>6 DEF HoldsIn
  <1> QED BY <1>4, <1>5, <1>7

\* When the driver starts, each register has what is wanted of it.
LEMMA InitSettings == DirectInit => SettingsPart
  <1> SUFFICES ASSUME DirectInit PROVE SettingsPart
    OBVIOUS
  <1>1. PICK r \in Ranges, f \in Rates :
          /\ regs = [bits |-> [reg \in {0, 19, 93} |-> IF reg = 0 THEN {10} ELSE IF reg = 19 THEN {0, 4} ELSE {}],
                     nums |-> [reg \in {1, 3} \cup {RegisterOf(p) : p \in Others \ BitParameters} |->
                                 IF reg = 1 THEN f ELSE IF reg = 3 THEN r ELSE 0],
                     cal |-> <<r, calSet>>]
          /\ wanted = [p \in Others \cup {"Range", "SampleFreq", "AveragingTime"} |->
                         IF p = "Range" THEN r ELSE IF p = "SampleFreq" THEN f
                         ELSE IF IsTold(p) THEN Told(regs, p) ELSE 0]
    BY DEF DirectInit
  <1>2. scenario \in Scenarios /\ cmd_queue = <<>> /\ toDevice = <<>>
    BY DEF DirectInit
  <1>3. /\ DOMAIN wanted = Others \cup {"Range", "SampleFreq", "AveragingTime"}
        /\ \A p \in DOMAIN wanted :
             wanted[p] = IF p = "Range" THEN r ELSE IF p = "SampleFreq" THEN f
                         ELSE IF IsTold(p) THEN Told(regs, p) ELSE 0
    BY <1>1
  <1>4. /\ regs.bits[0] = {10} /\ regs.cal = <<r, calSet>>
        /\ \A s \in {1, 3} \cup {RegisterOf(p) : p \in Others \ BitParameters} :
             regs.nums[s] = IF s = 1 THEN f ELSE IF s = 3 THEN r ELSE 0
    BY <1>1
  <1>5. Todo = <<>>
    <2>1. <<>> \o <<>> = <<>>
      OBVIOUS
    <2> QED BY <1>2, <2>1 DEF Todo
  <1>6. ASSUME NEW p \in DOMAIN wanted \ {"AveragingTime"}
        PROVE  HoldsIn(Content(regs, RegisterOf(p)), p, wanted[p])
    <2> DEFINE s == RegisterOf(p)
               w == wanted[p]
    <2>1. p \in Stored
      <3>1. "Range" \in NumberNames /\ "SampleFreq" \in NumberNames
        BY DEF NumberNames
      <3> QED BY <1>2, <1>3, <3>1, OthersAre, NamesAre DEF Stored
    <2>2. CASE p \in NumberNames
      <3>1. p \notin BitParameters /\ s = Numbers[p] /\ s \in {1, 3, 4, 5, 22, 23, 24}
        BY <2>2, NamesAre, NamesDiffer, RegistersAre, NumbersAre
      <3>2. (p = "SampleFreq" <=> s = 1) /\ (p = "Range" <=> s = 3)
        <4>1. "Range" \in NumberNames /\ "SampleFreq" \in NumberNames
          BY DEF NumberNames
        <4> QED BY <2>2, <3>1, <4>1, NumbersAre
      <3>3. s \in {1, 3} \cup {RegisterOf(q) : q \in Others \ BitParameters}
        BY <1>3, <3>1, <3>2
      <3>4. Content(regs, s) = regs.nums[s]
        BY <3>1 DEF Content, BitRegisters
      <3>5. IsTold(p) => Told(regs, p) = regs.nums[s]
        <4>1. IsTold(p) => p \in NumbersTold
          BY <2>2, NamesAre, NamesDiffer DEF IsTold
        <4> QED BY <2>2, <3>1, <4>1, NamesAre, NamesDiffer DEF Told
      <3>6. Content(regs, s) = w
        BY <1>3, <1>4, <3>2, <3>3, <3>4, <3>5
      <3> QED BY <2>2, <3>1, <3>6 DEF HoldsIn
    <2>3. p \notin NumberNames => p \in Others /\ p # "Range" /\ p # "SampleFreq"
      <3>1. "Range" \in NumberNames /\ "SampleFreq" \in NumberNames
        BY DEF NumberNames
      <3> QED BY <1>3, <3>1
    <2>4. CASE p \in PidNames
      <3>1. p \notin BitParameters /\ p \notin NumberNames /\ s = PidRegisters[p].reg /\ IsTold(p)
        BY <2>4, NamesAre, NamesDiffer, RegistersAre DEF IsTold
      <3>2. s \notin {0, 19, 93, 1, 3, 4, 5, 22, 23, 24} /\ s \in Nat /\ s < 93
        BY <2>4, <3>1, PidsAre
      <3>3. regs.nums[s] = 0
        BY <1>4, <2>3, <3>1, <3>2
      <3>4. Content(regs, s) = 0
        BY <3>2, <3>3 DEF Content, BitRegisters
      <3>5. w = Told(regs, p)
        BY <1>3, <2>3, <3>1
      <3>6. HoldsIn(0, p, Told(regs, p))
        BY <2>4, <3>1, <3>3, PidTold
      <3> QED BY <3>4, <3>5, <3>6
    <2>5. CASE p \in SwitchNames \cup FieldNames
      <3>1. IsTold(p) /\ p \notin NumberNames /\ p \notin PidNames
        BY <2>5, NamesAre, NamesDiffer DEF IsTold
      <3>2. w = Told(regs, p)
        BY <1>3, <2>3, <3>1
      <3>3. Holds(regs, p, w)
        BY <3>1, <3>2, ToldHolds
      <3> QED BY <2>1, <3>3, HoldsIs
    <2>6. CASE p = "WaitStateMode"
      <3>1. p \in BitParameters /\ ~IsTold(p) /\ s = 0 /\ p \notin NumberNames
        BY <2>6, NamesAre, NamesDiffer, RegistersAre DEF IsTold, NumbersTold, NumberNames
      <3>2. Content(regs, s) = {10}
        BY <1>4, <3>1 DEF Content, BitRegisters
      <3>3. w = 0
        BY <1>3, <2>3, <3>1
      <3>4. Place(p) = {12, 13, 14} /\ Pattern(p, 0) = {}
        BY <2>6, NamesDiffer DEF Place, Pattern, FieldNames
      <3>5. {10} \cap {12, 13, 14} = {}
        OBVIOUS
      <3> QED BY <3>1, <3>2, <3>3, <3>4, <3>5 DEF HoldsIn
    <2> QED BY <2>1, <2>2, <2>4, <2>5, <2>6, NamesAre DEF Stored
  <1>7. Content(regs, 3) = r /\ Content(regs, 100) = <<r, calSet>> /\ <<r, calSet>>[1] = r
    BY <1>4 DEF Content, BitRegisters
  <1>8. \A x, s : Leads(s, x, Todo, x)
    BY <1>5, LeadsNowhere
  <1> QED BY <1>3, <1>6, <1>7, <1>8 DEF SettingsPart

\* When all commands have been executed each register has the values last written to its
\* parameters, unless one of its commands was dropped: settings that share a register do not
\* disturb each other, and the calibration is that of the range (writeInt32, writeFloat64,
\* writeReadMeter).
THEOREM SettingsAreTaken == DirectSpec => []SettingsTake
  <1>1. TypePart /\ SettingsPart /\ [DirectNext]_directVars => SettingsPart'
    <2> SUFFICES ASSUME TypePart, SettingsPart, [DirectNext]_directVars PROVE SettingsPart'
      OBVIOUS
    <2>1. CASE Port
      BY <2>1, PortSettings
    <2>2. CASE CmdIdles
      BY <2>2, IdlesSettings
    <2>3. CASE Executes
      BY <2>3, ExecutesSettings
    <2>4. CASE \/ CmdFirst \/ CmdSecond \/ CmdRest \/ Arrives \/ Emits \/ DataThread
               \/ UNCHANGED directVars
      <3>1. UNCHANGED <<scenario, wanted, dropped, regs, toDevice, cmd_queue>>
        BY <2>4 DEF CmdFirst, CmdSecond, CmdRest, Arrives, Emits, DataThread, DataFlushes,
                    DataReadings, DataTakes, DataApplies, directVars, params, parser, wire, data,
                    bounds, history
      <3>2. Others' = Others /\ Todo' = Todo
        BY <3>1 DEF Others, Todo
      <3> QED BY <3>1, <3>2 DEF SettingsPart
    <2> QED BY <2>1, <2>2, <2>3, <2>4 DEF DirectNext, CmdThread
  <1> QED BY <1>1, TypesStay, InitSettings, SettingsHold, PTL DEF DirectSpec

-----------------------------------------------------------------------------
(***************************************************************************)
(* T4U: messages in pieces.                                               *)
(***************************************************************************)
\* The pieces u begin in F and end in E, and each is followed by one that R allows.
Strung(u, F, R, E) ==
  u # <<>> => /\ u[1] \in F /\ u[Len(u)] \in E
              /\ \A i \in 1..(Len(u) - 1) : <<u[i], u[i + 1]>> \in R

LEMMA ChainTail ==
  ASSUME NEW S, NEW u \in Seq(S), u # <<>>, NEW F, NEW R, NEW E, Strung(u, F, R, E), NEW G,
         \A b : <<Head(u), b>> \in R => b \in G
  PROVE  /\ Head(u) \in F /\ Strung(Tail(u), G, R, E)
         /\ Tail(u) = <<>> => Head(u) \in E
  <1> DEFINE t == Tail(u)
  <1>1. /\ Len(u) \in Nat /\ Len(u) >= 1 /\ Head(u) = u[1] /\ t \in Seq(S) /\ Len(t) = Len(u) - 1
        /\ \A i \in 1..Len(t) : t[i] = u[i + 1]
    BY HeadTailProperties, EmptySeq, LenProperties
  <1>2. t = <<>> => Len(u) = 1
    <2>1. Len(<<>>) = 0
      OBVIOUS
    <2> HIDE DEF t
    <2> QED BY <1>1, <2>1
  <1> HIDE DEF t
  <1>3. ASSUME t # <<>>
        PROVE  /\ t[1] \in G /\ t[Len(t)] \in E
               /\ \A i \in 1..(Len(t) - 1) : <<t[i], t[i + 1]>> \in R
    <2>1. Len(t) \in Nat /\ Len(t) >= 1
      BY <1>1, <1>3, EmptySeq, LenProperties
    <2>2. t[1] = u[2] /\ t[Len(t)] = u[Len(u)]
      BY <1>1, <2>1
    <2>3. <<u[1], u[2]>> \in R
      BY <1>1, <2>1 DEF Strung
    <2>4. ASSUME NEW i \in 1..(Len(t) - 1) PROVE <<t[i], t[i + 1]>> \in R
      <3> DEFINE j == i + 1
      <3>1. j \in 1..(Len(u) - 1) /\ t[i] = u[j] /\ t[i + 1] = u[j + 1]
        BY <1>1, <2>1
      <3> HIDE DEF j
      <3> QED BY <3>1 DEF Strung
    <2> QED BY <1>1, <2>2, <2>3, <2>4 DEF Strung
  <1> QED BY <1>1, <1>2, <1>3 DEF Strung, t

LEMMA ChainGrows ==
  ASSUME NEW S, NEW u \in Seq(S), NEW w \in Seq(S), w # <<>>, NEW F, NEW G, NEW R, NEW E, NEW H,
         Strung(u, F, R, E), Strung(w, G, R, H), \A a \in E, b \in G : <<a, b>> \in R,
         u = <<>> => G \subseteq F
  PROVE  u \o w \in Seq(S) /\ u \o w # <<>> /\ Strung(u \o w, F, R, H)
  <1> DEFINE z == u \o w
             m == Len(u)
             n == Len(w)
  <1>1. /\ m \in Nat /\ n \in Nat /\ n >= 1 /\ z \in Seq(S) /\ Len(z) = m + n
        /\ \A i \in 1..(m + n) : z[i] = IF i <= m THEN u[i] ELSE w[i - m]
        /\ m = 0 <=> u = <<>>
    BY ConcatProperties, LenProperties, EmptySeq
  <1> HIDE DEF z, m, n
  <1>2. z # <<>> /\ z[Len(z)] = w[n] /\ w[n] \in H /\ w[1] \in G
    <2>1. w[n] \in H /\ w[1] \in G
      BY DEF Strung, n
    <2>2. m + n \in 1..(m + n) /\ ~(m + n <= m) /\ (m + n) - m = n
      BY <1>1
    <2>3. Len(<<>>) = 0
      OBVIOUS
    <2> QED BY <1>1, <2>1, <2>2, <2>3
  <1>3. z[1] \in F
    <2>1. CASE u = <<>>
      <3>1. 1 \in 1..(m + n) /\ ~(1 <= m) /\ 1 - m = 1
        BY <1>1, <2>1
      <3> QED BY <1>1, <1>2, <2>1, <3>1
    <2>2. CASE u # <<>>
      <3>1. 1 \in 1..(m + n) /\ 1 <= m
        BY <1>1, <2>2
      <3> QED BY <1>1, <2>2, <3>1 DEF Strung
    <2> QED BY <2>1, <2>2
  <1>4. ASSUME NEW i \in 1..(Len(z) - 1) PROVE <<z[i], z[i + 1]>> \in R
    <2>0. i \in Int /\ i >= 1 /\ i + 1 <= m + n /\ m \in Int
      BY <1>1
    <2>1. CASE i < m
      <3>1. z[i] = u[i] /\ z[i + 1] = u[i + 1] /\ i \in 1..(m - 1) /\ u # <<>>
        BY <1>1, <2>0, <2>1
      <3> QED BY <3>1 DEF Strung, m
    <2>2. CASE i = m
      <3>1. z[i] = u[m] /\ z[i + 1] = w[1] /\ u # <<>>
        <4>1. i + 1 \in 1..(m + n) /\ ~(i + 1 <= m) /\ (i + 1) - m = 1 /\ i \in 1..(m + n)
          BY <1>1, <2>0, <2>2
        <4> QED BY <1>1, <2>0, <2>2, <4>1
      <3>2. u[m] \in E
        BY <3>1 DEF Strung, m
      <3> QED BY <1>2, <3>1, <3>2
    <2>3. CASE i > m
      <3> DEFINE j == i - m
      <3>1. /\ i \in 1..(m + n) /\ i + 1 \in 1..(m + n) /\ ~(i <= m) /\ ~(i + 1 <= m)
            /\ (i + 1) - m = j + 1 /\ j \in 1..(n - 1)
        BY <1>1, <2>0, <2>3
      <3>2. z[i] = w[j] /\ z[i + 1] = w[j + 1]
        BY <1>1, <3>1
      <3> HIDE DEF j
      <3> QED BY <3>1, <3>2 DEF Strung, n
    <2> QED BY <2>0, <2>1, <2>2, <2>3
  <1> QED BY <1>1, <1>2, <1>3, <1>4 DEF Strung, z

-----------------------------------------------------------------------------
(***************************************************************************)
(* The replies and the readings, when nothing has failed.                  *)
(***************************************************************************)
QtNums == {1, 3} \cup {RegisterOf(p) : p \in QtOthers \ BitParameters}

QtOrders == OrdersTo(QtNums) \cup [op : {"tr"}, reg : {100}]

QtFiles == [bits : [BitRegisters -> SUBSET Nat], nums : [QtNums -> Int], cal : Int]

\* What is told of the registers: all of them, or those of the calibration.
Tellings == [regs : QtFiles, numbers : {0..107, 100..107}]

QtTypes ==
  /\ scenario \in Scenarios /\ DOMAIN other = QtOthers
  /\ toQt \in Seq(QtOrders) /\ regs \in QtFiles /\ replied \in Nat

ReplyPieces ==
  {k \in [part : {"tr", "length", "payload", "wr", "end"}, of : Nat, val : {{}} \cup Tellings] :
     k.part = "payload" => k.val \in Tellings}

ReplyNext ==
  {ab \in ReplyPieces \X ReplyPieces :
     /\ ab[1].part = "tr" => ab[2].part = "length"
     /\ ab[1].part = "length" => ab[2].part = "payload"
     /\ ab[1].part = "wr" => ab[2].part = "end"
     /\ ab[1].part \in {"payload", "end"} => ab[2].part \in {"tr", "wr"}}

\* What the command thread waits for, and where a reply ends.
ReplyFirst(c) ==
  {k \in ReplyPieces : /\ c = "name" => k.part \in {"tr", "wr"}
                       /\ c = "line" => k.part = "end"
                       /\ c \in {"length", "payload"} => k.part = c}
ReplyLast == {k \in ReplyPieces : k.part \in {"payload", "end"}}

RepliesPart ==
  /\ replyLine \in Seq(ReplyPieces) /\ replies \in Seq(ReplyPieces)
  /\ cmd \in {"name", "line", "length", "payload"}
  /\ Strung(replyLine \o replies, ReplyFirst(cmd), ReplyNext, ReplyLast)
  /\ replyLine \o replies = <<>> => cmd = "name"
  /\ ~unmade

ReadingPieces == [part : {"r", "text", "B", "block", "payload"}, of : Nat, val : {{}}]

ReadingNext ==
  {ab \in ReadingPieces \X ReadingPieces :
     /\ ab[1].part = "r" => ab[2].part = "text" /\ ab[2].of = ab[1].of
     /\ ab[1].part = "B" => ab[2].part = "block" /\ ab[2].of = ab[1].of
     /\ ab[1].part = "block" => ab[2].part = "payload" /\ ab[2].of = ab[1].of
     /\ ab[1].part \in {"text", "payload"} => ab[2].part \in {"r", "B"} /\ ab[2].of = ab[1].of + 1}

\* What the data thread waits for, after n messages, and where the n-th ends.
ReadingFirst(d, n) ==
  {k \in ReadingPieces : /\ k.of = n + 1
                         /\ d = "header" => k.part \in {"r", "B"}
                         /\ d # "header" => k.part = d}
ReadingLast(n) == {k \in ReadingPieces : k.part \in {"text", "payload"} /\ k.of = n}

ReadingsPart ==
  /\ dataLine \in Seq(ReadingPieces) /\ readings \in Seq(ReadingPieces)
  /\ dat \in {"header", "text", "block", "payload"} /\ computed \in Nat /\ sent \in Nat
  /\ Strung(dataLine \o readings, ReadingFirst(dat, computed), ReadingNext, ReadingLast(sent))
  /\ dataLine \o readings = <<>> => dat = "header" /\ computed = sent
  /\ ~missed

\* The parts of a message.
LEMMA PartsOne ==
  ASSUME NEW a, NEW b, NEW n, NEW v
  PROVE  /\ PartsOf(<<a, b>>, n, v) =
              <<[part |-> a, of |-> n, val |-> v], [part |-> b, of |-> n, val |-> v]>>
         /\ \A c : PartsOf(<<a, b, c>>, n, v) =
              <<[part |-> a, of |-> n, val |-> v], [part |-> b, of |-> n, val |-> v],
                [part |-> c, of |-> n, val |-> v]>>
  BY DEF PartsOf

LEMMA ChainTwo ==
  ASSUME NEW S, NEW a \in S, NEW b \in S, NEW F, NEW R, NEW E, a \in F, b \in E, <<a, b>> \in R
  PROVE  <<a, b>> \in Seq(S) /\ <<a, b>> # <<>> /\ Strung(<<a, b>>, F, R, E)
  <1> DEFINE u == <<a, b>>
  <1>1. u \in Seq(S) /\ Len(u) = 2 /\ u[1] = a /\ u[2] = b /\ u # <<>>
    OBVIOUS
  <1> HIDE DEF u
  <1>2. \A i \in 1..(Len(u) - 1) : i = 1
    BY <1>1
  <1>3. \A i \in 1..(Len(u) - 1) : u[i] = a /\ u[i + 1] = b
    BY <1>1, <1>2
  <1>4. Strung(u, F, R, E)
    BY <1>1, <1>3 DEF Strung
  <1>5. u \in Seq(S) /\ u # <<>> /\ Strung(u, F, R, E)
    BY <1>1, <1>4
  <1> QED BY <1>5 DEF u

LEMMA ChainThree ==
  ASSUME NEW S, NEW a \in S, NEW b \in S, NEW c \in S, NEW F, NEW R, NEW E,
         a \in F, c \in E, <<a, b>> \in R, <<b, c>> \in R
  PROVE  <<a, b, c>> \in Seq(S) /\ <<a, b, c>> # <<>> /\ Strung(<<a, b, c>>, F, R, E)
  <1> DEFINE u == <<a, b, c>>
  <1>1. u \in Seq(S) /\ Len(u) = 3 /\ u[1] = a /\ u[2] = b /\ u[3] = c /\ u # <<>>
    OBVIOUS
  <1> HIDE DEF u
  <1>2. \A i \in 1..(Len(u) - 1) : i = 1 \/ i = 2
    BY <1>1
  <1>3. \A i \in 1..(Len(u) - 1) : (u[i] = a /\ u[i + 1] = b) \/ (u[i] = b /\ u[i + 1] = c)
    BY <1>1, <1>2
  <1>4. Strung(u, F, R, E)
    BY <1>1, <1>3 DEF Strung
  <1>5. u \in Seq(S) /\ u # <<>> /\ Strung(u, F, R, E)
    BY <1>1, <1>4
  <1> QED BY <1>5 DEF u

\* A reply joins those under way.
LEMMA ReplyJoins ==
  ASSUME RepliesPart, NEW w \in Seq(ReplyPieces), w # <<>>,
         Strung(w, ReplyFirst("name"), ReplyNext, ReplyLast),
         replies' = replies \o w, UNCHANGED <<replyLine, cmd, unmade, scenario>>
  PROVE  RepliesPart'
  <1> DEFINE u == replyLine \o replies
  <1>0. replyLine \in Seq(ReplyPieces) /\ replies \in Seq(ReplyPieces)
    BY DEF RepliesPart
  <1>1. u \in Seq(ReplyPieces) /\ (replyLine \o replies)' = u \o w /\ replies' \in Seq(ReplyPieces)
    <2>1. u \in Seq(ReplyPieces) /\ replies' \in Seq(ReplyPieces)
      BY <1>0, ConcatProperties
    <2>2. (replyLine \o replies)' = replyLine \o (replies \o w)
      OBVIOUS
    <2>3. replyLine \in Seq(ReplyPieces)
      BY <1>0
    <2>4. replies \in Seq(ReplyPieces)
      BY <1>0
    <2>5. (replyLine \o replies) \o w = replyLine \o (replies \o w)
      BY <2>3, <2>4, ConcatAssociative
    <2> QED BY <2>1, <2>2, <2>5
  <1>2. \A a \in ReplyLast, b \in ReplyFirst("name") : <<a, b>> \in ReplyNext
    BY DEF ReplyLast, ReplyFirst, ReplyNext
  <1>3. Strung(u, ReplyFirst(cmd), ReplyNext, ReplyLast) /\ (u = <<>> => cmd = "name")
    BY DEF RepliesPart
  <1> HIDE DEF u
  <1>4. u \o w # <<>> /\ Strung(u \o w, ReplyFirst(cmd), ReplyNext, ReplyLast)
    BY <1>1, <1>2, <1>3, ChainGrows
  <1>5. ReplyPieces' = ReplyPieces
    BY DEF ReplyPieces, Tellings, QtFiles, QtNums, QtOthers
  <1>6. ReplyFirst(cmd)' = ReplyFirst(cmd) /\ ReplyNext' = ReplyNext /\ ReplyLast' = ReplyLast
    BY <1>5 DEF ReplyFirst, ReplyNext, ReplyLast
  <1> QED BY <1>1, <1>4, <1>5, <1>6 DEF RepliesPart

\* The next piece has come; and the next is read.
LEMMA PieceComes ==
  ASSUME NEW S, NEW t \in Seq(S), NEW q \in Seq(S), q # <<>>
  PROVE  Append(t, Head(q)) \in Seq(S) /\ Tail(q) \in Seq(S) /\ Append(t, Head(q)) \o Tail(q) = t \o q
  <1>1. Head(q) \in S /\ Tail(q) \in Seq(S)
    BY HeadTailProperties, EmptySeq
  <1>2. Append(t, Head(q)) \in Seq(S)
    BY <1>1, AppendProperties
  <1> QED BY <1>1, <1>2, SentIsUnderWay

LEMMA PieceRead ==
  ASSUME NEW S, NEW t \in Seq(S), NEW q \in Seq(S), t # <<>>
  PROVE  /\ Head(t) \in S /\ Tail(t) \in Seq(S) /\ t \o q \in Seq(S) /\ t \o q # <<>>
         /\ Head(t \o q) = Head(t) /\ Tail(t \o q) = Tail(t) \o q
  BY SMT

LEMMA CmdReads ==
  ASSUME RepliesPart, replyLine # <<>>, replyLine' = Tail(replyLine),
         UNCHANGED <<replies, unmade, scenario>>, cmd' \in {"name", "line", "length", "payload"},
         \A b \in ReplyPieces : <<Head(replyLine), b>> \in ReplyNext => b \in ReplyFirst(cmd'),
         Head(replyLine) \in ReplyLast => cmd' = "name"
  PROVE  RepliesPart'
  <1> DEFINE u == replyLine \o replies
             k == Head(replyLine)
  <1>1. /\ k \in ReplyPieces /\ Tail(replyLine) \in Seq(ReplyPieces) /\ u \in Seq(ReplyPieces)
        /\ u # <<>> /\ Head(u) = k /\ Tail(u) = Tail(replyLine) \o replies
    BY PieceRead DEF RepliesPart
  <1>2. \A b : <<Head(u), b>> \in ReplyNext => b \in ReplyFirst(cmd')
    <2>1. \A b : <<k, b>> \in ReplyNext => b \in ReplyPieces
      BY DEF ReplyNext
    <2> QED BY <1>1, <2>1
  <1>3. Strung(u, ReplyFirst(cmd), ReplyNext, ReplyLast)
    BY DEF RepliesPart
  <1> HIDE DEF u
  <1>4. Strung(Tail(u), ReplyFirst(cmd'), ReplyNext, ReplyLast) /\ (Tail(u) = <<>> => k \in ReplyLast)
    BY <1>1, <1>2, <1>3, ChainTail
  <1>5. ReplyPieces' = ReplyPieces
    BY DEF ReplyPieces, Tellings, QtFiles, QtNums, QtOthers
  <1>6. ReplyFirst(cmd)' = ReplyFirst(cmd') /\ ReplyNext' = ReplyNext /\ ReplyLast' = ReplyLast
    BY <1>5 DEF ReplyFirst, ReplyNext, ReplyLast
  <1>7. (replyLine \o replies)' = Tail(u)
    BY <1>1
  <1> QED BY <1>1, <1>4, <1>5, <1>6, <1>7 DEF RepliesPart

\* What the command thread finds first.
LEMMA FirstReply ==
  ASSUME RepliesPart, replyLine # <<>>
  PROVE  Head(replyLine) \in ReplyFirst(cmd) /\ Head(replyLine) \in ReplyPieces
  <1> DEFINE u == replyLine \o replies
  <1>1. u \in Seq(ReplyPieces) /\ u # <<>> /\ Head(u) = Head(replyLine) /\ Head(replyLine) \in ReplyPieces
    BY PieceRead DEF RepliesPart
  <1>2. Strung(u, ReplyFirst(cmd), ReplyNext, ReplyLast)
    BY DEF RepliesPart
  <1> HIDE DEF u
  <1>3. u[1] \in ReplyFirst(cmd) /\ Head(u) = u[1]
    BY <1>1, <1>2 DEF Strung
  <1> QED BY <1>1, <1>3

LEMMA NameReply == ASSUME RepliesPart, CmdName PROVE RepliesPart'
  <1> DEFINE k == Head(replyLine)
  <1>1. cmd = "name" /\ replyLine # <<>> /\ UNCHANGED <<replies, unmade, scenario>>
    BY DEF CmdName, port, qtParams, dataIn, qtBounds, qtHistory
  <1>2. k \in ReplyPieces /\ k.part \in {"tr", "wr"}
    BY <1>1, FirstReply DEF ReplyFirst
  <1>3. StatesAfter("tr") = {"length"} /\ StatesAfter("wr") = {"line"}
    BY DEF StatesAfter
  <1>4. replyLine' = Tail(replyLine) /\ cmd' = IF k.part = "tr" THEN "length" ELSE "line"
    BY <1>2, <1>3 DEF CmdName
  <1>5. \A b \in ReplyPieces : <<k, b>> \in ReplyNext => b \in ReplyFirst(cmd')
    BY <1>2, <1>4 DEF ReplyNext, ReplyFirst
  <1>6. k \notin ReplyLast
    BY <1>2 DEF ReplyLast
  <1> QED BY <1>1, <1>4, <1>5, <1>6, CmdReads

LEMMA LineReply == ASSUME RepliesPart, CmdLine PROVE RepliesPart'
  <1> DEFINE k == Head(replyLine)
  <1>1. cmd = "line" /\ replyLine # <<>> /\ UNCHANGED <<replies, unmade, scenario>>
    BY DEF CmdLine, port, qtParams, dataIn, qtBounds, qtHistory
  <1>2. k \in ReplyPieces /\ k.part = "end"
    BY <1>1, FirstReply DEF ReplyFirst
  <1>3. replyLine' = Tail(replyLine) /\ cmd' = "name"
    BY <1>2 DEF CmdLine
  <1>4. \A b \in ReplyPieces : <<k, b>> \in ReplyNext => b \in ReplyFirst(cmd')
    BY <1>2, <1>3 DEF ReplyNext, ReplyFirst
  <1> QED BY <1>1, <1>3, <1>4, CmdReads

LEMMA LengthReply == ASSUME RepliesPart, CmdLength PROVE RepliesPart'
  <1> DEFINE k == Head(replyLine)
  <1>1. /\ cmd = "length" /\ replyLine # <<>> /\ UNCHANGED <<replies, unmade, scenario>>
        /\ replyLine' = Tail(replyLine) /\ cmd' = "payload"
    BY DEF CmdLength, port, qtParams, dataIn, qtBounds, qtHistory
  <1>2. k \in ReplyPieces /\ k.part = "length"
    BY <1>1, FirstReply DEF ReplyFirst
  <1>3. \A b \in ReplyPieces : <<k, b>> \in ReplyNext => b \in ReplyFirst(cmd')
    BY <1>1, <1>2 DEF ReplyNext, ReplyFirst
  <1>4. k \notin ReplyLast
    BY <1>2 DEF ReplyLast
  <1> QED BY <1>1, <1>3, <1>4, CmdReads

\* A payload is one.
LEMMA PayloadIs ==
  ASSUME RepliesPart, CmdPayload
  PROVE  /\ Head(replyLine).part = "payload" /\ Head(replyLine).val \in Tellings
         /\ Apply(Head(replyLine).val.regs, Head(replyLine).val.numbers)
         /\ Learns(Head(replyLine).val)
         /\ RepliesPart'
  <1> DEFINE k == Head(replyLine)
  <1>1. /\ cmd = "payload" /\ replyLine # <<>> /\ UNCHANGED <<replies, scenario>>
        /\ replyLine' = Tail(replyLine) /\ cmd' = "name"
    BY DEF CmdPayload, dataIn, qtBounds
  <1>2. k \in ReplyPieces /\ k.part = "payload"
    BY <1>1, FirstReply DEF ReplyFirst
  <1>3. k.val \in Tellings
    BY <1>2 DEF ReplyPieces
  <1>4. /\ Apply(k.val.regs, k.val.numbers) /\ Learns(k.val)
        /\ UNCHANGED unmade
    BY <1>2 DEF CmdPayload
  <1>5. \A b \in ReplyPieces : <<k, b>> \in ReplyNext => b \in ReplyFirst(cmd')
    BY <1>1, <1>2 DEF ReplyNext, ReplyFirst
  <1>6. RepliesPart'
    BY <1>1, <1>4, <1>5, CmdReads
  <1> QED BY <1>2, <1>3, <1>4, <1>6

\* A piece of a reply comes.
LEMMA ReplyComes ==
  ASSUME RepliesPart, replies # <<>>, replyLine' = Append(replyLine, Head(replies)),
         replies' = Tail(replies), UNCHANGED <<cmd, unmade, scenario>>
  PROVE  RepliesPart'
  <1>1. /\ replyLine' \in Seq(ReplyPieces) /\ replies' \in Seq(ReplyPieces)
        /\ (replyLine \o replies)' = replyLine \o replies
    BY PieceComes DEF RepliesPart
  <1>2. ReplyPieces' = ReplyPieces
    BY DEF ReplyPieces, Tellings, QtFiles, QtNums, QtOthers
  <1>3. ReplyFirst(cmd)' = ReplyFirst(cmd) /\ ReplyNext' = ReplyNext /\ ReplyLast' = ReplyLast
    BY <1>2 DEF ReplyFirst, ReplyNext, ReplyLast
  <1> QED BY <1>1, <1>2, <1>3 DEF RepliesPart

LEMMA RepliesStay ==
  ASSUME RepliesPart, UNCHANGED <<replyLine, replies, cmd, unmade, scenario>> PROVE RepliesPart'
  <1>2. ReplyPieces' = ReplyPieces
    BY DEF ReplyPieces, Tellings, QtFiles, QtNums, QtOthers
  <1>3. ReplyFirst(cmd)' = ReplyFirst(cmd) /\ ReplyNext' = ReplyNext /\ ReplyLast' = ReplyLast
    BY <1>2 DEF ReplyFirst, ReplyNext, ReplyLast
  <1> QED BY <1>2, <1>3 DEF RepliesPart

-----------------------------------------------------------------------------
\* A reading joins those under way.
LEMMA ReadingJoins ==
  ASSUME ReadingsPart, NEW w \in Seq(ReadingPieces), w # <<>>,
         Strung(w, ReadingFirst("header", sent), ReadingNext, ReadingLast(sent + 1)),
         readings' = readings \o w, sent' = sent + 1, UNCHANGED <<dataLine, dat, computed, missed>>
  PROVE  ReadingsPart'
  <1> DEFINE u == dataLine \o readings
  <1>0. dataLine \in Seq(ReadingPieces) /\ readings \in Seq(ReadingPieces)
    BY DEF ReadingsPart
  <1>1. u \in Seq(ReadingPieces) /\ (dataLine \o readings)' = u \o w /\ readings' \in Seq(ReadingPieces)
    <2>1. u \in Seq(ReadingPieces) /\ readings' \in Seq(ReadingPieces)
      BY <1>0, ConcatProperties
    <2>2. (dataLine \o readings)' = dataLine \o (readings \o w)
      OBVIOUS
    <2>3. dataLine \in Seq(ReadingPieces)
      BY <1>0
    <2>4. readings \in Seq(ReadingPieces)
      BY <1>0
    <2>5. (dataLine \o readings) \o w = dataLine \o (readings \o w)
      BY <2>3, <2>4, ConcatAssociative
    <2> QED BY <2>1, <2>2, <2>5
  <1>2. \A a \in ReadingLast(sent), b \in ReadingFirst("header", sent) : <<a, b>> \in ReadingNext
    BY DEF ReadingLast, ReadingFirst, ReadingNext
  <1>3. /\ Strung(u, ReadingFirst(dat, computed), ReadingNext, ReadingLast(sent))
        /\ u = <<>> => dat = "header" /\ computed = sent
    BY DEF ReadingsPart
  <1> HIDE DEF u
  <1>4. u \o w # <<>> /\ Strung(u \o w, ReadingFirst(dat, computed), ReadingNext, ReadingLast(sent + 1))
    BY <1>1, <1>2, <1>3, ChainGrows
  <1>5. (sent + 1) \in Nat
    BY DEF ReadingsPart
  <1>6. ReadingFirst(dat, computed)' = ReadingFirst(dat, computed) /\ ReadingLast(sent)' = ReadingLast(sent + 1)
    BY DEF ReadingFirst, ReadingLast
  <1> QED BY <1>1, <1>4, <1>5, <1>6 DEF ReadingsPart

LEMMA SendsReading == ASSUME ReadingsPart, Sends PROVE ReadingsPart'
  <1> DEFINE k(part) == [part |-> part, of |-> sent + 1, val |-> {}]
             r == k("r")
             t == k("text")
             h == k("B")
             b == k("block")
             p == k("payload")
  <1>1. /\ sent' = sent + 1 /\ UNCHANGED <<dataLine, dat, computed, missed>>
        /\ \E kinds \in {<<"r", "text">>, <<"B", "block", "payload">>} :
             readings' = readings \o PartsOf(kinds, sent + 1, {})
    BY DEF Sends, qtHistory
  <1>2. sent \in Nat
    BY DEF ReadingsPart
  <1>3. {r, t, h, b, p} \subseteq ReadingPieces
    BY <1>2 DEF ReadingPieces
  <1>4. /\ r \in ReadingFirst("header", sent) /\ h \in ReadingFirst("header", sent)
        /\ t \in ReadingLast(sent + 1) /\ p \in ReadingLast(sent + 1)
    BY <1>3 DEF ReadingFirst, ReadingLast
  <1>5. <<r, t>> \in ReadingNext /\ <<h, b>> \in ReadingNext /\ <<b, p>> \in ReadingNext
    BY <1>3 DEF ReadingNext
  <1>6. readings' = readings \o <<r, t>> \/ readings' = readings \o <<h, b, p>>
    <2>1. PartsOf(<<"r", "text">>, sent + 1, {}) = <<r, t>>
      BY SMT DEF PartsOf
    <2>2. PartsOf(<<"B", "block", "payload">>, sent + 1, {}) = <<h, b, p>>
      BY SMT DEF PartsOf
    <2> HIDE DEF r, t, h, b, p
    <2> QED BY <1>1, <2>1, <2>2, Zenon
  <1> HIDE DEF r, t, h, b, p
  <1>7. CASE readings' = readings \o <<r, t>>
    <2>1. /\ <<r, t>> \in Seq(ReadingPieces) /\ <<r, t>> # <<>>
          /\ Strung(<<r, t>>, ReadingFirst("header", sent), ReadingNext, ReadingLast(sent + 1))
      BY <1>3, <1>4, <1>5, ChainTwo
    <2> QED BY <1>1, <1>7, <2>1, ReadingJoins
  <1>8. CASE readings' = readings \o <<h, b, p>>
    <2>1. /\ <<h, b, p>> \in Seq(ReadingPieces) /\ <<h, b, p>> # <<>>
          /\ Strung(<<h, b, p>>, ReadingFirst("header", sent), ReadingNext, ReadingLast(sent + 1))
      BY <1>3, <1>4, <1>5, ChainThree
    <2> QED BY <1>1, <1>8, <2>1, ReadingJoins
  <1> QED BY <1>6, <1>7, <1>8

\* A piece is read: what follows is that of the next.
LEMMA DataReads ==
  ASSUME ReadingsPart, dataLine # <<>>, dataLine' = Tail(dataLine),
         UNCHANGED <<readings, sent>>, ~missed', dat' \in {"header", "text", "block", "payload"},
         computed' \in Nat,
         \A b \in ReadingPieces : <<Head(dataLine), b>> \in ReadingNext => b \in ReadingFirst(dat', computed'),
         Head(dataLine) \in ReadingLast(sent) => dat' = "header" /\ computed' = sent
  PROVE  ReadingsPart'
  <1> DEFINE u == dataLine \o readings
             k == Head(dataLine)
  <1>1. /\ k \in ReadingPieces /\ Tail(dataLine) \in Seq(ReadingPieces) /\ u \in Seq(ReadingPieces)
        /\ u # <<>> /\ Head(u) = k /\ Tail(u) = Tail(dataLine) \o readings
    BY PieceRead DEF ReadingsPart
  <1>2. \A b : <<Head(u), b>> \in ReadingNext => b \in ReadingFirst(dat', computed')
    <2>1. \A b : <<k, b>> \in ReadingNext => b \in ReadingPieces
      BY DEF ReadingNext
    <2> QED BY <1>1, <2>1
  <1>3. Strung(u, ReadingFirst(dat, computed), ReadingNext, ReadingLast(sent))
    BY DEF ReadingsPart
  <1> HIDE DEF u
  <1>4. /\ Strung(Tail(u), ReadingFirst(dat', computed'), ReadingNext, ReadingLast(sent))
        /\ Tail(u) = <<>> => k \in ReadingLast(sent)
    BY <1>1, <1>2, <1>3, ChainTail
  <1>5. /\ ReadingFirst(dat, computed)' = ReadingFirst(dat', computed')
        /\ ReadingLast(sent)' = ReadingLast(sent)
    BY DEF ReadingFirst, ReadingLast
  <1>6. (dataLine \o readings)' = Tail(u)
    BY <1>1
  <1>7. readings' \in Seq(ReadingPieces) /\ sent' \in Nat
    BY DEF ReadingsPart
  <1> QED BY <1>1, <1>4, <1>5, <1>6, <1>7 DEF ReadingsPart

LEMMA FirstReading ==
  ASSUME ReadingsPart, dataLine # <<>>
  PROVE  Head(dataLine) \in ReadingFirst(dat, computed) /\ Head(dataLine) \in ReadingPieces
  <1> DEFINE u == dataLine \o readings
  <1>1. u \in Seq(ReadingPieces) /\ u # <<>> /\ Head(u) = Head(dataLine) /\ Head(dataLine) \in ReadingPieces
    BY PieceRead DEF ReadingsPart
  <1>2. Strung(u, ReadingFirst(dat, computed), ReadingNext, ReadingLast(sent))
    BY DEF ReadingsPart
  <1> HIDE DEF u
  <1>3. u[1] \in ReadingFirst(dat, computed) /\ Head(u) = u[1]
    BY <1>1, <1>2 DEF Strung
  <1> QED BY <1>1, <1>3

LEMMA HeaderReading == ASSUME ReadingsPart, DataHeader PROVE ReadingsPart'
  <1> DEFINE k == Head(dataLine)
  <1>1. dat = "header" /\ dataLine # <<>> /\ UNCHANGED <<readings, sent, computed>> /\ ~missed' /\ computed \in Nat
    BY DEF DataHeader, qtBounds, qtHistory, ReadingsPart
  <1>2. k \in ReadingPieces /\ k.part \in {"r", "B"} /\ k.of = computed + 1
    BY <1>1, FirstReading DEF ReadingFirst
  <1>3. Headers("r") = {"text"} /\ Headers("B") = {"block"}
    BY DEF Headers
  <1>4. dataLine' = Tail(dataLine) /\ dat' = IF k.part = "r" THEN "text" ELSE "block"
    BY <1>2, <1>3 DEF DataHeader
  <1>5. \A b \in ReadingPieces : <<k, b>> \in ReadingNext => b \in ReadingFirst(dat', computed')
    BY <1>1, <1>2, <1>4 DEF ReadingNext, ReadingFirst
  <1>6. k \notin ReadingLast(sent)
    BY <1>2 DEF ReadingLast
  <1> QED BY <1>1, <1>4, <1>5, <1>6, DataReads

LEMMA BlockReading == ASSUME ReadingsPart, DataBlock PROVE ReadingsPart'
  <1> DEFINE k == Head(dataLine)
  <1>1. dat = "block" /\ dataLine # <<>> /\ UNCHANGED <<readings, sent, computed>> /\ ~missed' /\ computed \in Nat
    BY DEF DataBlock, qtBounds, qtHistory, ReadingsPart
  <1>2. k \in ReadingPieces /\ k.part = "block" /\ k.of = computed + 1
    BY <1>1, FirstReading DEF ReadingFirst
  <1>4. dataLine' = Tail(dataLine) /\ dat' = "payload"
    BY <1>2 DEF DataBlock
  <1>5. \A b \in ReadingPieces : <<k, b>> \in ReadingNext => b \in ReadingFirst(dat', computed')
    BY <1>1, <1>2, <1>4 DEF ReadingNext, ReadingFirst
  <1>6. k \notin ReadingLast(sent)
    BY <1>2 DEF ReadingLast
  <1> QED BY <1>1, <1>4, <1>5, <1>6, DataReads

\* The last piece of a message: it is computed, and is the next.
LEMMA LastReading ==
  ASSUME ReadingsPart, DataText \/ DataPayload PROVE ReadingsPart' /\ UNCHANGED unmade
  <1> DEFINE k == Head(dataLine)
  <1>1. dat \in {"text", "payload"} /\ dataLine # <<>> /\ UNCHANGED <<readings, sent>> /\ computed \in Nat
    BY DEF DataText, DataPayload, qtBounds, ReadingsPart
  <1>2. k \in ReadingPieces /\ k.part = dat /\ k.of = computed + 1
    BY <1>1, FirstReading DEF ReadingFirst
  <1>3. dataLine' = Tail(dataLine) /\ dat' = "header" /\ Computes
    BY <1>1, <1>2 DEF DataText, DataPayload
  <1>4. computed' = computed + 1 /\ ~missed' /\ UNCHANGED unmade
    BY <1>2, <1>3 DEF Computes, ReadingsPart
  <1>5. \A b \in ReadingPieces : <<k, b>> \in ReadingNext => b \in ReadingFirst(dat', computed')
    <2>1. k.part \in {"text", "payload"}
      BY <1>1, <1>2
    <2> QED BY <1>1, <1>2, <1>3, <1>4, <2>1 DEF ReadingNext, ReadingFirst
  <1>6. k \in ReadingLast(sent) => computed' = sent
    BY <1>1, <1>2, <1>4 DEF ReadingLast
  <1> QED BY <1>1, <1>3, <1>4, <1>5, <1>6, DataReads

LEMMA ReadingComes ==
  ASSUME ReadingsPart, readings # <<>>, dataLine' = Append(dataLine, Head(readings)),
         readings' = Tail(readings), UNCHANGED <<dat, computed, sent, missed>>
  PROVE  ReadingsPart'
  <1>1. /\ dataLine' \in Seq(ReadingPieces) /\ readings' \in Seq(ReadingPieces)
        /\ (dataLine \o readings)' = dataLine \o readings
    BY PieceComes DEF ReadingsPart
  <1>2. ReadingFirst(dat, computed)' = ReadingFirst(dat, computed) /\ ReadingLast(sent)' = ReadingLast(sent)
    BY DEF ReadingFirst, ReadingLast
  <1> QED BY <1>1, <1>2 DEF ReadingsPart

LEMMA ReadingsStay ==
  ASSUME ReadingsPart, UNCHANGED <<dataLine, readings, dat, computed, sent, missed>> PROVE ReadingsPart'
  BY DEF ReadingsPart, ReadingFirst, ReadingLast

-----------------------------------------------------------------------------
(***************************************************************************)
(* The registers, and what the driver writes.                              *)
(***************************************************************************)
QtRegisters == BitRegisters \cup QtNums

LEMMA QtOthersAre ==
  ASSUME scenario \in Scenarios
  PROVE  /\ QtOthers \subseteq Stored \ {"Range", "SampleFreq", "AveragingTime"}
         /\ \A s \in scenario.settings : s[1] \in Stored \cup {"AveragingTime"} /\ s[2] \in Int
         /\ \A p \in QtOthers \ BitParameters : RegisterOf(p) \in QtNums
  <1>1. \A s \in scenario.settings : s[1] \in Settings /\ s[2] \in Int
    BY QtAssumption
  <1>2. Settings = Stored \cup {"AveragingTime"}
    BY DEF Settings, Stored
  <1>3. QtOthers = SwitchNames \cup FieldNames \cup
                      ({s[1] : s \in scenario.settings} \ {"Range", "SampleFreq", "AveragingTime"})
    BY NamesAre DEF QtOthers
  <1>4. SwitchNames \cup FieldNames \subseteq Stored
    BY NamesAre DEF Stored
  <1>5. \A p \in SwitchNames \cup FieldNames : p \notin {"Range", "SampleFreq", "AveragingTime"}
    BY DEF SwitchNames, FieldNames
  <1>6. QtOthers \subseteq Stored \ {"Range", "SampleFreq", "AveragingTime"}
    BY <1>1, <1>2, <1>3, <1>4, <1>5
  <1> QED BY <1>1, <1>2, <1>6 DEF QtNums

LEMMA QtNumsAre ==
  ASSUME scenario \in Scenarios
  PROVE  \A r \in QtNums : r \notin BitRegisters /\ r \in Nat /\ r < 100
  <1>1. \A p \in QtOthers \ BitParameters :
          RegisterOf(p) \notin BitRegisters /\ RegisterOf(p) \in Nat /\ RegisterOf(p) < 100
    BY QtOthersAre, RegistersDiffer
  <1>2. \A r \in {1, 3} : r \notin BitRegisters /\ r \in Nat /\ r < 100
    BY DEF BitRegisters
  <1> QED BY <1>1, <1>2 DEF QtNums

\* A parameter, its value and its commands.
QtSets(p, v, cs) ==
  /\ p \in QtOthers /\ v \in Int /\ cs \in Commands(p, v) /\ toQt' = toQt \o cs
  /\ known' = known \cup {p} /\ other' = [other EXCEPT ![p] = v]
  /\ UNCHANGED <<range, currRange, sampleFreq, rate, averaging, numAverage, cal>>

QtSetsRange(v) ==
  /\ v \in Int /\ toQt' = toQt \o <<Wr(3, Clip(v))>>
  /\ known' = (known \cup {"Range"}) \ {"Calibration"}
  /\ range' = Clip(v) /\ currRange' = Clip(v)
  /\ UNCHANGED <<sampleFreq, rate, averaging, numAverage, other, cal>>

QtSetsRate(v) ==
  /\ v \in Int /\ toQt' = toQt \o <<Wr(1, v)>>
  /\ known' = (known \cup {"SampleFreq"}) \ {"Rate"} /\ sampleFreq' = v
  /\ UNCHANGED <<range, currRange, rate, averaging, numAverage, other, cal>>

QtSetsTime(t) ==
  /\ t \in Int /\ known' = known \cup {"AveragingTime"} /\ averaging' = t /\ numAverage' = t * rate
  /\ UNCHANGED <<toQt, range, currRange, sampleFreq, rate, other, cal>>

QtUpdates ==
  /\ toQt' = toQt \o <<Tr(100)>>
  /\ UNCHANGED <<known, range, currRange, sampleFreq, rate, averaging, numAverage, other, cal>>

LEMMA QtPortIs ==
  ASSUME scenario \in Scenarios, faults = 0, UNCHANGED faults, QtPort
  PROVE  /\ UNCHANGED <<scenario, regs, replies, replyLine, cmd, readings, dataLine, dat,
                        replied, sent, computed, unmade, missed>>
         /\ \/ \E p, v, cs : QtSets(p, v, cs)
            \/ \E v : QtSetsRange(v)
            \/ \E v : QtSetsRate(v)
            \/ \E t : QtSetsTime(t)
            \/ QtUpdates
  <1> DEFINE Kept == UNCHANGED <<scenario, regs, replies, replyLine, cmd, readings, dataLine, dat,
                                 replied, sent, computed, unmade, missed>>
             Good == \/ \E p, v, cs : QtSets(p, v, cs)
                     \/ \E v : QtSetsRange(v)
                     \/ \E v : QtSetsRate(v)
                     \/ \E t : QtSetsTime(t)
  <1>1. ASSUME NEW cs, Written(cs) PROVE toQt' = toQt \o cs
    <2>1. ~Fault
      BY DEF Fault
    <2> QED BY <1>1, <2>1 DEF Written
  <1>2. ASSUME NEW p, SetsParam(p)
        PROVE  /\ Kept
               /\ known' = (known \cup {p}) \ (IF p = "Range" THEN {"Calibration"}
                                               ELSE IF p = "SampleFreq" THEN {"Rate"} ELSE {})
    BY <1>2 DEF SetsParam, replyIn, dataIn
  <1>3. \A s \in scenario.settings : s[1] \in Stored \cup {"AveragingTime"} /\ s[2] \in Int
    BY QtOthersAre
  <1> HIDE DEF Kept
  <1>4. ASSUME NEW s \in scenario.settings, s[1] = "Range" /\ SetRange(s[2]) PROVE Kept /\ Good
    <2>1. Kept /\ known' = (known \cup {"Range"}) \ {"Calibration"}
      BY <1>2, <1>4 DEF SetRange
    <2>2. toQt' = toQt \o <<Wr(3, Clip(s[2]))>>
      <3>1. Written(<<Wr(3, Clip(s[2]))>>)
        BY <1>4 DEF SetRange
      <3> QED BY <1>1, <3>1
    <2>3. QtSetsRange(s[2])
      BY <1>3, <1>4, <2>1, <2>2 DEF SetRange, QtSetsRange
    <2> QED BY <2>1, <2>3
  <1>5. ASSUME NEW s \in scenario.settings, s[1] = "SampleFreq" /\ SetSampleFreq(s[2])
        PROVE  Kept /\ Good
    <2>1. Kept /\ known' = (known \cup {"SampleFreq"}) \ {"Rate"}
      BY <1>2, <1>5 DEF SetSampleFreq
    <2>2. toQt' = toQt \o <<Wr(1, s[2])>>
      <3>1. Written(<<Wr(1, s[2])>>)
        BY <1>5 DEF SetSampleFreq
      <3> QED BY <1>1, <3>1
    <2>3. QtSetsRate(s[2])
      BY <1>3, <1>5, <2>1, <2>2 DEF SetSampleFreq, QtSetsRate
    <2> QED BY <2>1, <2>3
  <1>6. ASSUME NEW s \in scenario.settings, s[1] = "AveragingTime" /\ SetAveragingTime(s[2])
        PROVE  Kept /\ Good
    <2>1. Kept /\ known' = known \cup {"AveragingTime"}
      BY <1>2, <1>6 DEF SetAveragingTime
    <2>2. QtSetsTime(s[2])
      BY <1>3, <1>6, <2>1 DEF SetAveragingTime, QtSetsTime
    <2> QED BY <2>1, <2>2
  <1>7. ASSUME NEW s \in scenario.settings, SetInteger(s[1], s[2]) \/ SetDouble(s[1], s[2])
        PROVE  Kept /\ Good
    <2>1. /\ SetsParam(s[1]) /\ other' = [other EXCEPT ![s[1]] = s[2]]
          /\ \E commands \in Commands(s[1], s[2]) : Written(commands)
          /\ UNCHANGED <<range, currRange, sampleFreq, rate, averaging, numAverage, cal>>
      BY <1>7 DEF SetInteger, SetDouble
    <2>2. s[1] \in SwitchNames \cup FieldNames \cup NumbersTold \cup PidNames
                     \cup {"BiasNVoltage", "BiasPVoltage"}
      BY <1>7, NamesAre DEF SetInteger, SetDouble
    <2>3. s[1] \notin {"Range", "SampleFreq", "AveragingTime"}
      BY <2>2 DEF SwitchNames, FieldNames, NumbersTold, PidNames
    <2>4. s[1] \in QtOthers
      BY <2>3 DEF QtOthers
    <2>5. Kept /\ known' = known \cup {s[1]}
      BY <1>2, <2>1, <2>3
    <2>6. PICK commands \in Commands(s[1], s[2]) : toQt' = toQt \o commands
      BY <1>1, <2>1
    <2>7. QtSets(s[1], s[2], commands)
      BY <1>3, <2>1, <2>4, <2>5, <2>6 DEF QtSets
    <2> QED BY <2>5, <2>7
  <1>8. ASSUME SetUpdate PROVE Kept /\ QtUpdates
    <2>1. toQt' = toQt \o <<Tr(100)>>
      <3>1. Written(<<Tr(100)>>)
        BY <1>8 DEF SetUpdate, Asks
      <3> QED BY <1>1, <3>1
    <2> QED BY <1>8, <2>1 DEF SetUpdate, qtParams, replyIn, dataIn, qtHistory, QtUpdates, Kept
  <1>9. CASE \E s \in scenario.settings :
               \/ s[1] = "Range" /\ SetRange(s[2])
               \/ s[1] = "SampleFreq" /\ SetSampleFreq(s[2])
               \/ s[1] = "AveragingTime" /\ SetAveragingTime(s[2])
               \/ SetInteger(s[1], s[2])
               \/ SetDouble(s[1], s[2])
    <2>1. Kept /\ Good
      BY <1>4, <1>5, <1>6, <1>7, <1>9
    <2> QED BY <2>1 DEF Kept
  <1>10. CASE SetUpdate
    BY <1>8, <1>10 DEF Kept
  <1> QED BY <1>9, <1>10 DEF QtPort

\* The commands are commands.
LEMMA QtCommandsAre ==
  ASSUME scenario \in Scenarios
  PROVE  /\ \A p, v, cs : QtSets(p, v, cs) =>
              /\ cs \in Seq(QtOrders)
              /\ \A i \in 1..Len(cs) : cs[i].op # "tr" /\ cs[i].reg = RegisterOf(p)
         /\ \A r \in {1, 3}, n \in Int : Wr(r, n) \in QtOrders
         /\ Tr(100) \in QtOrders
         /\ \A v \in Int : Clip(v) \in Int
  <1>1. ASSUME NEW p, NEW v, NEW cs, QtSets(p, v, cs)
        PROVE  /\ cs \in Seq(QtOrders)
               /\ \A i \in 1..Len(cs) : cs[i].op # "tr" /\ cs[i].reg = RegisterOf(p)
    <2>1. p \in Stored /\ v \in Int /\ cs \in Commands(p, v)
          /\ (p \notin BitParameters => RegisterOf(p) \in QtNums)
      BY <1>1, QtOthersAre DEF QtSets
    <2>2. /\ cs \in Seq(OrdersTo(WrittenFor(p)))
          /\ \A i \in 1..Len(cs) : cs[i].op # "tr" /\ cs[i].reg = RegisterOf(p)
      BY <2>1, SettingIs
    <2>3. OrdersTo(WrittenFor(p)) \subseteq QtOrders
      <3>1. WrittenFor(p) \subseteq QtNums
        BY <2>1 DEF WrittenFor
      <3> QED BY <3>1 DEF OrdersTo, QtOrders
    <2> QED BY <2>2, <2>3
  <1>2. ASSUME NEW r \in {1, 3}, NEW n \in Int PROVE Wr(r, n) \in QtOrders
    <2>1. r \in QtNums
      BY DEF QtNums
    <2> QED BY <2>1 DEF Wr, QtOrders, OrdersTo
  <1>3. Tr(100) \in QtOrders
    BY DEF Tr, QtOrders
  <1>4. \A v \in Int : Clip(v) \in Int
    BY DEF Clip
  <1> QED BY <1>1, <1>2, <1>3, <1>4

\* The registers after a command, as Replies has it.
QtAfter(c) == IF c.reg = 3 THEN [Executed(regs, c) EXCEPT !.cal = c.num] ELSE Executed(regs, c)

LEMMA QtAfterIs ==
  ASSUME scenario \in Scenarios, regs \in QtFiles,
         NEW c \in QtOrders, c.op # "tr"
  PROVE  /\ QtAfter(c) \in QtFiles
         /\ \A r \in QtRegisters : Content(QtAfter(c), r) = Effect(c, r, Content(regs, r))
         /\ c.reg # 3 => QtAfter(c).cal = regs.cal
         /\ \A r \in QtRegisters : r # c.reg => Content(QtAfter(c), r) = Content(regs, r)
  <1> DEFINE E == QtAfter(c)
             Right == /\ E \in QtFiles
                      /\ \A r \in QtRegisters : Content(E, r) = Effect(c, r, Content(regs, r))
                      /\ c.reg # 3 => E.cal = regs.cal
  <1>1. /\ regs.bits \in [BitRegisters -> SUBSET Nat] /\ regs.nums \in [QtNums -> Int]
        /\ regs.cal \in Int
        /\ regs = [bits |-> regs.bits, nums |-> regs.nums, cal |-> regs.cal]
    BY DEF QtFiles
  <1>2. \A r \in QtNums : r \notin BitRegisters /\ r # 100
    BY QtNumsAre
  <1>3. ASSUME c \in [op : {"wr"}, reg : QtNums, num : Int] PROVE Right
    <2> DEFINE f == [regs.nums EXCEPT ![c.reg] = c.num]
    <2>1. c.op = "wr" /\ c.reg \in QtNums /\ c.num \in Int /\ c.reg # 100 /\ c.reg \notin BitRegisters
      BY <1>2, <1>3
    <2>2. Executed(regs, c) = [bits |-> regs.bits, nums |-> f, cal |-> regs.cal]
      <3>1. Executed(regs, c) = [regs EXCEPT !.nums[c.reg] = c.num]
        BY <2>1 DEF Executed
      <3> QED BY <1>1, <3>1
    <2>3. /\ f \in [QtNums -> Int]
          /\ \A r \in QtNums : f[r] = IF r = c.reg THEN c.num ELSE regs.nums[r]
      BY <1>1, <2>1
    <2> HIDE DEF f
    <2>4. E.bits = regs.bits /\ E.nums = f /\ E.cal = (IF c.reg = 3 THEN c.num ELSE regs.cal) /\ E \in QtFiles
      <3>1. CASE c.reg = 3
        <4>1. E = [bits |-> regs.bits, nums |-> f, cal |-> c.num]
          BY <2>2, <3>1 DEF QtAfter
        <4>2. E.bits = regs.bits /\ E.nums = f /\ E.cal = c.num
          BY <4>1
        <4>3. E \in QtFiles
          BY <1>1, <2>1, <2>3, <4>1 DEF QtFiles
        <4> QED BY <3>1, <4>2, <4>3
      <3>2. CASE c.reg # 3
        <4>1. E = [bits |-> regs.bits, nums |-> f, cal |-> regs.cal]
          BY <2>2, <3>2 DEF QtAfter
        <4>2. E.bits = regs.bits /\ E.nums = f /\ E.cal = regs.cal
          BY <4>1
        <4>3. E \in QtFiles
          BY <1>1, <2>1, <2>3, <4>1 DEF QtFiles
        <4> QED BY <3>2, <4>2, <4>3
      <3> QED BY <3>1, <3>2
    <2> HIDE DEF E
    <2>5. ASSUME NEW r \in QtRegisters PROVE Content(E, r) = Effect(c, r, Content(regs, r))
      <3>1. CASE r \in QtNums
        BY <1>2, <2>1, <2>3, <2>4, <3>1 DEF Content, Effect
      <3>2. CASE r \notin QtNums
        <4>1. r # c.reg /\ r \in BitRegisters
          BY <2>1, <3>2 DEF QtRegisters
        <4> QED BY <2>4, <4>1 DEF Content, Effect
      <3> QED BY <3>1, <3>2
    <2> QED BY <2>1, <2>4, <2>5
  <1>4. ASSUME c \in [op : {"bs", "bc"}, reg : BitRegisters, bits : SUBSET Nat] PROVE Right
    <2> DEFINE b == IF c.op = "bs" THEN regs.bits[c.reg] \cup c.bits ELSE regs.bits[c.reg] \ c.bits
               f == [regs.bits EXCEPT ![c.reg] = b]
    <2>1. c.op \in {"bs", "bc"} /\ c.reg \in BitRegisters /\ c.bits \in SUBSET Nat
          /\ c.reg # 100 /\ c.reg # 3 /\ c.reg \notin QtNums
      BY <1>2, <1>4 DEF BitRegisters
    <2>2. b \in SUBSET Nat
      BY <1>1, <2>1
    <2>3. E = [bits |-> f, nums |-> regs.nums, cal |-> regs.cal]
      <3>0. E = Executed(regs, c)
        BY <2>1 DEF QtAfter
      <3>1. CASE c.op = "bs"
        <4>1. Executed(regs, c) = [regs EXCEPT !.bits[c.reg] = @ \cup c.bits]
          BY <3>1 DEF Executed
        <4> QED BY <1>1, <2>1, <3>0, <3>1, <4>1
      <3>2. CASE c.op = "bc"
        <4>1. Executed(regs, c) = [regs EXCEPT !.bits[c.reg] = @ \ c.bits]
          BY <3>2 DEF Executed
        <4> QED BY <1>1, <2>1, <3>0, <3>2, <4>1
      <3> QED BY <2>1, <3>1, <3>2
    <2>4. /\ f \in [BitRegisters -> SUBSET Nat]
          /\ \A r \in BitRegisters : f[r] = IF r = c.reg THEN b ELSE regs.bits[r]
      <3> HIDE DEF b
      <3> QED BY <1>1, <2>1, <2>2
    <2> HIDE DEF f, E
    <2>5. E \in QtFiles /\ E.bits = f /\ E.nums = regs.nums /\ E.cal = regs.cal
      BY <1>1, <2>3, <2>4 DEF QtFiles
    <2>6. ASSUME NEW r \in QtRegisters PROVE Content(E, r) = Effect(c, r, Content(regs, r))
      <3>1. CASE r = c.reg
        <4>1. Content(E, r) = b /\ Content(regs, r) = regs.bits[c.reg]
          BY <2>1, <2>4, <2>5, <3>1 DEF Content
        <4>2. Effect(c, r, regs.bits[c.reg]) = b
          BY <2>1, <3>1 DEF Effect
        <4> QED BY <4>1, <4>2
      <3>2. CASE r # c.reg
        <4>1. r \in BitRegisters => f[r] = regs.bits[r]
          BY <2>4, <3>2
        <4> QED BY <2>5, <3>2, <4>1 DEF Content, Effect
      <3> QED BY <3>1, <3>2
    <2> QED BY <2>1, <2>5, <2>6
  <1>5. Right
    <2>1. c \in [op : {"wr"}, reg : QtNums, num : Int]
          \/ c \in [op : {"bs", "bc"}, reg : BitRegisters, bits : SUBSET Nat]
      BY DEF QtOrders, OrdersTo
    <2> HIDE DEF E
    <2> QED BY <1>3, <1>4, <2>1
  <1>6. \A r : r # c.reg => Effect(c, r, Content(regs, r)) = Content(regs, r)
    BY DEF Effect
  <1> QED BY <1>5, <1>6

-----------------------------------------------------------------------------
\* What the Qt layer tells joins the replies.
LEMMA ToldJoins ==
  ASSUME QtTypes, RepliesPart, NEW numbers \in {0..107, 100..107}, Tell(replied + 1, numbers),
         UNCHANGED <<replyLine, cmd, unmade, scenario>>
  PROVE  RepliesPart'
  <1> DEFINE v == [regs |-> regs, numbers |-> numbers]
             n == replied + 1
             a == [part |-> "tr", of |-> n, val |-> v]
             b == [part |-> "length", of |-> n, val |-> v]
             c == [part |-> "payload", of |-> n, val |-> v]
  <1>1. n \in Nat /\ regs \in QtFiles
    BY DEF QtTypes
  <1>2. v \in Tellings
    BY <1>1 DEF Tellings
  <1>3. replies' = replies \o <<a, b, c>>
    <2>1. replies' = replies \o PartsOf(<<"tr", "length", "payload">>, n, v)
      BY DEF Tell
    <2>2. PartsOf(<<"tr", "length", "payload">>, n, v) = <<a, b, c>>
      BY SMT DEF PartsOf
    <2> HIDE DEF a, b, c
    <2> QED BY <2>1, <2>2, Zenon
  <1> HIDE DEF v, n
  <1>4. {a, b, c} \subseteq ReplyPieces
    BY <1>1, <1>2 DEF ReplyPieces
  <1>5. a \in ReplyFirst("name") /\ c \in ReplyLast /\ <<a, b>> \in ReplyNext /\ <<b, c>> \in ReplyNext
    BY <1>4 DEF ReplyFirst, ReplyLast, ReplyNext
  <1> HIDE DEF a, b, c
  <1>6. /\ <<a, b, c>> \in Seq(ReplyPieces) /\ <<a, b, c>> # <<>>
        /\ Strung(<<a, b, c>>, ReplyFirst("name"), ReplyNext, ReplyLast)
    BY <1>4, <1>5, ChainThree
  <1> QED BY <1>3, <1>6, ReplyJoins

\* And so does a line.
LEMMA LineJoins ==
  ASSUME QtTypes, RepliesPart, replies' = replies \o PartsOf(<<"wr", "end">>, replied + 1, {}),
         UNCHANGED <<replyLine, cmd, unmade, scenario>>
  PROVE  RepliesPart'
  <1> DEFINE n == replied + 1
             a == [part |-> "wr", of |-> n, val |-> {}]
             b == [part |-> "end", of |-> n, val |-> {}]
  <1>1. n \in Nat
    BY DEF QtTypes
  <1>3. replies' = replies \o <<a, b>>
    <2>2. PartsOf(<<"wr", "end">>, n, {}) = <<a, b>>
      BY SMT DEF PartsOf
    <2> HIDE DEF a, b
    <2> QED BY <2>2, Zenon
  <1> HIDE DEF n
  <1>4. {a, b} \subseteq ReplyPieces
    BY <1>1 DEF ReplyPieces
  <1>5. a \in ReplyFirst("name") /\ b \in ReplyLast /\ <<a, b>> \in ReplyNext
    BY <1>4 DEF ReplyFirst, ReplyLast, ReplyNext
  <1> HIDE DEF a, b
  <1>6. /\ <<a, b>> \in Seq(ReplyPieces) /\ <<a, b>> # <<>>
        /\ Strung(<<a, b>>, ReplyFirst("name"), ReplyNext, ReplyLast)
    BY <1>4, <1>5, ChainTwo
  <1> QED BY <1>3, <1>6, ReplyJoins

\* The Qt layer executes a command and replies.
LEMMA RepliesIs ==
  ASSUME QtTypes, RepliesPart, faults = 0, UNCHANGED faults, Replies
  PROVE  LET c == Head(toQt) IN
         /\ toQt # <<>> /\ c \in QtOrders /\ toQt' = Tail(toQt) /\ toQt' \in Seq(QtOrders)
         /\ regs' = (IF c.op = "tr" THEN regs ELSE QtAfter(c)) /\ regs' \in QtFiles
         /\ replied' \in Nat /\ RepliesPart'
  <1> DEFINE c == Head(toQt)
  <1>1. toQt # <<>> /\ toQt' = Tail(toQt) /\ replied' = replied + 1
        /\ UNCHANGED <<scenario, replyLine, cmd, unmade>>
    BY DEF Replies, qtHistory
  <1>2. c \in QtOrders /\ toQt' \in Seq(QtOrders) /\ replied' \in Nat /\ regs \in QtFiles
    BY <1>1, HeadTailProperties, EmptySeq DEF QtTypes
  <1>3. CASE c.op = "tr"
    <2>1. Tell(replied + 1, 100..107) /\ UNCHANGED regs
      BY <1>3 DEF Replies
    <2>2. RepliesPart'
      BY <1>1, <2>1, ToldJoins
    <2> QED BY <1>1, <1>2, <1>3, <2>1, <2>2
  <1>4. CASE c.op # "tr"
    <2>1. regs' = QtAfter(c)
      BY <1>4 DEF Replies, QtAfter
    <2>2. replies' = replies \o PartsOf(<<"wr", "end">>, replied + 1, {})
      <3>1. ~Fault
        BY DEF Fault
      <3> QED BY <1>4, <3>1 DEF Replies
    <2>3. RepliesPart'
      BY <1>1, <2>2, LineJoins
    <2>4. QtAfter(c) \in QtFiles
      BY <1>2, <1>4, QtAfterIs DEF QtTypes
    <2> QED BY <1>1, <1>2, <1>4, <2>1, <2>3, <2>4
  <1> QED BY <1>3, <1>4

-----------------------------------------------------------------------------
(***************************************************************************)
(* What the driver knows, and what is under way.                           *)
(***************************************************************************)
QtLeads(r, y) == Leads(r, Content(regs, r), toQt, y)

Spared(r) == \A i \in 1..Len(toQt) : toQt[i].op = "tr" \/ toQt[i].reg # r

\* What is under way leads the register of p to its value, or leaves it as it was told.
ParamIs(p) ==
  \/ \E y : QtLeads(RegisterOf(p), y) /\ HoldsIn(y, p, other[p])
  \/ p \in PidNames /\ other[p] = Told(regs, p) /\ Spared(RegisterOf(p))

QtKnown ==
  /\ \A r \in QtRegisters : \E y : QtLeads(r, y)
  /\ numAverage = averaging * rate
  /\ "Range" \in known => QtLeads(3, range) /\ currRange = range
  /\ "SampleFreq" \in known => QtLeads(1, sampleFreq)
  /\ "Rate" \in known => QtLeads(1, rate)
  /\ "Calibration" \in known => cal = regs.cal /\ Spared(3)
  /\ \A p \in QtOthers \cap known : ParamIs(p)

LEMMA QtRegistersAre ==
  ASSUME scenario \in Scenarios
  PROVE  /\ \A p \in QtOthers : /\ p \in Stored /\ RegisterOf(p) \in QtRegisters
                                 /\ RegisterOf(p) \in Nat /\ RegisterOf(p) < 100
                                 /\ RegisterOf(p) # 1 /\ RegisterOf(p) # 3
                                 /\ p \notin {"Range", "SampleFreq", "Rate", "Calibration"}
         /\ 1 \in QtRegisters /\ 3 \in QtRegisters
         /\ \A file : Content(file, 1) = file.nums[1] /\ Content(file, 3) = file.nums[3]
  <1>1. 1 \in QtRegisters /\ 3 \in QtRegisters
    BY DEF QtRegisters, QtNums
  <1>2. \A file : Content(file, 1) = file.nums[1] /\ Content(file, 3) = file.nums[3]
    BY DEF Content, BitRegisters
  <1>3. "Range" \in Stored /\ "SampleFreq" \in Stored /\ RegisterOf("Range") = 3
        /\ RegisterOf("SampleFreq") = 1
    <2>1. "Range" \in NumberNames /\ "SampleFreq" \in NumberNames
      BY DEF NumberNames
    <2> QED BY <2>1, RegistersAre, NumbersAre, NamesAre DEF Stored
  <1>4. "Rate" \notin Stored /\ "Calibration" \notin Stored
    BY NamesAre DEF Stored, SwitchNames, FieldNames, NumberNames, PidNames
  <1>5. ASSUME NEW p \in QtOthers
        PROVE  /\ p \in Stored /\ RegisterOf(p) \in QtRegisters
               /\ RegisterOf(p) \in Nat /\ RegisterOf(p) < 100
               /\ RegisterOf(p) # 1 /\ RegisterOf(p) # 3
               /\ p \notin {"Range", "SampleFreq", "Rate", "Calibration"}
    <2>1. p \in Stored /\ p \notin {"Range", "SampleFreq"}
      BY QtOthersAre
    <2>2. RegisterOf(p) # 1 /\ RegisterOf(p) # 3
      <3>1. "Range" \notin BitParameters /\ "SampleFreq" \notin BitParameters
        BY <1>3, RegistersDiffer DEF BitRegisters
      <3> QED BY <1>3, <2>1, <3>1, RegistersDiffer
    <2>3. RegisterOf(p) \in QtRegisters
      <3>1. CASE p \in BitParameters
        BY <2>1, <3>1, RegistersDiffer DEF QtRegisters
      <3>2. CASE p \notin BitParameters
        BY <3>2, QtOthersAre DEF QtRegisters
      <3> QED BY <3>1, <3>2
    <2> QED BY <1>4, <2>1, <2>2, <2>3, RegistersDiffer
  <1> QED BY <1>1, <1>2, <1>5

\* More commands, to one register, lead on.
LEMMA QtGrows ==
  ASSUME toQt \in Seq(QtOrders), NEW cs \in Seq(QtOrders), toQt' = toQt \o cs, UNCHANGED regs, NEW s,
         \A i \in 1..Len(cs) : cs[i].op = "tr" \/ cs[i].reg = s
  PROVE  /\ toQt' \in Seq(QtOrders)
         /\ \A r, y, z : QtLeads(r, y) /\ Leads(r, y, cs, z) => QtLeads(r, z)'
         /\ \A r, y : r # s /\ QtLeads(r, y) => QtLeads(r, y)'
         /\ \A r : r # s /\ Spared(r) => Spared(r)'
  <1>1. \A r, y, z : QtLeads(r, y) /\ Leads(r, y, cs, z) => QtLeads(r, z)'
    BY LeadsOn DEF QtLeads
  <1>2. \A r, y : r # s => Leads(r, y, cs, y)
    BY LeadsPast
  <1>3. /\ toQt' \in Seq(QtOrders) /\ Len(toQt') = Len(toQt) + Len(cs)
        /\ Len(toQt) \in Nat /\ Len(cs) \in Nat
        /\ \A i \in 1..Len(toQt) + Len(cs) :
             toQt'[i] = IF i <= Len(toQt) THEN toQt[i] ELSE cs[i - Len(toQt)]
    BY ConcatProperties, LenProperties
  <1>4. ASSUME NEW r, r # s, Spared(r), NEW i \in 1..Len(toQt') PROVE toQt'[i].op = "tr" \/ toQt'[i].reg # r
    <2>1. CASE i <= Len(toQt)
      <3>1. i \in 1..Len(toQt) /\ toQt'[i] = toQt[i]
        BY <1>3, <2>1
      <3> QED BY <1>4, <3>1 DEF Spared
    <2>2. CASE ~(i <= Len(toQt))
      <3>1. i - Len(toQt) \in 1..Len(cs) /\ toQt'[i] = cs[i - Len(toQt)]
        BY <1>3, <2>2
      <3> QED BY <1>4, <3>1
    <2> QED BY <2>1, <2>2
  <1>5. \A r : r # s /\ Spared(r) => Spared(r)'
    BY <1>4 DEF Spared
  <1> QED BY <1>1, <1>2, <1>3, <1>5

LEMMA ParamStays ==
  ASSUME NEW p, UNCHANGED regs, other'[p] = other[p], ParamIs(p),
         \A y : QtLeads(RegisterOf(p), y) => QtLeads(RegisterOf(p), y)',
         Spared(RegisterOf(p)) => Spared(RegisterOf(p))'
  PROVE  ParamIs(p)'
  <1>1. Told(regs, p)' = Told(regs, p) /\ RegisterOf(p)' = RegisterOf(p)
    BY DEF Told
  <1>2. ASSUME NEW y, QtLeads(RegisterOf(p), y), HoldsIn(y, p, other[p]) PROVE ParamIs(p)'
    BY <1>2 DEF ParamIs
  <1>3. ASSUME p \in PidNames, other[p] = Told(regs, p), Spared(RegisterOf(p)) PROVE ParamIs(p)'
    BY <1>1, <1>3 DEF ParamIs
  <1> QED BY <1>2, <1>3 DEF ParamIs

\* A parameter is written.
LEMMA SetsKnown ==
  ASSUME QtTypes, QtKnown, UNCHANGED <<scenario, regs>>,
         NEW p, NEW v, NEW cs, QtSets(p, v, cs)
  PROVE  toQt' \in Seq(QtOrders) /\ DOMAIN other' = QtOthers' /\ QtKnown'
  <1> DEFINE s == RegisterOf(p)
  <1>1. /\ cs \in Seq(QtOrders) /\ toQt \in Seq(QtOrders) /\ toQt' = toQt \o cs
        /\ \A i \in 1..Len(cs) : cs[i].op = "tr" \/ cs[i].reg = s
        /\ scenario \in Scenarios /\ DOMAIN other = QtOthers
    BY QtCommandsAre DEF QtTypes, QtSets
  <1>2. /\ p \in Stored /\ p \in QtOthers /\ v \in Int /\ cs \in Commands(p, v)
        /\ s # 1 /\ s # 3
        /\ p \notin {"Range", "SampleFreq", "Rate", "Calibration"}
    BY <1>1, QtRegistersAre DEF QtSets
  <1>3. QtOthers' = QtOthers /\ QtRegisters' = QtRegisters
    BY DEF QtOthers, QtRegisters, QtNums
  <1> HIDE DEF s
  <1>4. /\ toQt' \in Seq(QtOrders)
        /\ \A r, y, z : QtLeads(r, y) /\ Leads(r, y, cs, z) => QtLeads(r, z)'
        /\ \A r, y : r # s /\ QtLeads(r, y) => QtLeads(r, y)'
        /\ \A r : r # s /\ Spared(r) => Spared(r)'
    BY <1>1, QtGrows
  <1>5. \A y : QtLeads(s, y) => \E z : /\ QtLeads(s, z)' /\ HoldsIn(z, p, v)
                                       /\ \A q \in Stored : \A w : q # p /\ RegisterOf(q) = s /\ HoldsIn(y, q, w)
                                                                     => HoldsIn(z, q, w)
    <2> SUFFICES ASSUME NEW y, QtLeads(s, y)
                 PROVE  \E z : /\ QtLeads(s, z)' /\ HoldsIn(z, p, v)
                               /\ \A q \in Stored : \A w : q # p /\ RegisterOf(q) = s /\ HoldsIn(y, q, w)
                                                             => HoldsIn(z, q, w)
      OBVIOUS
    <2>1. PICK z : /\ Leads(s, y, cs, z) /\ HoldsIn(z, p, v)
                   /\ \A q \in Stored : \A w : q # p /\ RegisterOf(q) = s /\ HoldsIn(y, q, w) => HoldsIn(z, q, w)
      BY <1>2, CommandsDo DEF s
    <2>2. QtLeads(s, z)'
      BY <1>4, <2>1
    <2> QED BY <2>1, <2>2
  <1>6. \A r \in QtRegisters' : \E y : QtLeads(r, y)'
    BY <1>3, <1>4, <1>5 DEF QtKnown
  <1>7. /\ known' = known \cup {p} /\ other' = [other EXCEPT ![p] = v]
        /\ UNCHANGED <<range, currRange, sampleFreq, rate, averaging, numAverage, cal>>
    BY DEF QtSets
  <1>8. /\ numAverage' = averaging' * rate'
        /\ "Range" \in known' => QtLeads(3, range)' /\ currRange' = range'
        /\ "SampleFreq" \in known' => QtLeads(1, sampleFreq)'
        /\ "Rate" \in known' => QtLeads(1, rate)'
        /\ "Calibration" \in known' => cal' = regs'.cal /\ Spared(3)'
    BY <1>2, <1>4, <1>7 DEF QtKnown
  <1>9. ASSUME NEW q \in QtOthers' \cap known' PROVE ParamIs(q)'
    <2>1. q \in Stored /\ q \in QtOthers
      BY <1>1, <1>3, QtRegistersAre
    <2>2. CASE q = p
      <3>1. other'[q] = v
        BY <1>1, <1>2, <1>7, <2>2
      <3>2. PICK y : QtLeads(s, y)
        BY <1>1, <1>2, QtRegistersAre DEF QtKnown, s
      <3>3. PICK z : QtLeads(s, z)' /\ HoldsIn(z, p, v)
        BY <1>5, <3>2
      <3> QED BY <2>2, <3>1, <3>3 DEF ParamIs, s
    <2>3. CASE q # p /\ RegisterOf(q) # s
      <3>1. q \in known /\ other'[q] = other[q] /\ ParamIs(q)
        BY <1>1, <1>7, <2>1, <2>3 DEF QtKnown
      <3> QED BY <1>4, <2>3, <3>1, ParamStays
    <2>4. CASE q # p /\ RegisterOf(q) = s
      <3>1. q \in known /\ other'[q] = other[q] /\ ParamIs(q)
        BY <1>1, <1>7, <2>1, <2>4 DEF QtKnown
      <3>2. q \in BitParameters
        BY <1>2, <2>1, <2>4, RegistersDiffer DEF s
      <3>3. q \notin PidNames
        BY <3>2, NamesAre, NamesDiffer
      <3>4. PICK y : QtLeads(s, y) /\ HoldsIn(y, q, other[q])
        BY <2>4, <3>1, <3>3 DEF ParamIs
      <3>5. PICK z : QtLeads(s, z)' /\ HoldsIn(z, q, other[q])
        BY <1>5, <2>1, <2>4, <3>4
      <3> QED BY <2>4, <3>1, <3>5 DEF ParamIs
    <2> QED BY <2>2, <2>3, <2>4
  <1>10. DOMAIN other' = QtOthers'
    BY <1>1, <1>3, <1>7
  <1> QED BY <1>4, <1>6, <1>8, <1>9, <1>10 DEF QtKnown

\* A command to the register of the range, to that of the rate, or none.
LEMMA CommandKnown ==
  ASSUME QtTypes, QtKnown, UNCHANGED <<scenario, regs, other>>,
         NEW c \in QtOrders, toQt' = toQt \o <<c>>, c.op = "tr" \/ c.reg \in {1, 3},
         known' \cap QtOthers \subseteq known
  PROVE  /\ toQt' \in Seq(QtOrders) /\ DOMAIN other' = QtOthers'
         /\ \A r \in QtRegisters' : \E y : QtLeads(r, y)'
         /\ \A p \in QtOthers' \cap known' : ParamIs(p)'
         /\ \A r, y : (c.op = "tr" \/ r # c.reg) /\ QtLeads(r, y) => QtLeads(r, y)'
         /\ \A r : (c.op = "tr" \/ r # c.reg) /\ Spared(r) => Spared(r)'
         /\ \A r, y : QtLeads(r, y) => QtLeads(r, Effect(c, r, y))'
  <1> DEFINE s == IF c.op = "tr" THEN -1 ELSE c.reg
             cs == <<c>>
  <1>0. cs \in Seq(QtOrders) /\ Len(cs) = 1 /\ cs[1] = c
    OBVIOUS
  <1>1. /\ toQt \in Seq(QtOrders) /\ scenario \in Scenarios /\ DOMAIN other = QtOthers
        /\ toQt' = toQt \o cs
    BY DEF QtTypes
  <1>2. \A r, y : Leads(r, y, cs, Effect(c, r, y))
    BY LeadsOne
  <1> HIDE DEF cs
  <1>3. \A i \in 1..Len(cs) : cs[i].op = "tr" \/ cs[i].reg = s
    BY <1>0
  <1>4. /\ toQt' \in Seq(QtOrders)
        /\ \A r, y, z : QtLeads(r, y) /\ Leads(r, y, cs, z) => QtLeads(r, z)'
        /\ \A r, y : r # s /\ QtLeads(r, y) => QtLeads(r, y)'
        /\ \A r : r # s /\ Spared(r) => Spared(r)'
    <2> HIDE DEF s
    <2> QED BY <1>0, <1>1, <1>3, QtGrows
  <1>5. \A r, y : QtLeads(r, y) => QtLeads(r, Effect(c, r, y))'
    BY <1>2, <1>4
  <1>6. /\ \A r, y : (c.op = "tr" \/ r # c.reg) /\ QtLeads(r, y) => QtLeads(r, y)'
        /\ \A r : (c.op = "tr" \/ r # c.reg) /\ Spared(r) => Spared(r)'
    <2>1. CASE c.op = "tr"
      <3>1. \A r, y : QtLeads(r, y) => QtLeads(r, y)'
        BY <1>5, <2>1 DEF Effect
      <3>2. ASSUME NEW r, Spared(r) PROVE Spared(r)'
        <4>1. CASE r = s
          <5>1. /\ Len(toQt') = Len(toQt) + 1 /\ Len(toQt) \in Nat
                /\ \A i \in 1..Len(toQt) + 1 : toQt'[i] = IF i <= Len(toQt) THEN toQt[i] ELSE cs[i - Len(toQt)]
            BY <1>0, <1>1, ConcatProperties, LenProperties
          <5>2. ASSUME NEW i \in 1..Len(toQt') PROVE toQt'[i].op = "tr" \/ toQt'[i].reg # r
            <6>1. CASE i <= Len(toQt)
              <7>1. i \in 1..Len(toQt) /\ toQt'[i] = toQt[i]
                BY <5>1, <6>1
              <7> QED BY <3>2, <7>1 DEF Spared
            <6>2. CASE ~(i <= Len(toQt))
              <7>1. i - Len(toQt) = 1 /\ toQt'[i] = cs[1]
                BY <5>1, <6>2
              <7> QED BY <1>0, <2>1, <7>1
            <6> QED BY <6>1, <6>2
          <5> QED BY <5>2 DEF Spared
        <4>2. CASE r # s
          BY <1>4, <3>2, <4>2
        <4> QED BY <4>1, <4>2
      <3> QED BY <2>1, <3>1, <3>2
    <2>2. CASE c.op # "tr"
      BY <1>4, <2>2
    <2> QED BY <2>1, <2>2
  <1>7. QtOthers' = QtOthers /\ QtRegisters' = QtRegisters
    BY DEF QtOthers, QtRegisters, QtNums
  <1>8. \A r \in QtRegisters' : \E y : QtLeads(r, y)'
    BY <1>5, <1>7 DEF QtKnown
  <1>9. ASSUME NEW p \in QtOthers' \cap known' PROVE ParamIs(p)'
    <2>1. p \in QtOthers /\ p \in known /\ ParamIs(p)
      BY <1>7 DEF QtKnown
    <2>2. RegisterOf(p) # 1 /\ RegisterOf(p) # 3
      BY <1>1, <2>1, QtRegistersAre
    <2>3. c.op = "tr" \/ RegisterOf(p) # c.reg
      BY <2>2
    <2>4. other'[p] = other[p]
      OBVIOUS
    <2> QED BY <1>6, <2>1, <2>3, <2>4, ParamStays
  <1> QED BY <1>1, <1>4, <1>5, <1>6, <1>7, <1>8, <1>9

LEMMA QtPortKnown ==
  ASSUME QtTypes, RepliesPart, QtKnown, faults = 0, UNCHANGED faults, QtPort
  PROVE  QtTypes' /\ QtKnown'
  <1>1. /\ UNCHANGED <<scenario, regs, replied>>
        /\ \/ \E p, v, cs : QtSets(p, v, cs)
           \/ \E v : QtSetsRange(v)
           \/ \E v : QtSetsRate(v)
           \/ \E t : QtSetsTime(t)
           \/ QtUpdates
    BY QtPortIs DEF QtTypes
  <1>2. scenario \in Scenarios
    BY DEF QtTypes
  <1>3. QtOrders' = QtOrders /\ QtFiles' = QtFiles /\ QtOthers' = QtOthers
    BY <1>1 DEF QtOrders, QtFiles, QtNums, QtOthers
  <1>4. toQt' \in Seq(QtOrders) /\ DOMAIN other' = QtOthers' => QtTypes'
    BY <1>1, <1>3 DEF QtTypes
  <1>5. \A p \in QtOthers : p \notin {"Range", "SampleFreq", "Rate", "Calibration"}
    BY <1>2, QtRegistersAre
  <1>6. ASSUME NEW p, NEW v, NEW cs, QtSets(p, v, cs) PROVE QtTypes' /\ QtKnown'
    BY <1>1, <1>4, <1>6, SetsKnown
  <1>7. ASSUME NEW v, QtSetsRange(v) PROVE QtTypes' /\ QtKnown'
    <2> DEFINE n == Clip(v)
               c == Wr(3, n)
    <2>1. /\ toQt' = toQt \o <<c>> /\ known' = (known \cup {"Range"}) \ {"Calibration"}
          /\ range' = n /\ currRange' = n /\ v \in Int
          /\ UNCHANGED <<sampleFreq, rate, averaging, numAverage, other, cal>>
      BY <1>7 DEF QtSetsRange
    <2>2. c \in QtOrders /\ c.op = "wr" /\ c.reg = 3 /\ c.num = n
      <3>1. n \in Int
        BY <1>2, <2>1, QtCommandsAre
      <3> HIDE DEF n
      <3> QED BY <1>2, <3>1, QtCommandsAre DEF Wr
    <2> HIDE DEF c, n
    <2>3. known' \cap QtOthers \subseteq known
      BY <1>5, <2>1
    <2>4. /\ toQt' \in Seq(QtOrders) /\ DOMAIN other' = QtOthers'
          /\ \A r \in QtRegisters' : \E y : QtLeads(r, y)'
          /\ \A p \in QtOthers' \cap known' : ParamIs(p)'
          /\ \A r, y : r # 3 /\ QtLeads(r, y) => QtLeads(r, y)'
          /\ \A r, y : QtLeads(r, y) => QtLeads(r, Effect(c, r, y))'
      BY <1>1, <2>1, <2>2, <2>3, CommandKnown
    <2>5. QtLeads(3, n)'
      <3>1. PICK y : QtLeads(3, y)
        BY <1>2, QtRegistersAre DEF QtKnown
      <3>2. Effect(c, 3, y) = n
        BY <2>2 DEF Effect
      <3> QED BY <2>4, <3>1, <3>2
    <2>6. /\ numAverage' = averaging' * rate'
          /\ "Range" \in known' => QtLeads(3, range)' /\ currRange' = range'
          /\ "SampleFreq" \in known' => QtLeads(1, sampleFreq)'
          /\ "Rate" \in known' => QtLeads(1, rate)'
          /\ "Calibration" \notin known'
      BY <2>1, <2>4, <2>5 DEF QtKnown
    <2> QED BY <1>4, <2>4, <2>6 DEF QtKnown
  <1>8. ASSUME NEW v, QtSetsRate(v) PROVE QtTypes' /\ QtKnown'
    <2> DEFINE c == Wr(1, v)
    <2>1. /\ toQt' = toQt \o <<c>> /\ known' = (known \cup {"SampleFreq"}) \ {"Rate"}
          /\ sampleFreq' = v /\ v \in Int
          /\ UNCHANGED <<range, currRange, rate, averaging, numAverage, other, cal>>
      BY <1>8 DEF QtSetsRate
    <2>2. c \in QtOrders /\ c.op = "wr" /\ c.reg = 1 /\ c.num = v
      BY <1>2, <2>1, QtCommandsAre DEF Wr
    <2> HIDE DEF c
    <2>3. known' \cap QtOthers \subseteq known
      BY <1>5, <2>1
    <2>4. /\ toQt' \in Seq(QtOrders) /\ DOMAIN other' = QtOthers'
          /\ \A r \in QtRegisters' : \E y : QtLeads(r, y)'
          /\ \A p \in QtOthers' \cap known' : ParamIs(p)'
          /\ \A r, y : r # 1 /\ QtLeads(r, y) => QtLeads(r, y)'
          /\ \A r : r # 1 /\ Spared(r) => Spared(r)'
          /\ \A r, y : QtLeads(r, y) => QtLeads(r, Effect(c, r, y))'
      BY <1>1, <2>1, <2>2, <2>3, CommandKnown
    <2>5. QtLeads(1, v)'
      <3>1. PICK y : QtLeads(1, y)
        BY <1>2, QtRegistersAre DEF QtKnown
      <3>2. Effect(c, 1, y) = v
        BY <2>2 DEF Effect
      <3> QED BY <2>4, <3>1, <3>2
    <2>6. /\ numAverage' = averaging' * rate'
          /\ "Range" \in known' => QtLeads(3, range)' /\ currRange' = range'
          /\ "SampleFreq" \in known' => QtLeads(1, sampleFreq)'
          /\ "Rate" \notin known'
          /\ "Calibration" \in known' => cal' = regs'.cal /\ Spared(3)'
      BY <1>1, <2>1, <2>4, <2>5 DEF QtKnown
    <2> QED BY <1>4, <2>4, <2>6 DEF QtKnown
  <1>9. ASSUME NEW t, QtSetsTime(t) PROVE QtTypes' /\ QtKnown'
    <2>1. /\ known' = known \cup {"AveragingTime"} /\ numAverage' = averaging' * rate'
          /\ UNCHANGED <<toQt, range, currRange, sampleFreq, rate, other, cal>>
      BY <1>9 DEF QtSetsTime
    <2>2. "AveragingTime" \notin QtOthers
      BY <1>2, QtOthersAre
    <2>3. QtRegisters' = QtRegisters
      BY <1>1 DEF QtRegisters, QtNums, QtOthers
    <2>4. /\ \A r, y : QtLeads(r, y)' <=> QtLeads(r, y)
          /\ \A r : Spared(r)' <=> Spared(r)
      BY <1>1, <2>1 DEF QtLeads, Spared
    <2>5. \A p \in QtOthers' \cap known' : ParamIs(p)'
      <3>1. ASSUME NEW p \in QtOthers' \cap known' PROVE ParamIs(p)'
        <4>1. ParamIs(p) /\ other'[p] = other[p] /\ UNCHANGED regs
          BY <1>1, <1>3, <2>1, <2>2 DEF QtKnown
        <4> QED BY <2>4, <4>1, ParamStays
      <3> QED BY <3>1
    <2>6. /\ "Range" \in known' => QtLeads(3, range)' /\ currRange' = range'
          /\ "SampleFreq" \in known' => QtLeads(1, sampleFreq)'
          /\ "Rate" \in known' => QtLeads(1, rate)'
          /\ "Calibration" \in known' => cal' = regs'.cal /\ Spared(3)'
      BY <1>1, <2>1, <2>4 DEF QtKnown, QtLeads
    <2>7. \A r \in QtRegisters' : \E y : QtLeads(r, y)'
      BY <2>3, <2>4 DEF QtKnown
    <2>8. toQt' \in Seq(QtOrders) /\ DOMAIN other' = QtOthers'
      BY <1>3, <2>1 DEF QtTypes
    <2> QED BY <1>4, <2>1, <2>5, <2>6, <2>7, <2>8 DEF QtKnown
  <1>10. ASSUME QtUpdates PROVE QtTypes' /\ QtKnown'
    <2> DEFINE c == Tr(100)
    <2>1. /\ toQt' = toQt \o <<c>>
          /\ UNCHANGED <<known, range, currRange, sampleFreq, rate, averaging, numAverage, other, cal>>
      BY <1>10 DEF QtUpdates
    <2>2. c \in QtOrders /\ c.op = "tr"
      BY <1>2, QtCommandsAre DEF Tr
    <2> HIDE DEF c
    <2>3. known' \cap QtOthers \subseteq known
      BY <2>1
    <2>4. /\ toQt' \in Seq(QtOrders) /\ DOMAIN other' = QtOthers'
          /\ \A r \in QtRegisters' : \E y : QtLeads(r, y)'
          /\ \A p \in QtOthers' \cap known' : ParamIs(p)'
          /\ \A r, y : QtLeads(r, y) => QtLeads(r, y)'
          /\ \A r : Spared(r) => Spared(r)'
      BY <1>1, <2>1, <2>2, <2>3, CommandKnown
    <2>6. /\ numAverage' = averaging' * rate'
          /\ "Range" \in known' => QtLeads(3, range)' /\ currRange' = range'
          /\ "SampleFreq" \in known' => QtLeads(1, sampleFreq)'
          /\ "Rate" \in known' => QtLeads(1, rate)'
          /\ "Calibration" \in known' => cal' = regs'.cal /\ Spared(3)'
      BY <1>1, <2>1, <2>4 DEF QtKnown
    <2> QED BY <1>4, <2>4, <2>6 DEF QtKnown
  <1> QED BY <1>1, <1>6, <1>7, <1>8, <1>9, <1>10

\* A parameter of the PID is told from its register.
LEMMA PidToldFrom ==
  ASSUME NEW p \in PidNames, NEW f, NEW g, f.nums[RegisterOf(p)] = g.nums[RegisterOf(p)]
  PROVE  Told(f, p) = Told(g, p)
  <1>1. RegisterOf(p) = PidRegisters[p].reg
    BY RegistersAre
  <1>2. p \notin SwitchNames /\ p \notin FieldNames /\ p \notin NumbersTold
    BY NamesDiffer DEF NumbersTold, NumberNames
  <1> QED BY <1>1, <1>2, NamesAre DEF Told

\* The Qt layer executes a command: it does what it leads to.
LEMMA RepliesKnown ==
  ASSUME QtTypes, RepliesPart, QtKnown, faults = 0, UNCHANGED faults, Replies
  PROVE  QtTypes' /\ RepliesPart' /\ QtKnown'
  <1> DEFINE c == Head(toQt)
  <1>1. /\ toQt # <<>> /\ c \in QtOrders /\ toQt' = Tail(toQt) /\ toQt' \in Seq(QtOrders)
        /\ regs' = (IF c.op = "tr" THEN regs ELSE QtAfter(c)) /\ regs' \in QtFiles
        /\ replied' \in Nat /\ RepliesPart'
    BY RepliesIs
  <1>2. UNCHANGED <<scenario, range, currRange, sampleFreq, rate, averaging, numAverage, other, cal, known>>
    BY DEF Replies, qtParams, qtHistory
  <1>3. /\ scenario \in Scenarios /\ toQt \in Seq(QtOrders) /\ regs \in QtFiles
        /\ DOMAIN other = QtOthers
    BY DEF QtTypes
  <1>4. /\ QtOrders' = QtOrders /\ QtFiles' = QtFiles /\ QtOthers' = QtOthers
        /\ QtRegisters' = QtRegisters
    BY <1>2 DEF QtOrders, QtFiles, QtRegisters, QtNums, QtOthers
  <1>5. QtTypes'
    BY <1>1, <1>2, <1>3, <1>4 DEF QtTypes
  <1>6. /\ Len(toQt) \in Nat /\ Len(toQt) >= 1 /\ Len(toQt') = Len(toQt) - 1 /\ c = toQt[1]
        /\ \A i \in 1..Len(toQt') : toQt'[i] = toQt[i + 1]
    BY <1>1, <1>3, HeadTailProperties, LenProperties, EmptySeq
  <1> HIDE DEF c
  <1>7. /\ \A r \in QtRegisters : Content(regs, r)' = Effect(c, r, Content(regs, r))
        /\ \A r \in QtRegisters : c.op = "tr" \/ r # c.reg => Content(regs, r)' = Content(regs, r)
        /\ c.op = "tr" \/ c.reg # 3 => regs'.cal = regs.cal
    <2>1. CASE c.op = "tr"
      BY <1>1, <2>1 DEF Effect
    <2>2. CASE c.op # "tr"
      BY <1>1, <1>3, <2>2, QtAfterIs
    <2> QED BY <2>1, <2>2
  <1>8. \A r \in QtRegisters : \A y : QtLeads(r, y) => QtLeads(r, y)'
    <2>1. \A r, y : QtLeads(r, y) => Leads(r, Effect(c, r, Content(regs, r)), toQt', y)
      BY <1>1, <1>3, LeadsFrom DEF QtLeads, c
    <2> QED BY <1>7, <2>1 DEF QtLeads
  <1>9. ASSUME NEW r, Spared(r) PROVE Spared(r)' /\ (c.op = "tr" \/ r # c.reg)
    <2>1. ASSUME NEW i \in 1..Len(toQt') PROVE toQt'[i].op = "tr" \/ toQt'[i].reg # r
      <3> DEFINE j == i + 1
      <3>1. j \in 1..Len(toQt) /\ toQt'[i] = toQt[j]
        BY <1>6
      <3> HIDE DEF j
      <3> QED BY <1>9, <3>1 DEF Spared
    <2>2. 1 \in 1..Len(toQt)
      BY <1>6
    <2>3. c.op = "tr" \/ r # c.reg
      BY <1>6, <1>9, <2>2 DEF Spared
    <2> QED BY <2>1, <2>3 DEF Spared
  <1>10. ASSUME NEW p \in QtOthers' \cap known' PROVE ParamIs(p)'
    <2>1. p \in Stored /\ RegisterOf(p) \in QtRegisters /\ ParamIs(p) /\ RegisterOf(p) < 100
          /\ RegisterOf(p) \in Nat
      BY <1>2, <1>3, <1>4, QtRegistersAre DEF QtKnown
    <2>2. ASSUME NEW y, QtLeads(RegisterOf(p), y), HoldsIn(y, p, other[p]) PROVE ParamIs(p)'
      BY <1>2, <1>8, <2>1, <2>2 DEF ParamIs
    <2>3. ASSUME p \in PidNames, other[p] = Told(regs, p), Spared(RegisterOf(p)) PROVE ParamIs(p)'
      <3>1. Content(regs, RegisterOf(p))' = Content(regs, RegisterOf(p)) /\ Spared(RegisterOf(p))'
        BY <1>7, <1>9, <2>1, <2>3
      <3>2. p \notin BitParameters
        BY <2>3, NamesAre, NamesDiffer
      <3>3. RegisterOf(p) \notin BitRegisters /\ RegisterOf(p) # 100
        BY <2>1, <3>2, RegistersDiffer
      <3>4. regs'.nums[RegisterOf(p)] = regs.nums[RegisterOf(p)]
        BY <3>1, <3>3 DEF Content
      <3>5. Told(regs', p) = Told(regs, p)
        BY <2>3, <3>4, PidToldFrom
      <3>6. other'[p] = Told(regs', p)
        BY <1>2, <2>3, <3>5
      <3> QED BY <2>3, <3>1, <3>6 DEF ParamIs
    <2> QED BY <2>1, <2>2, <2>3 DEF ParamIs
  <1>11. 1 \in QtRegisters /\ 3 \in QtRegisters
    BY <1>3, QtRegistersAre
  <1>12. \A r \in QtRegisters' : \E y : QtLeads(r, y)'
    BY <1>4, <1>8 DEF QtKnown
  <1>13. /\ numAverage' = averaging' * rate'
         /\ "Range" \in known' => QtLeads(3, range)' /\ currRange' = range'
         /\ "SampleFreq" \in known' => QtLeads(1, sampleFreq)'
         /\ "Rate" \in known' => QtLeads(1, rate)'
    <2>1. QtLeads(3, range) => QtLeads(3, range)'
      BY <1>2, <1>8, <1>11 DEF QtLeads
    <2>2. QtLeads(1, sampleFreq) => QtLeads(1, sampleFreq)'
      BY <1>2, <1>8, <1>11 DEF QtLeads
    <2>3. QtLeads(1, rate) => QtLeads(1, rate)'
      BY <1>2, <1>8, <1>11 DEF QtLeads
    <2> QED BY <1>2, <2>1, <2>2, <2>3 DEF QtKnown
  <1>14. "Calibration" \in known' => cal' = regs'.cal /\ Spared(3)'
    BY <1>2, <1>7, <1>9 DEF QtKnown
  <1> QED BY <1>1, <1>5, <1>10, <1>12, <1>13, <1>14 DEF QtKnown

\* What applying registers does to the parameters.
LEMMA QtApplyIs ==
  ASSUME QtTypes, NEW file, NEW numbers, Apply(file, numbers)
  PROVE  /\ DOMAIN other' = DOMAIN other
         /\ \A p \in DOMAIN other :
              other'[p] = IF IsTold(p) /\ RegisterOf(p) \in numbers THEN Told(file, p) ELSE other[p]
  <1>1. other' = ReadBack(other, file, numbers)
    BY DEF Apply
  <1>2. /\ DOMAIN other' = DOMAIN other
        /\ \A p \in DOMAIN other :
             other'[p] = IF IsTold(p) /\ RegisterOf(p) \in numbers THEN Told(file, p) ELSE other[p]
    BY <1>1 DEF ReadBack
  <1> QED BY <1>2

LEMMA PayloadKnown ==
  ASSUME QtTypes, RepliesPart, QtKnown, CmdPayload
  PROVE  QtTypes' /\ RepliesPart' /\ QtKnown'
  <1> DEFINE val == Head(replyLine).val
             file == val.regs
             numbers == val.numbers
             Same == file = regs /\ \A i \in DOMAIN toQt : toQt[i].op = "tr"
  <1>1. val \in Tellings /\ Apply(file, numbers) /\ Learns(val) /\ RepliesPart'
    BY PayloadIs
  <1>2. UNCHANGED <<scenario, toQt, regs, replied>>
    BY DEF CmdPayload, qtBounds
  <1>3. /\ scenario \in Scenarios /\ toQt \in Seq(QtOrders) /\ DOMAIN other = QtOthers
    BY DEF QtTypes
  <1>4. QtOthers' = QtOthers /\ QtRegisters' = QtRegisters /\ QtOrders' = QtOrders /\ QtFiles' = QtFiles
    BY <1>2 DEF QtRegisters, QtOrders, QtFiles, QtNums, QtOthers
  <1>5. numbers \in {0..107, 100..107}
    BY <1>1 DEF Tellings
  <1>6. known' = IF Same THEN known \cup Tellable(numbers) ELSE known \ Tellable(numbers)
    BY <1>1 DEF Learns
  <1>7. /\ \A p \in DOMAIN other : IsTold(p) /\ RegisterOf(p) \in numbers <=> p \in Tellable(numbers)
        /\ \A p \in QtOthers : p \in Tellable(numbers) => IsTold(p) /\ RegisterOf(p) \in numbers
        /\ "Calibration" \in Tellable(numbers)
        /\ 1 \in numbers => {"Range", "SampleFreq", "Rate"} \subseteq Tellable(numbers)
        /\ 1 \notin numbers => {"Range", "SampleFreq", "Rate"} \cap Tellable(numbers) = {}
    <2>1. \A p \in QtOthers : p \notin {"Range", "SampleFreq", "Rate", "Calibration"}
      BY <1>3, QtRegistersAre
    <2>2. Tellable(numbers) =
            {p \in DOMAIN other : IsTold(p) /\ RegisterOf(p) \in numbers}
              \cup {"Calibration"} \cup (IF 1 \in numbers THEN {"Range", "SampleFreq", "Rate"} ELSE {})
      BY DEF Tellable
    <2> HIDE DEF numbers
    <2> QED BY <1>3, <2>1, <2>2
  <1>8. (1 \in numbers <=> 3 \in numbers) /\ 100 \in numbers
    BY <1>5
  <1>9. /\ DOMAIN other' = DOMAIN other
        /\ \A p \in DOMAIN other :
             other'[p] = IF IsTold(p) /\ RegisterOf(p) \in numbers THEN Told(file, p) ELSE other[p]
    BY <1>1, QtApplyIs
  <1>10. /\ 1 \in numbers => /\ sampleFreq' = file.nums[1] /\ rate' = file.nums[1]
                             /\ numAverage' = averaging * file.nums[1]
                             /\ range' = file.nums[3] /\ currRange' = file.nums[3]
         /\ 1 \notin numbers => UNCHANGED <<sampleFreq, rate, numAverage, range, currRange>>
         /\ cal' = file.cal /\ UNCHANGED averaging
    BY <1>1, <1>8 DEF Apply, TakeRate, TakeRange
  <1>11. Same => \A r : Spared(r) /\ QtLeads(r, Content(regs, r))
    <2> SUFFICES ASSUME Same, NEW r PROVE Spared(r) /\ QtLeads(r, Content(regs, r))
      OBVIOUS
    <2>1. \A i \in 1..Len(toQt) : toQt[i].op = "tr"
      BY <1>3
    <2> QED BY <1>3, <2>1, LeadsPast DEF Spared, QtLeads
  <1> HIDE DEF val, file, numbers
  <1>12. Same => file = regs
    OBVIOUS
  <1> HIDE DEF Same
  <1>13. /\ \A r, y : QtLeads(r, y)' <=> QtLeads(r, y)
         /\ \A r : Spared(r)' <=> Spared(r)
    BY <1>2 DEF QtLeads, Spared
  <1>14. QtTypes'
    BY <1>2, <1>3, <1>4, <1>9 DEF QtTypes
  <1>15. ASSUME NEW p \in QtOthers' \cap known' PROVE ParamIs(p)'
    <2>1. p \in QtOthers /\ p \in DOMAIN other /\ p \in Stored
      BY <1>3, <1>4, QtRegistersAre
    <2>2. CASE p \in Tellable(numbers)
      <3>1. Same /\ IsTold(p) /\ other'[p] = Told(regs, p)
        BY <1>6, <1>7, <1>9, <1>12, <1>15, <2>1, <2>2
      <3>2. CASE p \in PidNames
        <4>1. Told(regs, p)' = Told(regs, p) /\ Spared(RegisterOf(p))'
          BY <1>2, <1>11, <1>13, <3>1
        <4> QED BY <3>1, <3>2, <4>1 DEF ParamIs
      <3>3. CASE p \notin PidNames
        <4>1. HoldsIn(Content(regs, RegisterOf(p)), p, other'[p])
          BY <2>1, <3>1, <3>3, ToldHolds, HoldsIs
        <4>2. QtLeads(RegisterOf(p), Content(regs, RegisterOf(p)))'
          BY <1>2, <1>11, <3>1 DEF QtLeads
        <4> QED BY <1>2, <4>1, <4>2 DEF ParamIs, QtLeads
      <3> QED BY <3>2, <3>3
    <2>3. CASE p \notin Tellable(numbers)
      <3>1. p \in known /\ other'[p] = other[p]
        BY <1>6, <1>7, <1>9, <1>15, <2>1, <2>3
      <3>2. ParamIs(p)
        BY <2>1, <3>1 DEF QtKnown
      <3> QED BY <1>2, <1>13, <3>1, <3>2, ParamStays
    <2> QED BY <2>2, <2>3
  <1>16. \A r \in QtRegisters' : \E y : QtLeads(r, y)'
    BY <1>4, <1>13 DEF QtKnown
  <1>17. numAverage' = averaging' * rate'
    BY <1>10 DEF QtKnown
  <1>18. "Calibration" \in known' => cal' = regs'.cal /\ Spared(3)'
    BY <1>2, <1>6, <1>7, <1>10, <1>11, <1>12, <1>13
  <1>19. /\ "Range" \in known' => QtLeads(3, range)' /\ currRange' = range'
         /\ "SampleFreq" \in known' => QtLeads(1, sampleFreq)'
         /\ "Rate" \in known' => QtLeads(1, rate)'
    <2>1. CASE 1 \in numbers
      <3>1. "Range" \in known' \/ "SampleFreq" \in known' \/ "Rate" \in known' => Same
        BY <1>6, <1>7, <2>1
      <3>2. Same => /\ QtLeads(3, range') /\ currRange' = range'
                    /\ QtLeads(1, sampleFreq') /\ QtLeads(1, rate')
        <4>1. Content(regs, 3) = regs.nums[3] /\ Content(regs, 1) = regs.nums[1]
          BY <1>3, QtRegistersAre
        <4> QED BY <1>10, <1>11, <1>12, <2>1, <4>1
      <3> QED BY <1>2, <3>1, <3>2 DEF QtLeads
    <2>2. CASE 1 \notin numbers
      <3>1. /\ "Range" \in known' => "Range" \in known
            /\ "SampleFreq" \in known' => "SampleFreq" \in known
            /\ "Rate" \in known' => "Rate" \in known
        BY <1>6, <1>7, <2>2
      <3> QED BY <1>2, <1>10, <2>2, <3>1 DEF QtKnown, QtLeads
    <2> QED BY <2>1, <2>2
  <1> QED BY <1>1, <1>14, <1>15, <1>16, <1>17, <1>18, <1>19 DEF QtKnown

LEMMA QtKnownStays ==
  ASSUME QtTypes, QtKnown,
         UNCHANGED <<scenario, toQt, regs, range, currRange, sampleFreq, rate, averaging,
                     numAverage, other, cal, known>>
  PROVE  QtKnown'
  <1>1. QtOthers' = QtOthers /\ QtRegisters' = QtRegisters
    BY DEF QtRegisters, QtNums, QtOthers
  <1>2. /\ \A r, y : QtLeads(r, y)' <=> QtLeads(r, y)
        /\ \A r : Spared(r)' <=> Spared(r)
    BY DEF QtLeads, Spared
  <1>3. ASSUME NEW p \in QtOthers' \cap known' PROVE ParamIs(p)'
    <2>1. ParamIs(p) /\ other'[p] = other[p]
      BY <1>1 DEF QtKnown
    <2> QED BY <1>2, <2>1, ParamStays
  <1>4. \A r \in QtRegisters' : \E y : QtLeads(r, y)'
    BY <1>1, <1>2 DEF QtKnown
  <1>5. /\ numAverage' = averaging' * rate'
        /\ "Range" \in known' => QtLeads(3, range)' /\ currRange' = range'
        /\ "SampleFreq" \in known' => QtLeads(1, sampleFreq)'
        /\ "Rate" \in known' => QtLeads(1, rate)'
        /\ "Calibration" \in known' => cal' = regs'.cal /\ Spared(3)'
    BY <1>2 DEF QtKnown, QtLeads
  <1> QED BY <1>3, <1>4, <1>5 DEF QtKnown

-----------------------------------------------------------------------------
(***************************************************************************)
(* As long as nothing fails.                                               *)
(***************************************************************************)
QtPart == QtTypes /\ RepliesPart /\ ReadingsPart /\ QtKnown

QtInv == faults \in Nat /\ (faults = 0 => QtPart)

LEMMA FaultsGrow ==
  ASSUME faults \in Nat, [QtNext]_qtVars
  PROVE  faults' \in Nat /\ (faults' = 0 => UNCHANGED faults)
  <1>1. Fault => faults' = faults + 1
    BY DEF Fault
  <1>2. \A cs : Written(cs) => faults' = faults \/ Fault
    BY DEF Written
  <1>3. QtPort => faults' = faults \/ Fault
    BY <1>2 DEF QtPort, SetRange, SetSampleFreq, SetInteger, SetDouble,
                SetAveragingTime, SetUpdate
  <1>4. Replies => faults' = faults \/ Fault
    BY DEF Replies
  <1>5. CmdReadThread => faults' = faults \/ Fault
    BY DEF CmdReadThread, CmdName, CmdLine, CmdLength, CmdPayload, CmdTimeout, qtBounds
  <1>6. DataReadThread => faults' = faults \/ Fault
    BY DEF DataReadThread, DataHeader, DataText, DataBlock, DataPayload, DataTimeout,
           qtBounds
  <1>7. Tells \/ Sends \/ PartArrives \/ UNCHANGED qtVars => faults' = faults
    BY DEF Tells, Sends, PartArrives, qtVars, qtBounds
  <1>8. faults' = faults \/ Fault
    BY <1>3, <1>4, <1>5, <1>6, <1>7 DEF QtNext
  <1> QED BY <1>1, <1>8

LEMMA QtPartStep ==
  ASSUME QtPart, faults = 0, UNCHANGED faults, [QtNext]_qtVars
  PROVE  QtPart'
  <1> USE DEF QtPart
  <1>0. ~Fault
    BY DEF Fault
  <1>1. UNCHANGED <<scenario, toQt, regs, replied, other>> => QtTypes'
    BY DEF QtTypes, QtOrders, QtFiles, QtNums, QtOthers
  <1>2. CASE QtPort
    <2>1. QtTypes' /\ QtKnown'
      BY <1>2, QtPortKnown
    <2>2. UNCHANGED <<scenario, replies, replyLine, cmd, readings, dataLine, dat, sent, computed,
                      unmade, missed>>
      BY <1>2, QtPortIs DEF QtTypes
    <2> QED BY <2>1, <2>2, RepliesStay, ReadingsStay
  <1>3. CASE Replies
    <2>1. QtTypes' /\ RepliesPart' /\ QtKnown'
      BY <1>3, RepliesKnown
    <2>2. UNCHANGED <<readings, dataLine, dat, sent, computed, missed>>
      BY <1>3 DEF Replies, dataIn, qtHistory
    <2> QED BY <2>1, <2>2, ReadingsStay
  <1>4. CASE Tells
    <2>1. /\ UNCHANGED <<scenario, toQt, regs, other, range, currRange, sampleFreq, rate, averaging,
                         numAverage, cal, known>>
          /\ UNCHANGED <<readings, dataLine, dat, sent, computed, missed, replyLine, cmd, unmade>>
          /\ replied' = replied + 1 /\ Tell(replied + 1, 0..107)
      BY <1>4 DEF Tells, port, qtParams, dataIn, qtHistory
    <2>2. RepliesPart'
      BY <2>1, ToldJoins
    <2>3. QtTypes'
      BY <2>1 DEF QtTypes, QtOrders, QtFiles, QtNums, QtOthers
    <2> QED BY <2>1, <2>2, <2>3, ReadingsStay, QtKnownStays
  <1>5. CASE Sends
    <2>1. /\ UNCHANGED <<scenario, toQt, regs, other, range, currRange, sampleFreq, rate, averaging,
                         numAverage, cal, known>>
          /\ UNCHANGED <<replied, replies, replyLine, cmd, unmade>>
      BY <1>5 DEF Sends, port, qtParams, replyIn, qtHistory
    <2>2. ReadingsPart'
      BY <1>5, SendsReading
    <2> QED BY <1>1, <2>1, <2>2, RepliesStay, QtKnownStays
  <1>6. CASE PartArrives
    <2>1. UNCHANGED <<scenario, toQt, regs, other, range, currRange, sampleFreq, rate, averaging,
                      numAverage, cal, known, replied, cmd, unmade, dat, computed, sent, missed>>
      BY <1>6 DEF PartArrives, port, qtParams, replyIn, dataIn, qtBounds, qtHistory
    <2>2. CASE /\ replies # <<>>
               /\ replyLine' = Append(replyLine, Head(replies)) /\ replies' = Tail(replies)
               /\ UNCHANGED dataIn
      <3>1. RepliesPart'
        BY <2>1, <2>2, ReplyComes
      <3>2. ReadingsPart'
        BY <2>1, <2>2, ReadingsStay DEF dataIn
      <3> QED BY <1>1, <2>1, <3>1, <3>2, QtKnownStays
    <2>3. CASE /\ readings # <<>>
               /\ dataLine' = Append(dataLine, Head(readings)) /\ readings' = Tail(readings)
               /\ UNCHANGED replyIn
      <3>1. ReadingsPart'
        BY <2>1, <2>3, ReadingComes
      <3>2. RepliesPart'
        BY <2>1, <2>3, RepliesStay DEF replyIn
      <3> QED BY <1>1, <2>1, <3>1, <3>2, QtKnownStays
    <2> QED BY <1>6, <2>2, <2>3 DEF PartArrives
  <1>7. CASE CmdName \/ CmdLine \/ CmdLength
    <2>1. /\ UNCHANGED <<scenario, toQt, regs, other, range, currRange, sampleFreq, rate, averaging,
                         numAverage, cal, known>>
          /\ UNCHANGED <<replied, readings, dataLine, dat, sent, computed, missed>>
      BY <1>7 DEF CmdName, CmdLine, CmdLength, port, qtParams, dataIn, qtBounds, qtHistory
    <2>2. RepliesPart'
      BY <1>7, NameReply, LineReply, LengthReply
    <2> QED BY <1>1, <2>1, <2>2, ReadingsStay, QtKnownStays
  <1>8. CASE CmdPayload
    <2>1. QtTypes' /\ RepliesPart' /\ QtKnown'
      BY <1>8, PayloadKnown
    <2>2. UNCHANGED <<readings, dataLine, dat, sent, computed, missed>>
      BY <1>8 DEF CmdPayload, dataIn, qtBounds
    <2> QED BY <2>1, <2>2, ReadingsStay
  <1>9. CASE DataHeader \/ DataText \/ DataBlock \/ DataPayload
    <2>1. /\ UNCHANGED <<scenario, toQt, regs, other, range, currRange, sampleFreq, rate, averaging,
                         numAverage, cal, known>>
          /\ UNCHANGED <<replied, replies, replyLine, cmd>>
      BY <1>9 DEF DataHeader, DataText, DataBlock, DataPayload,
                  port, qtParams, replyIn, qtBounds, qtHistory
    <2>2. ReadingsPart'
      BY <1>9, HeaderReading, BlockReading, LastReading
    <2>3. UNCHANGED unmade
      <3>1. DataHeader \/ DataBlock => UNCHANGED unmade
        BY DEF DataHeader, DataBlock, qtHistory
      <3> QED BY <1>9, <3>1, LastReading
    <2> QED BY <1>1, <2>1, <2>2, <2>3, RepliesStay, QtKnownStays
  <1>10. CASE UNCHANGED qtVars
    <2>1. /\ UNCHANGED <<scenario, toQt, regs, other, range, currRange, sampleFreq, rate, averaging,
                         numAverage, cal, known>>
          /\ UNCHANGED <<replied, replies, replyLine, cmd, unmade>>
          /\ UNCHANGED <<readings, dataLine, dat, sent, computed, missed>>
      BY <1>10 DEF qtVars, port, qtParams, replyIn, dataIn, qtBounds, qtHistory
    <2> QED BY <1>1, <2>1, RepliesStay, ReadingsStay, QtKnownStays
  <1>11. ~CmdTimeout /\ ~DataTimeout
    BY <1>0 DEF CmdTimeout, DataTimeout
  <1> QED BY <1>2, <1>3, <1>4, <1>5, <1>6, <1>7, <1>8, <1>9, <1>10, <1>11
          DEF QtNext, CmdReadThread, DataReadThread

LEMMA QtBegins == ASSUME QtInit PROVE QtInv
  <1>1. /\ scenario \in Scenarios /\ toQt = <<>> /\ replies = <<>> /\ replyLine = <<>> /\ cmd = "name"
        /\ readings = <<>> /\ dataLine = <<>> /\ dat = "header" /\ replied = 0 /\ sent = 0 /\ faults = 0
        /\ computed = 0 /\ unmade = FALSE /\ missed = FALSE /\ known = {}
        /\ averaging = 0 /\ numAverage = 0 /\ rate = 10
        /\ DOMAIN other = QtOthers
    BY DEF QtInit
  <1>2. regs \in QtFiles
    <2>1. PICK r \in {0, 1} :
            regs = [bits |-> [reg \in {0, 19, 93} |-> IF reg = 19 THEN {0, 4} ELSE {}],
                    nums |-> [reg \in {1, 3} \cup {RegisterOf(p) : p \in QtOthers \ BitParameters} |->
                                IF reg = 3 THEN r ELSE 1],
                    cal |-> r]
      BY DEF QtInit
    <2>2. {1, 3} \cup {RegisterOf(p) : p \in QtOthers \ BitParameters} = QtNums
      BY DEF QtNums
    <2> QED BY <2>1, <2>2 DEF QtFiles, BitRegisters
  <1>3. QtTypes
    BY <1>1, <1>2 DEF QtTypes
  <1>4. <<>> \o <<>> = <<>>
    OBVIOUS
  <1>5. RepliesPart
    BY <1>1, <1>4 DEF RepliesPart, Strung
  <1>6. ReadingsPart
    BY <1>1, <1>4 DEF ReadingsPart, Strung
  <1>7. QtKnown
    <2>1. \A r : QtLeads(r, Content(regs, r))
      BY <1>1, LeadsNowhere DEF QtLeads
    <2> QED BY <1>1, <2>1 DEF QtKnown
  <1> QED BY <1>1, <1>3, <1>5, <1>6, <1>7 DEF QtInv, QtPart

LEMMA QtKeeps == QtSpec => []QtInv
  <1>1. QtInit => QtInv
    BY QtBegins
  <1>2. QtInv /\ [QtNext]_qtVars => QtInv'
    BY FaultsGrow, QtPartStep DEF QtInv
  <1> QED BY <1>1, <1>2, PTL DEF QtSpec

\* However the bytes of the replies and readings are cut: if all parts of a message come in time,
\* every text is known and no write fails, what processRegVal applies or computePositions computes
\* was sent as it is, and readings are computed each once, in order (cmdReadThread, readTextCurrVals,
\* dataReadThread, readBroadcastPayload).
THEOREM MessagesTaken == QtSpec => []MessagesAreTaken
  <1>1. QtInv => MessagesAreTaken
    BY DEF QtInv, QtPart, RepliesPart, ReadingsPart, MessagesAreTaken
  <1> QED BY <1>1, QtKeeps, PTL

LEMMA KnownAtRest == ASSUME QtPart PROVE KnownIsSo
  <1> SUFFICES ASSUME AtRest
               PROVE  /\ "Range" \in known => range = regs.nums[3] /\ currRange = regs.nums[3]
                      /\ "SampleFreq" \in known => sampleFreq = regs.nums[1]
                      /\ "Rate" \in known => numAverage = averaging * regs.nums[1]
                      /\ "Calibration" \in known => cal = regs.cal
                      /\ \A p \in DOMAIN other \cap known :
                           \/ p \in DOMAIN PidRegisters /\ other[p] = Told(regs, p)
                           \/ Holds(regs, p, other[p])
    BY DEF KnownIsSo
  <1>1. /\ scenario \in Scenarios /\ DOMAIN other = QtOthers /\ QtKnown
    BY DEF QtPart, QtTypes
  <1>2. \A r, y : QtLeads(r, y) => y = Content(regs, r)
    BY LeadsNowhere DEF QtLeads, AtRest
  <1>3. Content(regs, 1) = regs.nums[1] /\ Content(regs, 3) = regs.nums[3]
    BY <1>1, QtRegistersAre
  <1>4. ASSUME NEW p \in DOMAIN other \cap known
        PROVE  \/ p \in DOMAIN PidRegisters /\ other[p] = Told(regs, p)
               \/ Holds(regs, p, other[p])
    <2>1. p \in Stored /\ ParamIs(p)
      BY <1>1, <1>4, QtRegistersAre DEF QtKnown
    <2>2. CASE \E y : QtLeads(RegisterOf(p), y) /\ HoldsIn(y, p, other[p])
      <3>1. HoldsIn(Content(regs, RegisterOf(p)), p, other[p])
        BY <1>2, <2>2
      <3> QED BY <2>1, <3>1, HoldsIs
    <2>3. CASE p \in PidNames /\ other[p] = Told(regs, p)
      <3>1. p \in DOMAIN PidRegisters /\ IsTold(p)
        BY <2>3, NamesAre DEF IsTold
      <3> QED BY <2>3, <3>1
    <2> QED BY <2>1, <2>2, <2>3 DEF ParamIs
  <1> QED BY <1>1, <1>2, <1>3, <1>4 DEF QtKnown

\* When all commands have been executed and every reply read, nothing having failed, what was written
\* last, or told with nothing under way to change it, is so in the T4U and in the driver, with the range
\* of the readings and the number to average computed from it (writeInt32, writeFloat64, processRegVal).
THEOREM SettledIsSo == QtSpec => []KnownIsSo
  <1>1. QtInv => KnownIsSo
    <2>1. CASE faults = 0
      BY <2>1, KnownAtRest DEF QtInv
    <2>2. CASE faults # 0
      BY <2>2 DEF KnownIsSo
    <2> QED BY <2>1, <2>2
  <1> QED BY <1>1, QtKeeps, PTL
==========================================================================
