--------------------------- MODULE TetrAMMProofs ----------------------------
(***************************************************************************)
(* Proofs about TetrAMM for every set of modes and of NumAcquire values,   *)
(* and every bound on failures, outages and queued messages.               *)
(***************************************************************************)
EXTENDS TetrAMM, SequenceTheorems, TLAPS

(***************************************************************************)
(* The steps that the port thread has still to do, as a list.              *)
(***************************************************************************)
\* A step done: the list without its head.
LEMMA TailIs ==
  ASSUME NEW Steps, NEW s \in Seq(Steps), s # <<>>
  PROVE  /\ Len(s) \in Nat \ {0}
         /\ Head(s) = s[1] /\ Head(s) \in Steps
         /\ Tail(s) \in Seq(Steps)
         /\ Len(Tail(s)) = Len(s) - 1
         /\ \A i \in 1..Len(s) - 1 : Tail(s)[i] = s[i + 1]
         /\ \A i \in 1..Len(s) : s[i] \in Steps
  <1>1. Len(s) \in Nat \ {0}
    BY EmptySeq
  <1>2. \A i \in 1..Len(s) : s[i] \in Steps
    BY ElementOfSeq
  <1>3. Head(s) = s[1]
    OBVIOUS
  <1> QED BY <1>1, <1>2, <1>3, HeadTailProperties

\* A step replaced by another.
LEMMA ReplacedIs ==
  ASSUME NEW Steps, NEW s \in Seq(Steps), s # <<>>, NEW a \in Steps
  PROVE  /\ <<a>> \o Tail(s) \in Seq(Steps)
         /\ <<a>> \o Tail(s) # <<>>
         /\ Len(<<a>> \o Tail(s)) = Len(s)
         /\ (<<a>> \o Tail(s))[1] = a
         /\ \A i \in 2..Len(s) : (<<a>> \o Tail(s))[i] = s[i]
  <1> DEFINE t == <<a>> \o Tail(s)
  <1>1. <<a>> \in Seq(Steps) /\ Len(<<a>>) = 1 /\ <<a>>[1] = a
    OBVIOUS
  <1>2. /\ t \in Seq(Steps)
        /\ Len(t) = 1 + Len(Tail(s))
        /\ \A i \in 1..1 + Len(Tail(s)) :
             t[i] = IF i <= 1 THEN <<a>>[i] ELSE Tail(s)[i - 1]
    BY <1>1, TailIs, ConcatProperties
  <1> HIDE DEF t
  <1>3. Len(t) = Len(s) /\ t # <<>>
    BY <1>2, TailIs, EmptySeq
  <1>4. t[1] = a
    BY <1>1, <1>2, TailIs
  <1>5. ASSUME NEW i \in 2..Len(s) PROVE t[i] = s[i]
    BY <1>2, TailIs
  <1> QED BY <1>2, <1>3, <1>4, <1>5 DEF t

\* A step replaced by three.
LEMMA ExpandedIs ==
  ASSUME NEW Steps, NEW s \in Seq(Steps), s # <<>>, NEW a \in Steps, NEW b \in Steps, NEW c \in Steps
  PROVE  /\ <<a, b, c>> \o Tail(s) \in Seq(Steps)
         /\ <<a, b, c>> \o Tail(s) # <<>>
         /\ Len(<<a, b, c>> \o Tail(s)) = Len(s) + 2
         /\ (<<a, b, c>> \o Tail(s))[1] = a
         /\ (<<a, b, c>> \o Tail(s))[2] = b
         /\ (<<a, b, c>> \o Tail(s))[3] = c
         /\ \A i \in 4..Len(s) + 2 : (<<a, b, c>> \o Tail(s))[i] = s[i - 2]
  <1> DEFINE u == <<a, b, c>>
  <1> DEFINE t == u \o Tail(s)
  <1>1. u \in Seq(Steps) /\ Len(u) = 3 /\ u[1] = a /\ u[2] = b /\ u[3] = c
    OBVIOUS
  <1> HIDE DEF u
  <1>0. Tail(s) \in Seq(Steps)
    BY TailIs
  <1>2. /\ t \in Seq(Steps)
        /\ Len(t) = 3 + Len(Tail(s))
        /\ \A i \in 1..3 + Len(Tail(s)) : t[i] = IF i <= 3 THEN u[i] ELSE Tail(s)[i - 3]
    <2>1. /\ t \in Seq(Steps)
          /\ Len(t) = Len(u) + Len(Tail(s))
          /\ \A i \in 1..Len(u) + Len(Tail(s)) :
               t[i] = IF i <= Len(u) THEN u[i] ELSE Tail(s)[i - Len(u)]
      BY <1>1, <1>0, ConcatProperties
    <2>2. Len(u) = 3
      BY <1>1
    <2> HIDE DEF t
    <2> QED BY <2>1, <2>2
  <1> HIDE DEF t
  <1>3. Len(t) = Len(s) + 2 /\ t # <<>>
    BY <1>2, TailIs, EmptySeq
  <1>4. t[1] = a /\ t[2] = b /\ t[3] = c
    BY <1>1, <1>2, TailIs
  <1>5. ASSUME NEW i \in 4..Len(s) + 2 PROVE t[i] = s[i - 2]
    <2>1. t[i] = Tail(s)[i - 3]
      BY <1>2, TailIs
    <2>2. i - 3 \in 1..Len(s) - 1
      BY TailIs
    <2> QED BY <2>1, <2>2, TailIs
  <1> QED BY <1>2, <1>3, <1>4, <1>5 DEF t, u

\* Whether a step is in the list.
Has(s, op) == \E i \in 1..Len(s) : s[i] = op

\* What is in a list is its first step or in the rest.
LEMMA HasTail ==
  ASSUME NEW Steps, NEW s \in Seq(Steps), s # <<>>, NEW op
  PROVE  Has(s, op) <=> (Head(s) = op \/ Has(Tail(s), op))
  <1>1. ASSUME Has(s, op), Head(s) # op PROVE Has(Tail(s), op)
    <2>1. PICK i \in 1..Len(s) : s[i] = op
      BY <1>1 DEF Has
    <2>2. i # 1 /\ Len(s) \in Nat
      BY <1>1, <2>1, TailIs
    <2>3. i - 1 \in 1..Len(Tail(s)) /\ Tail(s)[i - 1] = op
      BY <2>1, <2>2, TailIs
    <2> QED BY <2>3 DEF Has
  <1>2. ASSUME Has(Tail(s), op) PROVE Has(s, op)
    <2>1. PICK i \in 1..Len(Tail(s)) : Tail(s)[i] = op
      BY <1>2 DEF Has
    <2>2. i + 1 \in 1..Len(s) /\ s[i + 1] = op
      BY <2>1, TailIs
    <2> QED BY <2>2 DEF Has
  <1>3. Head(s) = op => Has(s, op)
    BY TailIs DEF Has
  <1> QED BY <1>1, <1>2, <1>3

\* What is in a list whose first step is replaced.
LEMMA HasReplaced ==
  ASSUME NEW Steps, NEW s \in Seq(Steps), s # <<>>, NEW a \in Steps, NEW op
  PROVE  Has(<<a>> \o Tail(s), op) <=> (a = op \/ Has(Tail(s), op))
  <1> DEFINE t == <<a>> \o Tail(s)
  <1>1. /\ t \in Seq(Steps) /\ t # <<>> /\ Len(t) = Len(s) /\ t[1] = a
        /\ \A i \in 2..Len(s) : t[i] = s[i]
    BY ReplacedIs
  <1> HIDE DEF t
  <1>2. Tail(t) = Tail(s)
    <2>1. \A i \in 1..Len(Tail(t)) : Tail(t)[i] = Tail(s)[i]
      BY <1>1, TailIs
    <2> QED BY <1>1, <2>1, TailIs, SeqEqual
  <1>3. Head(t) = a
    BY <1>1, TailIs
  <1> QED BY <1>1, <1>2, <1>3, HasTail DEF t

\* What is in a list whose first step is replaced by three.
LEMMA HasExpanded ==
  ASSUME NEW Steps, NEW s \in Seq(Steps), s # <<>>, NEW a \in Steps, NEW b \in Steps, NEW c \in Steps, NEW op
  PROVE  Has(<<a, b, c>> \o Tail(s), op) <=> (op \in {a, b, c} \/ Has(Tail(s), op))
  <1> DEFINE t == <<a, b, c>> \o Tail(s)
  <1>1. /\ t \in Seq(Steps) /\ Len(t) = Len(s) + 2 /\ t[1] = a /\ t[2] = b /\ t[3] = c
        /\ \A i \in 4..Len(s) + 2 : t[i] = s[i - 2]
    BY ExpandedIs
  <1> HIDE DEF t
  <1>2. ASSUME Has(t, op), op \notin {a, b, c} PROVE Has(Tail(s), op)
    <2>1. PICK i \in 1..Len(t) : t[i] = op
      BY <1>2 DEF Has
    <2>2. i \in 4..Len(s) + 2
      BY <1>1, <1>2, <2>1, TailIs
    <2>3. i - 3 \in 1..Len(Tail(s)) /\ Tail(s)[i - 3] = op
      BY <1>1, <2>1, <2>2, TailIs
    <2> QED BY <2>3 DEF Has
  <1>3. ASSUME op \in {a, b, c} PROVE Has(t, op)
    BY <1>1, <1>3, TailIs DEF Has
  <1>4. ASSUME Has(Tail(s), op) PROVE Has(t, op)
    <2>1. PICK i \in 1..Len(Tail(s)) : Tail(s)[i] = op
      BY <1>4 DEF Has
    <2>2. i + 3 \in 1..Len(t) /\ t[i + 3] = op
      BY <1>1, <2>1, TailIs
    <2> QED BY <2>2 DEF Has
  <1> QED BY <1>2, <1>3, <1>4 DEF t

(***************************************************************************)
(* What the port thread has still to do, as a sequence.                    *)
(***************************************************************************)
\* The three functions that stop, talk and start again, and their dialogs.
LEMMA DialogValues ==
  /\ DOMAIN Dialog = {"params", "command", "status"}
  /\ Dialog["params"] = "send" /\ Dialog["command"] = "ask" /\ Dialog["status"] = "query"
  BY DEF Dialog

\* What the client's writes ask for.
LEMMA CallsAre ==
  /\ <<>> \in Seq(Ops)
  /\ <<"start">> \in Seq(Ops) /\ <<"stop">> \in Seq(Ops) /\ <<"status">> \in Seq(Ops)
  /\ <<"stop", "send">> \in Seq(Ops) /\ <<"stop", "send", "start">> \in Seq(Ops)
  /\ <<"params", "status">> \in Seq(Ops) /\ <<"command", "status">> \in Seq(Ops)
  /\ <<"stop", "clear", "params", "status">> \in Seq(Ops)
  /\ <<"stop", "command", "send", "params", "command", "status", "resume", "status">>
        \in Seq(Ops)
  BY DEF Ops

\* report's list, with the restart it ends in or without.
LEMMA ReportIs ==
  /\ <<"stop", "send">> \o <<"start">> = <<"stop", "send", "start">>
  /\ <<"stop", "send">> \o <<>> = <<"stop", "send">>
  <1> DEFINE x == <<"stop", "send">>
             y == <<"start">>
             z == <<"stop", "send", "start">>
  <1>1. x \in Seq(Ops) /\ y \in Seq(Ops) /\ z \in Seq(Ops)
    BY CallsAre DEF Ops
  <1>2. Len(x) = 2 /\ Len(y) = 1 /\ Len(z) = 3
    OBVIOUS
  <1>3. x[1] = z[1] /\ x[2] = z[2] /\ y[1] = z[3]
    OBVIOUS
  <1> HIDE DEF x, y, z
  <1> DEFINE w == x \o y
  <1>0. /\ w \in Seq(Ops)
        /\ Len(w) = Len(x) + Len(y)
        /\ \A i \in 1..Len(x) + Len(y) :
             w[i] = IF i <= Len(x) THEN x[i] ELSE y[i - Len(x)]
    BY <1>1, ConcatProperties
  <1> HIDE DEF w
  <1>4. w \in Seq(Ops) /\ Len(w) = Len(z)
    BY <1>0, <1>2
  <1>5. ASSUME NEW i \in 1..Len(z) PROVE w[i] = z[i]
    <2>1. w[i] = IF i <= 2 THEN x[i] ELSE y[i - 2]
      BY <1>0, <1>2
    <2>2. i = 1 \/ i = 2 \/ i = 3
      BY <1>2
    <2> QED BY <2>1, <2>2, <1>3
  <1>6. w = z
    BY <1>1, <1>4, <1>5, SeqEqual
  <1>7. x \o <<>> = x
    BY <1>1, ConcatEmptySeq
  <1> QED BY <1>6, <1>7 DEF w, x, y, z

-----------------------------------------------------------------------------
(* Types.                                                                  *)

LEMMA MostIs ==
  MostAcquired \in NumAcquires /\ MostAcquired \in Nat
    /\ \A k \in NumAcquires : k <= MostAcquired
  BY ConstAssumption, MostAssumption DEF MostAcquired

LEMMA InitType == Init => TypeOK
  <1> SUFFICES ASSUME Init PROVE TypeOK
    OBVIOUS
  <1>1. todo \in Seq(Ops)
    BY CallsAre DEF Init
  <1>2. numAcquired \in 0..MostAcquired
    BY MostIs DEF Init
  <1>3. /\ event \in BOOLEAN /\ running \in BOOLEAN /\ online \in BOOLEAN
        /\ heard \in BOOLEAN /\ overlapped \in BOOLEAN
    BY DEF Init
  <1>4. failures \in 0..MaxFailures /\ outages \in 0..MaxOutages /\ queued \in 0..MaxQueued
    BY ConstAssumption DEF Init
  <1>5. readingActive = 1 <=> reader = "reading"
    BY DEF Init
  <1> QED BY <1>1, <1>2, <1>3, <1>4, <1>5 DEF Init, TypeOK

LEMMA ReaderType == ASSUME TypeOK, Reader PROVE TypeOK'
  <1>1. CASE ReaderWakes
    BY <1>1 DEF ReaderWakes, TypeOK, control, port, link
  <1>2. CASE ReaderStarts
    BY <1>2 DEF ReaderStarts, TypeOK, control, port, link
  <1>3. CASE ReaderReads
    BY <1>3, ConstAssumption DEF ReaderReads, ReaderLoops, TypeOK, control, port, link
  <1>4. CASE ReaderReadsNothing
    BY <1>4 DEF ReaderReadsNothing, ReaderLoops, TypeOK, control, port, link
  <1> QED BY <1>1, <1>2, <1>3, <1>4 DEF Reader

LEMMA FailsType ==
  ASSUME TypeOK
  PROVE  /\ Answered => failures' = failures /\ failures' \in 0..MaxFailures
         /\ Fails => failures' \in 0..MaxFailures
  BY ConstAssumption DEF TypeOK, Answered, Fails

LEMMA AcqOffType ==
  ASSUME TypeOK, AcqOff
  PROVE  running' \in BOOLEAN /\ heard' \in BOOLEAN /\ failures' \in 0..MaxFailures
  <1>1. running \in BOOLEAN
    BY DEF TypeOK
  <1>2. CASE Answered /\ running' = FALSE /\ heard' = TRUE
    BY <1>2, FailsType
  <1>3. CASE Fails /\ running' \in {FALSE, running} /\ heard' = FALSE
    BY <1>1, <1>3, FailsType
  <1> QED BY <1>2, <1>3 DEF AcqOff

LEMMA AcqOnType ==
  ASSUME TypeOK, NEW failed \in BOOLEAN, AcqOn(failed)
  PROVE  running' \in BOOLEAN /\ heard' \in BOOLEAN /\ failures' \in 0..MaxFailures
  <1>1. running \in BOOLEAN
    BY DEF TypeOK
  <1>2. CASE Answered /\ running' = TRUE /\ ~failed /\ heard' = TRUE
    BY <1>2, FailsType
  <1>3. CASE Fails /\ UNCHANGED running /\ heard' = FALSE
    BY <1>1, <1>3, FailsType
  <1> QED BY <1>2, <1>3 DEF AcqOn

LEMMA PortType == ASSUME TypeOK, Port PROVE TypeOK'
  <1> USE DEF TypeOK, driver, control, port, link
  <1>1. CASE PortStop
    <2>1. todo \in Seq(Ops) /\ todo # <<>> /\ Tail(todo) \in Seq(Ops)
      BY <1>1, TailIs DEF PortStop, PortHasLock
    <2>2. running' \in BOOLEAN /\ heard' \in BOOLEAN /\ failures' \in 0..MaxFailures
      BY <1>1, AcqOffType DEF PortStop
    <2> QED BY <1>1, <2>1, <2>2 DEF PortStop, PortHasLock, Pop
  <1>2. CASE PortStopped
    <2>1. todo \in Seq(Ops) /\ todo # <<>> /\ Tail(todo) \in Seq(Ops)
      BY <1>2, TailIs DEF PortStopped
    <2>2. running' \in BOOLEAN /\ heard' \in BOOLEAN /\ failures' \in 0..MaxFailures
      BY <1>2, AcqOffType DEF PortStopped, AcqOffAndFlag
    <2> QED BY <1>2, <2>1, <2>2 DEF PortStopped, AcqOffAndFlag, Pop
  <1>3. CASE PortStart
    <2>1. todo \in Seq(Ops) /\ todo # <<>> /\ Tail(todo) \in Seq(Ops)
      BY <1>3, TailIs DEF PortStart, PortHasLock
    <2>2. running' \in BOOLEAN /\ heard' \in BOOLEAN /\ failures' \in 0..MaxFailures
      BY <1>3, AcqOnType DEF PortStart
    <2>3. numAcquired' \in 0..MostAcquired
      BY <1>3, MostIs DEF PortStart
    <2>4. event' \in BOOLEAN
      BY <1>3 DEF PortStart
    <2>5. todo' \in Seq(Ops) /\ (waiting' # "no" => todo' # <<>>)
            /\ waiting' \in {"no", "stop", "start", "failed"}
      BY <1>3, <2>1 DEF PortStart, PortHasLock, Pop
    <2> QED BY <1>3, <2>2, <2>3, <2>4, <2>5 DEF PortStart
  <1>4. CASE PortStarted
    <2>1. todo \in Seq(Ops) /\ todo # <<>> /\ Tail(todo) \in Seq(Ops)
      BY <1>4, TailIs DEF PortStarted
    <2> QED BY <1>4, <2>1 DEF PortStarted, Pop
  <1>5. CASE PortPrepares
    <2>1. todo \in Seq(Ops) /\ todo # <<>> /\ Head(todo) \in {"params", "command", "status"}
      BY <1>5, DialogValues DEF PortPrepares, PortHasLock
    <2>2. Dialog[Head(todo)] \in Ops /\ "stop" \in Ops /\ "start" \in Ops
      BY <2>1, DialogValues DEF Ops
    <2>3. todo' \in Seq(Ops) /\ todo' # <<>>
      BY <1>5, <2>1, <2>2, ReplacedIs, ExpandedIs DEF PortPrepares
    <2> QED BY <1>5, <2>3 DEF PortPrepares
  <1>6. CASE PortTalks
    <2>1. todo \in Seq(Ops) /\ todo # <<>> /\ waiting = "no"
      BY <1>6 DEF PortTalks, PortHasLock
    <2>2. Tail(todo) \in Seq(Ops)
      BY <2>1, TailIs
    <2>3. Len(todo) > 1 => Tail(todo) # <<>>
      <3>1. Len(Tail(todo)) = Len(todo) - 1 /\ Len(todo) \in Nat
        BY <2>1, TailIs
      <3> QED BY <3>1, EmptySeq
    <2>4. Len(todo) > 1 => Tail(Tail(todo)) \in Seq(Ops)
      BY <2>2, <2>3, TailIs
    <2>5. todo' \in Seq(Ops)
      BY <1>6, <2>2, <2>4 DEF PortTalks, Pop
    <2>6. failures' \in 0..MaxFailures
      BY <1>6, FailsType DEF PortTalks
    <2> QED BY <1>6, <2>1, <2>5, <2>6 DEF PortTalks
  <1>7. CASE PortSets
    <2>1. todo \in Seq(Ops) /\ todo # <<>> /\ waiting = "no"
      BY <1>7 DEF PortSets, PortHasLock
    <2> DEFINE next == IF acquire = 1 THEN "start" ELSE "stop"
    <2>0. next \in Ops
      BY DEF Ops
    <2>2. todo' \in Seq(Ops)
      <3>1. todo' = <<next>> \o Tail(todo) \/ todo' = Tail(todo)
        BY <1>7 DEF PortSets, Pop
      <3> HIDE DEF next
      <3>2. <<next>> \o Tail(todo) \in Seq(Ops)
        BY <2>0, <2>1, ReplacedIs
      <3>3. Tail(todo) \in Seq(Ops)
        BY <2>1, TailIs
      <3> QED BY <3>1, <3>2, <3>3
    <2>3. acquire' \in {0, 1}
      BY <1>7 DEF PortSets
    <2> QED BY <1>7, <2>1, <2>2, <2>3 DEF PortSets
  <1> QED BY <1>1, <1>2, <1>3, <1>4, <1>5, <1>6, <1>7 DEF Port

LEMMA ClientType == ASSUME TypeOK, Client PROVE TypeOK'
  <1> USE CallsAre DEF TypeOK, driver, control, port, link, Call
  <1>1. ASSUME NEW v \in {0, 1}, WriteAcquire(v) PROVE TypeOK'
    BY <1>1 DEF WriteAcquire
  <1>2. ASSUME NEW m \in Modes, WriteAcquireMode(m) PROVE TypeOK'
    <2>1. todo' = <<"params", "status">> \/ todo' = <<"stop", "clear", "params", "status">>
      BY <1>2 DEF WriteAcquireMode
    <2>2. todo' \in Seq(Ops)
      BY <2>1
    <2> QED BY <1>2, <2>2 DEF WriteAcquireMode
  <1>3. ASSUME NEW k \in NumAcquires, WriteSetting(k) PROVE TypeOK'
    BY <1>3 DEF WriteSetting
  <1>4. CASE WriteBias
    BY <1>4 DEF WriteBias
  <1>5. CASE WriteReset
    BY <1>5 DEF WriteReset
  <1>6. CASE Report
    <2>1. todo' = <<"stop", "send">> \/ todo' = <<"stop", "send", "start">>
      <3>1. CASE acquiring = 1
        BY <1>6, <3>1, ReportIs DEF Report
      <3>2. CASE acquiring # 1
        BY <1>6, <3>2, ReportIs DEF Report
      <3> QED BY <3>1, <3>2
    <2>2. todo' \in Seq(Ops)
      BY <2>1
    <2> QED BY <1>6, <2>2 DEF Report
  <1>7. CASE WriteReadStatus
    BY <1>7 DEF WriteReadStatus
  <1> QED BY <1>1, <1>2, <1>3, <1>4, <1>5, <1>6, <1>7 DEF Client

LEMMA TaskType == ASSUME TypeOK, Task PROVE TypeOK'
  <1> USE DEF TypeOK, driver, control, port, link
  <1>1. CASE TaskDelivers
    BY <1>1, ConstAssumption, MostIs DEF TaskDelivers
  <1>2. CASE TaskStops
    <2>1. running' \in BOOLEAN /\ heard' \in BOOLEAN /\ failures' \in 0..MaxFailures
      BY <1>2, AcqOffType DEF TaskStops
    <2>2. numAcquired' \in 0..MostAcquired /\ queued' \in 0..MaxQueued
      BY <1>2, ConstAssumption, MostIs DEF TaskStops
    <2>3. overlapped' \in BOOLEAN
      BY <1>2 DEF TaskStops
    <2> QED BY <1>2, <2>1, <2>2, <2>3 DEF TaskStops
  <1>3. CASE TaskStopped
    <2>1. running' \in BOOLEAN /\ heard' \in BOOLEAN /\ failures' \in 0..MaxFailures
      BY <1>3, AcqOffType DEF TaskStopped, AcqOffAndFlag
    <2> QED BY <1>3, <2>1 DEF TaskStopped, AcqOffAndFlag
  <1> QED BY <1>1, <1>2, <1>3 DEF Task

LEMMA NextType == TypeOK /\ [Next]_vars => TypeOK'
  <1> SUFFICES ASSUME TypeOK, [Next]_vars PROVE TypeOK'
    OBVIOUS
  <1>1. CASE MeterStops
    BY <1>1 DEF MeterStops, TypeOK, driver, control, port, link
  <1>2. CASE LinkChanges
    BY <1>2, ConstAssumption DEF LinkChanges, TypeOK, driver, control, port
  <1>3. CASE UNCHANGED vars
    BY <1>3 DEF vars, TypeOK, driver, control, port, link
  <1> QED BY <1>1, <1>2, <1>3, ReaderType, PortType, ClientType, TaskType DEF Next

\* The variables keep their types, and readingActive_ says just whether the read
\* thread is at its reads, whatever the link, the meter and callbackTask do.
THEOREM TypeCorrect == Spec => []TypeOK
  BY InitType, NextType, PTL DEF Spec

-----------------------------------------------------------------------------
(***************************************************************************)
(* No reading is sent to nobody.  What keeps a running meter from being    *)
(* forgotten is that somebody is still to look at it: the read thread, or  *)
(* a setAcquire(0) that waits for it.                                      *)
(***************************************************************************)
SomebodyMinds ==
  \/ event
  \/ reader = "woken"
  \/ reader = "reading" /\ acquiring = 1
  \/ task = "stop"
  \/ waiting = "stop"

Minded ==
  /\ TypeOK
  /\ running /\ heard => SomebodyMinds
  /\ waiting = "failed" => ~(running /\ heard)

\* The dialog that turns the meter off leaves no meter that is known to run.
LEMMA TurnedOff == AcqOff => ~(running' /\ heard')
  BY DEF AcqOff

LEMMA ReaderMinded == ASSUME Minded, Reader PROVE Minded'
  <1> USE ReaderType DEF Minded, SomebodyMinds, control, port, link, driver
  <1>1. CASE ReaderWakes
    BY <1>1 DEF ReaderWakes
  <1>2. CASE ReaderStarts
    BY <1>2 DEF ReaderStarts
  <1>3. CASE ReaderReads
    BY <1>3 DEF ReaderReads, ReaderLoops, TypeOK
  <1>4. CASE ReaderReadsNothing
    BY <1>4 DEF ReaderReadsNothing, ReaderLoops, TypeOK
  <1> QED BY <1>1, <1>2, <1>3, <1>4 DEF Reader

LEMMA PortMinded == ASSUME Minded, Port PROVE Minded'
  <1> USE PortType DEF Minded, SomebodyMinds, control, port, link, driver
  <1>1. CASE PortStop
    <2>1. readingActive = 0 => reader # "reading"
      BY DEF TypeOK
    <2> QED BY <1>1, <2>1, TurnedOff DEF PortStop, PortHasLock
  <1>2. CASE PortStopped
    BY <1>2, TurnedOff DEF PortStopped, AcqOffAndFlag
  <1>3. CASE PortStart
    <2>1. CASE acquiring = 1 \/ ~online
      BY <1>3, <2>1 DEF PortStart, PortHasLock
    <2>2. CASE acquiring = 0 /\ online
      BY <1>3, <2>2 DEF PortStart, PortHasLock, AcqOn
    <2> QED BY <1>3, <2>1, <2>2 DEF PortStart
  <1>4. CASE PortStarted
    BY <1>4 DEF PortStarted, TypeOK
  <1>5. CASE PortPrepares
    BY <1>5 DEF PortPrepares
  <1>6. CASE PortTalks
    BY <1>6 DEF PortTalks
  <1>7. CASE PortSets
    BY <1>7 DEF PortSets
  <1> QED BY <1>1, <1>2, <1>3, <1>4, <1>5, <1>6, <1>7 DEF Port

LEMMA ClientMinded == ASSUME Minded, Client PROVE Minded'
  BY ClientType DEF Minded, SomebodyMinds, control, link, driver, Client, WriteAcquire,
    WriteAcquireMode, WriteSetting, WriteBias, WriteReset, Report, WriteReadStatus

LEMMA TaskMinded == ASSUME Minded, Task PROVE Minded'
  <1> USE TaskType DEF Minded, SomebodyMinds, control, port, link, driver
  <1>1. CASE TaskDelivers
    BY <1>1 DEF TaskDelivers
  <1>2. CASE TaskStops
    <2>1. readingActive = 0 => reader # "reading"
      BY DEF TypeOK
    <2> QED BY <1>2, <2>1, TurnedOff DEF TaskStops
  <1>3. CASE TaskStopped
    BY <1>3, TurnedOff DEF TaskStopped, AcqOffAndFlag
  <1> QED BY <1>1, <1>2, <1>3 DEF Task

LEMMA NextMinded == Minded /\ [Next]_vars => Minded'
  <1> SUFFICES ASSUME Minded, [Next]_vars PROVE Minded'
    OBVIOUS
  <1>0. TypeOK'
    BY NextType DEF Minded
  <1>1. CASE MeterStops
    BY <1>0, <1>1 DEF MeterStops, Minded, SomebodyMinds, driver, port, link
  <1>2. CASE LinkChanges
    BY <1>0, <1>2 DEF LinkChanges, Minded, SomebodyMinds, driver, port
  <1>3. CASE UNCHANGED vars
    BY <1>0, <1>3 DEF vars, Minded, SomebodyMinds, driver, port, link
  <1> QED BY <1>1, <1>2, <1>3, ReaderMinded, PortMinded, ClientMinded, TaskMinded DEF Next

\* The meter does not send its readings to nobody, with any number of failures of the
\* link and of the dialogs: setAcquire(0) turns it off only after the read thread has
\* stopped, and setAcquire(1) tells the read thread.
THEOREM NoReadingUnread == Spec => []SendsToNobody
  <1>1. Init => Minded
    BY InitType DEF Init, Minded
  <1>2. Minded => SendsToNobody
    BY DEF Minded, SomebodyMinds, SendsToNobody, TypeOK
  <1> QED BY <1>1, <1>2, NextMinded, PTL DEF Spec

-----------------------------------------------------------------------------
(***************************************************************************)
(* The order of what the port thread has to do.                            *)
(***************************************************************************)
Dialogs == {"send", "ask", "query"}

\* A stop only begins a list; a start follows the dialog it ends; a dialog follows the
\* stop before it, or, in reset(), which has stopped already, another command.
InOrder(s) ==
  \A i \in 1..Len(s) :
    /\ s[i] = "stop" => i = 1
    /\ s[i] = "start" => i = 1 \/ s[i - 1] \in Dialogs
    /\ s[i] = "clear" => i = 1 \/ (i = 2 /\ s[1] = "stop")
    /\ s[i] \in Dialogs => \/ i = 1
                           \/ s[i - 1] = "stop"
                           \/ Has(s, "resume") /\ s[i - 1] \in {"command", "ask"}
    /\ s[i] = "resume" => \A j \in i + 1..Len(s) : s[j] = "status"
    /\ s[i] \in {"resume", "clear"} => ~Has(s, "start")

LEMMA TailInOrder ==
  ASSUME NEW s \in Seq(Ops), s # <<>>, InOrder(s)
  PROVE  InOrder(Tail(s))
  <1> DEFINE t == Tail(s)
  <1>1. /\ t \in Seq(Ops) /\ Len(t) = Len(s) - 1 /\ Len(s) \in Nat \ {0}
        /\ \A i \in 1..Len(s) - 1 : t[i] = s[i + 1]
    BY TailIs
  <1>2. Has(t, "start") => Has(s, "start")
    BY HasTail
  <1>3. Has(s, "resume") /\ Head(s) # "resume" => Has(t, "resume")
    BY HasTail
  <1>4. Head(s) = s[1]
    BY TailIs
  <1> HIDE DEF t
  <1>5. ASSUME NEW i \in 1..Len(t)
        PROVE  /\ t[i] = "stop" => i = 1
               /\ t[i] = "start" => i = 1 \/ t[i - 1] \in Dialogs
               /\ t[i] = "clear" => i = 1 \/ (i = 2 /\ t[1] = "stop")
               /\ t[i] \in Dialogs => \/ i = 1
                                      \/ t[i - 1] = "stop"
                                      \/ Has(t, "resume") /\ t[i - 1] \in {"command", "ask"}
               /\ t[i] = "resume" => \A j \in i + 1..Len(t) : t[j] = "status"
               /\ t[i] \in {"resume", "clear"} => ~Has(t, "start")
    <2>1. i + 1 \in 1..Len(s) /\ t[i] = s[i + 1]
      BY <1>1
    <2>2. i # 1 => i - 1 \in 1..Len(t) /\ t[i - 1] = s[i]
      BY <1>1
    <2>3. s[1] = "resume" => t[i] = "status"
      BY <1>1, <2>1 DEF InOrder
    <2>4. t[i] # "stop"
      BY <1>1, <2>1 DEF InOrder
    <2>5. t[i] = "start" => i = 1 \/ t[i - 1] \in Dialogs
      BY <2>1, <2>2, <1>1 DEF InOrder
    <2>6. t[i] = "clear" => i = 1
      BY <2>1, <2>2, <1>1 DEF InOrder
    <2>7. t[i] \in Dialogs => \/ i = 1
                              \/ t[i - 1] = "stop"
                              \/ Has(t, "resume") /\ t[i - 1] \in {"command", "ask"}
      BY <2>1, <2>2, <2>3, <1>1, <1>3, <1>4 DEF InOrder, Dialogs
    <2>8. t[i] = "resume" => \A j \in i + 1..Len(t) : t[j] = "status"
      <3> SUFFICES ASSUME t[i] = "resume", NEW j \in i + 1..Len(t) PROVE t[j] = "status"
        OBVIOUS
      <3>1. j + 1 \in (i + 1) + 1..Len(s) /\ t[j] = s[j + 1]
        BY <1>1
      <3> QED BY <2>1, <3>1 DEF InOrder
    <2>9. t[i] \in {"resume", "clear"} => ~Has(t, "start")
      BY <2>1, <1>2 DEF InOrder
    <2> QED BY <2>4, <2>5, <2>6, <2>7, <2>8, <2>9
  <1> QED BY <1>5 DEF InOrder, t

\* A meter that is not acquiring: the function is replaced by its dialog.
LEMMA ReplacedInOrder ==
  ASSUME NEW s \in Seq(Ops), s # <<>>, InOrder(s), Head(s) \in DOMAIN Dialog
  PROVE  InOrder(<<Dialog[Head(s)]>> \o Tail(s))
  <1> DEFINE a == Dialog[Head(s)]
             t == <<a>> \o Tail(s)
  <1>1. /\ a \in Dialogs /\ a \in Ops /\ s[1] \in {"params", "command", "status"}
        /\ s[1] = "command" => a = "ask"
    BY DialogValues, TailIs DEF Dialogs, Ops
  <1>2. /\ t \in Seq(Ops) /\ Len(t) = Len(s) /\ Len(s) \in Nat \ {0} /\ t[1] = a
        /\ \A i \in 2..Len(s) : t[i] = s[i]
    BY <1>1, ReplacedIs, TailIs
  <1>3. \A op \in {"start", "resume"} : Has(t, op) <=> Has(s, op)
    BY <1>1, HasReplaced, HasTail, TailIs DEF Dialogs
  <1> HIDE DEF t, a
  <1>4. ASSUME NEW i \in 1..Len(t)
        PROVE  /\ t[i] = "stop" => i = 1
               /\ t[i] = "start" => i = 1 \/ t[i - 1] \in Dialogs
               /\ t[i] = "clear" => i = 1 \/ (i = 2 /\ t[1] = "stop")
               /\ t[i] \in Dialogs => \/ i = 1
                                      \/ t[i - 1] = "stop"
                                      \/ Has(t, "resume") /\ t[i - 1] \in {"command", "ask"}
               /\ t[i] = "resume" => \A j \in i + 1..Len(t) : t[j] = "status"
               /\ t[i] \in {"resume", "clear"} => ~Has(t, "start")
    <2>1. CASE i = 1
      BY <1>1, <1>2, <2>1 DEF Dialogs
    <2>2. CASE i = 2
      <3>1. t[2] = s[2] /\ 2 \in 1..Len(s) /\ t[2 - 1] = a /\ 2 - 1 = 1
        BY <1>2, <2>2
      <3>2. \A j \in 3..Len(t) : t[j] = s[j]
        BY <1>2
      <3> QED BY <1>1, <1>2, <1>3, <2>2, <3>1, <3>2 DEF InOrder, Dialogs
    <2>3. CASE i > 2
      <3>1. t[i] = s[i] /\ t[i - 1] = s[i - 1] /\ i \in 1..Len(s)
        BY <1>2, <2>3
      <3>2. \A j \in i + 1..Len(t) : t[j] = s[j]
        BY <1>2
      <3> QED BY <1>2, <1>3, <2>3, <3>1, <3>2 DEF InOrder, Dialogs
    <2> QED BY <2>1, <2>2, <2>3, <1>2
  <1> QED BY <1>4 DEF InOrder, t, a

\* A meter that is acquiring: the dialog comes between a stop and a start.  Not while
\* reset() is at work, which restarts it at its end.
LEMMA ExpandedInOrder ==
  ASSUME NEW s \in Seq(Ops), s # <<>>, InOrder(s), Head(s) \in DOMAIN Dialog,
         ~Has(s, "resume")
  PROVE  InOrder(<<"stop", Dialog[Head(s)], "start">> \o Tail(s))
  <1> DEFINE a == Dialog[Head(s)]
             t == <<"stop", a, "start">> \o Tail(s)
  <1>1. a \in Dialogs /\ a \in Ops /\ s[1] \in {"params", "command", "status"}
    BY DialogValues, TailIs DEF Dialogs, Ops
  <1>2. /\ t \in Seq(Ops) /\ Len(t) = Len(s) + 2 /\ Len(s) \in Nat \ {0}
        /\ t[1] = "stop" /\ t[2] = a /\ t[3] = "start"
        /\ \A i \in 4..Len(s) + 2 : t[i] = s[i - 2]
    <2>1. a \in Ops /\ "stop" \in Ops /\ "start" \in Ops
      BY <1>1 DEF Ops
    <2> HIDE DEF a
    <2> QED BY <2>1, ExpandedIs, TailIs
  <1> HIDE DEF t, a
  <1>3. ASSUME NEW i \in 2..Len(s) PROVE s[i] \notin {"stop", "clear", "resume"}
    <2>1. s[i] # "resume"
      BY DEF Has
    <2> QED BY <1>1, <1>2, <2>1 DEF InOrder
  <1>4. ASSUME NEW i \in 1..Len(t)
        PROVE  /\ t[i] = "stop" => i = 1
               /\ t[i] = "start" => i = 1 \/ t[i - 1] \in Dialogs
               /\ t[i] = "clear" => i = 1 \/ (i = 2 /\ t[1] = "stop")
               /\ t[i] \in Dialogs => \/ i = 1
                                      \/ t[i - 1] = "stop"
                                      \/ Has(t, "resume") /\ t[i - 1] \in {"command", "ask"}
               /\ t[i] = "resume" => \A j \in i + 1..Len(t) : t[j] = "status"
               /\ t[i] \in {"resume", "clear"} => ~Has(t, "start")
    <2>1. CASE i \in 1..3
      BY <1>1, <1>2, <2>1 DEF Dialogs
    <2>2. CASE i = 4
      <3>1. t[4] = s[2] /\ 2 \in 2..Len(s) /\ 2 - 1 = 1
        BY <1>2, <2>2
      <3>2. s[2] # "start" /\ s[2] \notin Dialogs
        BY <1>1, <3>1 DEF InOrder, Dialogs, Has
      <3>3. t[i] \notin {"stop", "start", "clear", "resume"} /\ t[i] \notin Dialogs
        BY <1>3, <2>2, <3>1, <3>2
      <3> QED BY <3>3
    <2>3. CASE i > 4
      <3>1. /\ t[i] = s[i - 2] /\ t[i - 1] = s[i - 3] /\ i - 2 \in 2..Len(s)
            /\ (i - 2) - 1 = i - 3 /\ i - 2 # 1
        <4>1. i \in Int /\ i \in 4..Len(s) + 2 /\ i - 1 \in 4..Len(s) + 2
          BY <1>2, <2>3
        <4>2. t[i] = s[i - 2] /\ t[i - 1] = s[(i - 1) - 2]
          BY <1>2, <4>1
        <4>3. (i - 1) - 2 = i - 3 /\ (i - 2) - 1 = i - 3 /\ i - 2 # 1 /\ i - 2 \in 2..Len(s)
          BY <1>2, <2>3
        <4> QED BY <4>2, <4>3
      <3>2. s[i - 2] = "start" => s[i - 3] \in Dialogs
        BY <1>2, <3>1 DEF InOrder
      <3>3. s[i - 2] \in Dialogs => s[i - 3] = "stop"
        BY <1>2, <3>1 DEF InOrder
      <3> QED BY <1>3, <3>1, <3>2, <3>3
    <2> QED BY <2>1, <2>2, <2>3, <1>2
  <1> QED BY <1>4 DEF InOrder, t, a

\* What ends reset() becomes a start or a stop.
LEMMA ResumedInOrder ==
  ASSUME NEW s \in Seq(Ops), s # <<>>, InOrder(s), Head(s) = "resume",
         NEW a \in {"start", "stop"}
  PROVE  /\ InOrder(<<a>> \o Tail(s))
         /\ \A op \in Ops : Has(Tail(s), op) => op = "status"
  <1> DEFINE t == <<a>> \o Tail(s)
  <1>1. a \in Ops /\ s[1] = "resume" /\ Len(s) \in Nat \ {0}
    BY TailIs DEF Ops
  <1>2. \A i \in 2..Len(s) : s[i] = "status"
    BY <1>1 DEF InOrder
  <1>3. Len(t) = Len(s) /\ t[1] = a /\ \A i \in 2..Len(s) : t[i] = "status"
    BY <1>1, <1>2, ReplacedIs
  <1> HIDE DEF t
  <1>4. InOrder(t)
    BY <1>1, <1>3 DEF InOrder, Dialogs
  <1>5. ASSUME NEW op \in Ops, Has(Tail(s), op) PROVE op = "status"
    <2>1. PICK i \in 1..Len(Tail(s)) : Tail(s)[i] = op
      BY <1>5 DEF Has
    <2> QED BY <1>1, <1>2, <2>1, TailIs
  <1> QED BY <1>4, <1>5 DEF t

\* Every call begins in order.
LEMMA CallsInOrder ==
  /\ InOrder(<<>>)
  /\ \A a \in {"start", "stop", "status"} : InOrder(<<a>>)
  /\ InOrder(<<"stop", "send">>) /\ InOrder(<<"stop", "send", "start">>)
  /\ InOrder(<<"params", "status">>) /\ InOrder(<<"command", "status">>)
  /\ InOrder(<<"stop", "clear", "params", "status">>)
  /\ InOrder(<<"stop", "command", "send", "params", "command", "status", "resume", "status">>)
  <1>1. InOrder(<<>>)
    BY DEF InOrder
  <1>2. \A a \in {"start", "stop", "status"} : InOrder(<<a>>)
    BY DEF InOrder, Has, Dialogs
  <1>3. InOrder(<<"stop", "send">>)
    BY DEF InOrder, Has, Dialogs
  <1>4. InOrder(<<"stop", "send", "start">>)
    BY DEF InOrder, Has, Dialogs
  <1>5. InOrder(<<"params", "status">>) /\ InOrder(<<"command", "status">>)
    BY DEF InOrder, Has, Dialogs
  <1>6. InOrder(<<"stop", "clear", "params", "status">>)
    BY DEF InOrder, Has, Dialogs
  <1>7. InOrder(<<"stop", "command", "send", "params", "command", "status", "resume",
                  "status">>)
    <2> DEFINE s == <<"stop", "command", "send", "params", "command", "status", "resume",
                      "status">>
    <2>1. /\ Len(s) = 8 /\ s[1] = "stop" /\ s[2] = "command" /\ s[3] = "send"
          /\ s[4] = "params" /\ s[5] = "command" /\ s[6] = "status" /\ s[7] = "resume"
          /\ s[8] = "status"
      OBVIOUS
    <2> HIDE DEF s
    <2>2. Has(s, "resume") /\ ~Has(s, "start")
      BY <2>1 DEF Has
    <2> QED BY <2>1, <2>2 DEF InOrder, Dialogs, s
  <1> QED BY <1>1, <1>2, <1>3, <1>4, <1>5, <1>6, <1>7

\* What comes next when the head of the list is done.
LEMMA SecondIs ==
  ASSUME NEW s \in Seq(Ops), s # <<>>, InOrder(s), Tail(s) # <<>>
  PROVE  /\ Head(Tail(s)) # "stop"
         /\ Head(Tail(s)) \in Dialogs =>
              Head(s) = "stop" \/ (Has(s, "resume") /\ Head(s) \in {"command", "ask"})
         /\ Head(Tail(s)) = "clear" => Head(s) = "stop"
  <1>1. Tail(s) \in Seq(Ops) /\ Len(Tail(s)) = Len(s) - 1
    BY TailIs
  <1>2. Len(Tail(s)) \in Nat \ {0} /\ Head(Tail(s)) = Tail(s)[1]
    BY <1>1, TailIs
  <1>3. Head(s) = s[1] /\ Tail(s)[1] = s[2] /\ 2 \in 1..Len(s) /\ 2 - 1 = 1
    BY <1>1, <1>2, TailIs
  <1> QED BY <1>2, <1>3 DEF InOrder

LEMMA StartOrResume ==
  ASSUME NEW s, InOrder(s), Has(s, "resume") \/ Has(s, "clear")
  PROVE  ~Has(s, "start")
  BY DEF InOrder, Has

-----------------------------------------------------------------------------
(***************************************************************************)
(* No crosstalk, and Acquire tells the truth.  While nothing is disturbed  *)
(* the threads pass through a few settled states: all is off, or all is    *)
(* on, or one of the three is in the middle of a hand-over.                *)
(***************************************************************************)
Off == acquiring = 0 /\ readingActive = 0 /\ ~event /\ reader = "asleep" /\ ~running

\* With a meter that does not stop by itself, it runs, or it is about to be told anew.
On ==
  /\ acquiring = 1 /\ readingActive = 1 /\ ~event /\ reader = "reading"
  /\ running \/ Counted \/ (todo # <<>> /\ Head(todo) \in {"params", "stop"})

Linked == online /\ waiting # "failed"

\* callbackTask in setAcquire(0): no call of the port thread is under way.
TaskHandsOver ==
  task = "stop" => todo = <<>> /\ acquiring = 0 /\ ~event /\ reader # "woken"

Settled == (waiting = "no" /\ task = "idle") => Off \/ On

StopHandsOver ==
  waiting = "stop" => Head(todo) = "stop" /\ acquiring = 0 /\ ~event /\ reader # "woken"

StartHandsOver ==
  waiting = "start" =>
     /\ Head(todo) = "start"
     /\ \/ event /\ reader = "asleep" /\ acquiring = 0
        \/ ~event /\ reader = "woken" /\ acquiring = 0
        \/ ~event /\ reader = "reading" /\ acquiring = 1
     /\ running \/ Counted

TalksWhenOff ==
  (todo # <<>> /\ waiting = "no" /\ Head(todo) \in Dialogs \union {"clear"}) => Off

ResetsWhenOff == (todo # <<>> /\ Has(todo, "resume") /\ Head(todo) # "stop") => Off

\* Acquire is what the driver does, or what its list is to end in.
AcquireFollows ==
  (task = "idle" /\ ~Has(todo, "clear") /\ ~Has(todo, "resume")) =>
     (acquire = 1 <=> \/ acquiring = 1 /\ (todo = <<>> \/ Head(todo) # "stop")
                      \/ Has(todo, "start"))

HandOver == Linked /\ TaskHandsOver /\ Settled /\ StopHandsOver /\ StartHandsOver
Lists == InOrder(todo) /\ TalksWhenOff /\ ResetsWhenOff /\ AcquireFollows

Quiet == TypeOK /\ (Undisturbed => HandOver /\ Lists)

LEMMA FailuresStay ==
  ASSUME TypeOK, failures' = 0
  PROVE  AcqOff \/ Answered \/ Fails => failures = 0
  <1>1. failures \in Nat
    BY DEF TypeOK
  <1>2. Answered \/ Fails => failures = 0
    BY <1>1 DEF Answered, Fails
  <1> QED BY <1>2 DEF AcqOff

\* What is undisturbed after a step was so before it.
LEMMA StaysDisturbed ==
  ASSUME TypeOK, [Next]_vars, Undisturbed'
  PROVE  Undisturbed
  <1> USE DEF Undisturbed, TypeOK, driver, control, port, link
  <1>1. CASE Reader
    BY <1>1 DEF Reader, ReaderWakes, ReaderStarts, ReaderReads, ReaderReadsNothing
  <1>2. CASE Port
    <2>1. CASE PortStop
      BY <2>1, FailuresStay DEF PortStop
    <2>2. CASE PortStopped
      BY <2>2, FailuresStay DEF PortStopped, AcqOffAndFlag
    <2>3. CASE PortStart
      BY <2>3, FailuresStay DEF PortStart, AcqOn
    <2>4. CASE PortStarted \/ PortPrepares \/ PortSets
      BY <2>4 DEF PortStarted, PortPrepares, PortSets
    <2>5. CASE PortTalks
      BY <2>5, FailuresStay DEF PortTalks
    <2> QED BY <1>2, <2>1, <2>2, <2>3, <2>4, <2>5 DEF Port
  <1>3. CASE Client
    BY <1>3 DEF Client, WriteAcquire, WriteAcquireMode, WriteSetting, WriteBias,
      WriteReset, Report, WriteReadStatus, Call
  <1>4. CASE Task
    <2>1. CASE TaskDelivers
      BY <2>1 DEF TaskDelivers
    <2>2. CASE TaskStops
      BY <2>2, FailuresStay DEF TaskStops
    <2>3. CASE TaskStopped
      BY <2>3, FailuresStay DEF TaskStopped, AcqOffAndFlag
    <2> QED BY <1>4, <2>1, <2>2, <2>3 DEF Task
  <1>5. CASE MeterStops \/ LinkChanges
    BY <1>5 DEF MeterStops, LinkChanges
  <1>6. CASE UNCHANGED vars
    BY <1>6 DEF vars
  <1> QED BY <1>1, <1>2, <1>3, <1>4, <1>5, <1>6 DEF Next

\* While the link holds and no dialog fails, every dialog is answered.
LEMMA QuietDialogs ==
  ASSUME TypeOK, online, Undisturbed, Undisturbed'
  PROVE  /\ ~Fails
         /\ AcqOff => ~running' /\ heard'
         /\ \A failed \in BOOLEAN : AcqOn(failed) => running' /\ ~failed
  <1>1. ~Fails
    BY ConstAssumption DEF TypeOK, Undisturbed, Fails
  <1> QED BY <1>1 DEF AcqOff, AcqOn

\* A step between two undisturbed states.
QuietStep ==
  /\ TypeOK /\ Undisturbed /\ HandOver /\ Lists
  /\ TypeOK' /\ Undisturbed'

LEMMA ReaderQuiet == ASSUME QuietStep, Reader PROVE HandOver' /\ Lists'
  <1> USE DEF QuietStep, HandOver, Linked, TaskHandsOver, Settled, StopHandsOver,
              StartHandsOver, control, port, link
  <1>1. CASE ReaderWakes
    <2>1. waiting = "start" /\ task = "idle" /\ reader = "asleep" /\ acquiring = 0
      BY <1>1 DEF ReaderWakes, Off, On, TypeOK
    <2>2. HandOver'
      BY <1>1, <2>1 DEF ReaderWakes, Counted
    <2>3. Lists'
      BY <1>1, <2>1 DEF ReaderWakes, Lists, TalksWhenOff, ResetsWhenOff, AcquireFollows, Off
    <2> QED BY <2>2, <2>3
  <1>2. CASE ReaderStarts
    <2>1. waiting = "start" /\ task = "idle" /\ ~event /\ acquiring = 0
      BY <1>2 DEF ReaderStarts, Off, On, TypeOK
    <2>2. Head(todo) = "start" /\ todo # <<>> /\ todo \in Seq(Ops)
      BY <2>1 DEF TypeOK
    <2>3. Has(todo, "start")
      BY <2>2, HasTail
    <2>4. HandOver'
      BY <1>2, <2>1 DEF ReaderStarts, Counted
    <2>5. AcquireFollows'
      BY <1>2, <2>1, <2>2, <2>3 DEF ReaderStarts, Lists, AcquireFollows
    <2>6. (InOrder(todo) /\ TalksWhenOff /\ ResetsWhenOff)'
      BY <1>2, <2>1 DEF ReaderStarts, Lists, TalksWhenOff, ResetsWhenOff, Off
    <2> QED BY <2>4, <2>5, <2>6 DEF Lists
  <1>3. CASE ReaderReads \/ ReaderReadsNothing
    <2>1. /\ reader = "reading" /\ LockFree /\ ReaderLoops
          /\ UNCHANGED <<acquiring, event, acquire, mode, numAcquire, numAcquired, todo,
                         waiting, task, running, online, failures, outages, heard>>
      BY <1>3 DEF ReaderReads, ReaderReadsNothing
    <2>2. acquiring = 0 \/ UNCHANGED <<readingActive, reader>>
      BY <2>1 DEF ReaderLoops, TypeOK
    <2>3. acquiring = 0 => waiting = "stop" \/ task = "stop"
      BY <2>1 DEF Off, On, TypeOK
    <2>4. ~Off
      BY <2>1 DEF Off
    <2>5. HandOver'
      <3>1. CASE acquiring = 0
        BY <2>1, <2>3, <3>1 DEF ReaderLoops, TypeOK
      <3>2. CASE UNCHANGED <<readingActive, reader>>
        BY <2>1, <3>2 DEF Off, On, Counted
      <3> QED BY <2>2, <3>1, <3>2
    <2>6. Lists'
      BY <2>1, <2>4 DEF Lists, TalksWhenOff, ResetsWhenOff, AcquireFollows
    <2> QED BY <2>5, <2>6
  <1> QED BY <1>1, <1>2, <1>3 DEF Reader

LEMMA TaskQuiet == ASSUME QuietStep, Task PROVE HandOver' /\ Lists'
  <1> USE DEF QuietStep, HandOver, Linked, TaskHandsOver, Settled, StopHandsOver,
              StartHandsOver, driver, control, port, link
  <1>1. CASE TaskDelivers
    BY <1>1 DEF TaskDelivers, Lists, TalksWhenOff, ResetsWhenOff, AcquireFollows, Off, On,
      Counted
  <1>2. CASE TaskStops
    <2>1. waiting = "no" /\ todo = <<>> /\ UNCHANGED <<todo, waiting>>
      BY <1>2 DEF TaskStops, Undisturbed, LockFree, PortHasLock
    <2>2. \A op : ~Has(<<>>, op)
      BY DEF Has
    <2>3. AcqOff => ~running'
      BY QuietDialogs
    <2>4. CASE readingActive = 0
      <3>1. Off
        BY <1>2, <2>1, <2>4 DEF TaskStops, Off, On
      <3>2. Off' /\ acquire' = 0 /\ UNCHANGED <<task, online>>
        BY <1>2, <2>3, <2>4, <3>1 DEF TaskStops, Off
      <3> QED BY <1>2, <2>1, <2>2, <3>2, CallsInOrder
             DEF TaskStops, Lists, TalksWhenOff, ResetsWhenOff, AcquireFollows, Off
    <2>5. CASE readingActive = 1
      <3>1. On
        BY <1>2, <2>1, <2>5 DEF TaskStops, Off, On
      <3>2. task' = "stop" /\ acquiring' = 0 /\ UNCHANGED <<event, reader, online>>
        BY <1>2, <2>5 DEF TaskStops
      <3> QED BY <2>1, <2>2, <3>1, <3>2, CallsInOrder
             DEF Lists, TalksWhenOff, ResetsWhenOff, AcquireFollows, On
    <2> QED BY <2>4, <2>5 DEF TypeOK
  <1>3. CASE TaskStopped
    <2>1. todo = <<>> /\ waiting = "no" /\ UNCHANGED <<todo, waiting, online>>
      BY <1>3 DEF TaskStopped, TypeOK
    <2>2. \A op : ~Has(<<>>, op)
      BY DEF Has
    <2>3. ~running' /\ heard'
      BY <1>3, QuietDialogs DEF TaskStopped, AcqOffAndFlag
    <2>4. Off' /\ acquire' = 0
      BY <1>3, <2>3 DEF TaskStopped, AcqOffAndFlag, Off, TypeOK
    <2>5. HandOver'
      BY <2>1, <2>4 DEF Off
    <2>6. Lists'
      BY <2>1, <2>2, <2>4, CallsInOrder
      DEF Lists, TalksWhenOff, ResetsWhenOff, AcquireFollows, Off
    <2> QED BY <2>5, <2>6
  <1> QED BY <1>1, <1>2, <1>3 DEF Task

\* The list of the port thread: what it is after a step, and what then comes first.
LEMMA PoppedIs ==
  ASSUME QuietStep, todo # <<>>, Pop
  PROVE  /\ todo \in Seq(Ops) /\ todo' \in Seq(Ops) /\ InOrder(todo')
         /\ \A op : Has(todo, op) <=> (Head(todo) = op \/ Has(todo', op))
         /\ todo' # <<>> => /\ Head(todo') # "stop"
                            /\ Head(todo') \in Dialogs =>
                                 \/ Head(todo) = "stop"
                                 \/ Has(todo, "resume") /\ Head(todo) \in {"command", "ask"}
                            /\ Head(todo') = "clear" => Head(todo) = "stop"
  BY HasTail, TailInOrder, SecondIs, TailIs DEF QuietStep, TypeOK, Lists, Pop

\* setAcquire(0) has turned the meter off.
LEMMA StoppedQuiet ==
  ASSUME QuietStep, todo # <<>>, Head(todo) = "stop", Pop, task = "idle",
         Off', online', waiting' = "no", task' = "idle", acquire' = acquire, acquiring = 0 \/ Off
  PROVE  HandOver' /\ Lists'
  <1>1. HandOver'
    BY DEF HandOver, Linked, TaskHandsOver, Settled, StopHandsOver, StartHandsOver
  <1>2. AcquireFollows'
    BY PoppedIs DEF QuietStep, Lists, AcquireFollows, Off
  <1> QED BY <1>1, <1>2, PoppedIs DEF Lists, TalksWhenOff, ResetsWhenOff

LEMMA PortStopQuiet == ASSUME QuietStep, PortStop PROVE HandOver' /\ Lists'
  <1>1. /\ todo # <<>> /\ waiting = "no" /\ task = "idle" /\ online /\ Head(todo) = "stop"
        /\ Off \/ On
    BY DEF QuietStep, HandOver, Linked, TaskHandsOver, Settled, PortStop, PortHasLock, TypeOK
  <1>2. CASE readingActive = 0
    <2>1. Off
      BY <1>1, <1>2 DEF On
    <2>2. Pop /\ AcqOff /\ acquiring' = 0 /\ UNCHANGED <<waiting, event, reader, readingActive,
                                                        task, online, acquire>>
      BY <1>1, <1>2 DEF PortStop, control
    <2>3. ~running'
      BY <1>1, <2>2, QuietDialogs DEF QuietStep
    <2>4. Off'
      BY <2>1, <2>2, <2>3 DEF Off
    <2> QED BY <1>1, <2>1, <2>2, <2>4, StoppedQuiet
  <1>3. CASE readingActive = 1
    <2>1. On
      BY <1>1, <1>3 DEF Off
    <2>2. waiting' = "stop" /\ acquiring' = 0
            /\ UNCHANGED <<todo, running, event, reader, task, online, acquire>>
      BY <1>1, <1>3 DEF PortStop, control
    <2>3. HandOver'
      BY <1>1, <2>1, <2>2
      DEF On, HandOver, Linked, TaskHandsOver, Settled, StopHandsOver, StartHandsOver
    <2>4. Lists'
      BY <1>1, <2>1, <2>2
      DEF QuietStep, Lists, TalksWhenOff, ResetsWhenOff, AcquireFollows, On
    <2> QED BY <2>3, <2>4
  <1> QED BY <1>2, <1>3 DEF QuietStep, TypeOK

LEMMA PortStoppedQuiet == ASSUME QuietStep, PortStopped PROVE HandOver' /\ Lists'
  <1>1. /\ todo # <<>> /\ task = "idle" /\ online /\ Head(todo) = "stop"
        /\ acquiring = 0 /\ ~event /\ reader = "asleep"
    BY DEF QuietStep, HandOver, Linked, TaskHandsOver, StopHandsOver, PortStopped, TypeOK
  <1>2. ~running' /\ heard'
    BY <1>1, QuietDialogs DEF QuietStep, PortStopped, AcqOffAndFlag
  <1>3. Off'
    BY <1>1, <1>2 DEF Off, PortStopped, AcqOffAndFlag
  <1> QED BY <1>1, <1>3, StoppedQuiet DEF PortStopped, control

LEMMA PortStartQuiet == ASSUME QuietStep, PortStart PROVE HandOver' /\ Lists'
  <1>1. /\ todo # <<>> /\ waiting = "no" /\ task = "idle" /\ online /\ Head(todo) = "start"
        /\ Off \/ On
    BY DEF QuietStep, HandOver, Linked, TaskHandsOver, Settled, PortStart, PortHasLock, TypeOK
  <1>2. Has(todo, "start") /\ ~Has(todo, "resume") /\ ~Has(todo, "clear")
    BY <1>1, HasTail, StartOrResume DEF QuietStep, TypeOK, Lists
  <1>3. CASE acquiring = 1
    <2>1. On /\ (running \/ Counted)
      BY <1>1, <1>3 DEF Off, On
    <2>2. Pop /\ UNCHANGED <<running, mode, waiting, event, reader, readingActive, acquiring,
                             task, online, acquire>>
      BY <1>3 DEF PortStart
    <2>3. HandOver'
      BY <1>1, <2>1, <2>2
      DEF HandOver, Linked, TaskHandsOver, Settled, StopHandsOver, StartHandsOver, On, Counted
    <2>4. todo' # <<>> => Head(todo') \notin Dialogs \union {"stop", "clear"}
      BY <1>1, <1>2, <2>2, PoppedIs
    <2>5. (InOrder(todo) /\ TalksWhenOff /\ ResetsWhenOff)'
      BY <1>1, <1>2, <2>2, <2>4, PoppedIs DEF TalksWhenOff, ResetsWhenOff
    <2>6. acquire = 1
      BY <1>1, <1>2 DEF QuietStep, Lists, AcquireFollows
    <2>7. AcquireFollows'
      BY <1>3, <2>2, <2>4, <2>6 DEF AcquireFollows
    <2> QED BY <2>3, <2>5, <2>7 DEF Lists
  <1>4. CASE acquiring = 0
    <2>1. Off
      BY <1>1, <1>4 DEF On
    <2>2. PICK failed \in BOOLEAN :
             /\ AcqOn(failed)
             /\ waiting' = (IF failed THEN "failed" ELSE "start")
             /\ event' = TRUE
             /\ UNCHANGED <<todo, mode, reader, readingActive, acquiring, task, online, acquire>>
      BY <1>1, <1>4, <2>1 DEF PortStart, Off
    <2>3. running' /\ ~failed
      BY <1>1, <2>2, QuietDialogs DEF QuietStep
    <2>4. HandOver'
      BY <1>1, <2>1, <2>2, <2>3
      DEF HandOver, Linked, TaskHandsOver, Settled, StopHandsOver, StartHandsOver, Off
    <2>5. Lists'
      BY <1>1, <1>2, <2>1, <2>2, <2>3
      DEF QuietStep, Lists, TalksWhenOff, ResetsWhenOff, AcquireFollows, Off
    <2> QED BY <2>4, <2>5
  <1> QED BY <1>3, <1>4 DEF QuietStep, TypeOK

LEMMA PortStartedQuiet == ASSUME QuietStep, PortStarted PROVE HandOver' /\ Lists'
  <1>1. /\ todo # <<>> /\ waiting = "start" /\ task = "idle" /\ online
        /\ Head(todo) = "start" /\ readingActive = 1 /\ reader = "reading"
        /\ acquiring = 1 /\ ~event /\ (running \/ Counted)
    BY DEF QuietStep, HandOver, Linked, TaskHandsOver, StartHandsOver, PortStarted, TypeOK
  <1>2. Has(todo, "start") /\ ~Has(todo, "resume") /\ ~Has(todo, "clear")
    BY <1>1, HasTail, StartOrResume DEF QuietStep, TypeOK, Lists
  <1>3. Pop /\ waiting' = "no" /\ UNCHANGED <<running, mode, event, reader, readingActive,
                                             acquiring, task, online, acquire>>
    BY <1>1 DEF PortStarted, control, link
  <1>4. HandOver'
    BY <1>1, <1>3
    DEF HandOver, Linked, TaskHandsOver, Settled, StopHandsOver, StartHandsOver, On, Counted
  <1>5. todo' # <<>> => Head(todo') \notin Dialogs \union {"stop", "clear"}
    BY <1>1, <1>2, <1>3, PoppedIs
  <1>6. (InOrder(todo) /\ TalksWhenOff /\ ResetsWhenOff)'
    BY <1>1, <1>2, <1>3, <1>5, PoppedIs DEF TalksWhenOff, ResetsWhenOff
  <1>7. acquire = 1
    BY <1>1, <1>2 DEF QuietStep, Lists, AcquireFollows
  <1>8. AcquireFollows'
    BY <1>1, <1>3, <1>5, <1>7 DEF AcquireFollows
  <1> QED BY <1>4, <1>6, <1>8 DEF Lists

LEMMA PortPreparesQuiet == ASSUME QuietStep, PortPrepares PROVE HandOver' /\ Lists'
  <1>1. /\ todo # <<>> /\ todo \in Seq(Ops) /\ waiting = "no" /\ task = "idle" /\ online
        /\ Head(todo) \in DOMAIN Dialog
        /\ Off \/ On
        /\ UNCHANGED <<running, mode, waiting, event, reader, readingActive, acquiring,
                       task, online, acquire>>
    BY DEF QuietStep, HandOver, Linked, TaskHandsOver, Settled, PortPrepares, PortHasLock,
           TypeOK, control, driver, link
  <1>2. Head(todo) \in {"params", "command", "status"} /\ InOrder(todo)
    BY <1>1, DialogValues DEF QuietStep, Lists
  <1> DEFINE a == Dialog[Head(todo)]
  <1>3. a \in Dialogs /\ a \in Ops
    BY <1>2, DialogValues DEF Dialogs, Ops
  <1>4. CASE acquiring = 1
    <2>1. On
      BY <1>1, <1>4 DEF Off
    <2>2. ~Has(todo, "resume")
      BY <1>1, <1>2, <1>4 DEF QuietStep, Lists, ResetsWhenOff, Off
    <2>3. todo' = <<"stop", a, "start">> \o Tail(todo)
      BY <1>4 DEF PortPrepares
    <2>4. "stop" \in Ops /\ "start" \in Ops
      BY DEF Ops
    <2> HIDE DEF a
    <2>5. todo' # <<>> /\ todo' \in Seq(Ops) /\ Head(todo') = "stop"
      BY <1>1, <1>3, <2>3, <2>4, ExpandedIs, TailIs
    <2>6. \A op : Has(todo', op) <=> (op \in {"stop", a, "start"} \/ Has(Tail(todo), op))
      BY <1>1, <1>3, <2>3, <2>4, HasExpanded
    <2>7. InOrder(todo')
      BY <1>1, <1>2, <2>2, <2>3, ExpandedInOrder DEF a
    <2>8. HandOver'
      BY <1>1, <2>1, <2>5
      DEF HandOver, Linked, TaskHandsOver, Settled, StopHandsOver, StartHandsOver, On, Counted
    <2>9. AcquireFollows'
      <3>1. ASSUME ~Has(todo', "clear"), ~Has(todo', "resume") PROVE acquire = 1
        <4>1. ~Has(todo, "clear") /\ ~Has(todo, "resume")
          BY <1>1, <1>2, <2>6, <3>1, HasTail
        <4> QED BY <1>1, <1>2, <1>4, <4>1 DEF QuietStep, Lists, AcquireFollows
      <3>2. Has(todo', "start")
        BY <2>6
      <3> QED BY <1>1, <3>1, <3>2 DEF AcquireFollows
    <2> QED BY <2>5, <2>7, <2>8, <2>9 DEF Lists, TalksWhenOff, ResetsWhenOff, Dialogs
  <1>5. CASE acquiring = 0
    <2>1. Off /\ Off'
      BY <1>1, <1>5 DEF On, Off
    <2>2. todo' = <<a>> \o Tail(todo)
      BY <1>5 DEF PortPrepares
    <2> HIDE DEF a
    <2>3. todo' # <<>> /\ todo' \in Seq(Ops) /\ Head(todo') = a
      BY <1>1, <1>3, <2>2, ReplacedIs, TailIs
    <2>4. \A op : Has(todo', op) <=> (op = a \/ Has(Tail(todo), op))
      BY <1>1, <1>3, <2>2, HasReplaced
    <2>5. \A op \in {"start", "clear", "resume"} : Has(todo', op) <=> Has(todo, op)
      BY <1>1, <1>2, <1>3, <2>4, HasTail DEF Dialogs
    <2>6. InOrder(todo')
      BY <1>1, <1>2, <2>2, ReplacedInOrder DEF a
    <2>7. HandOver'
      BY <1>1, <2>1
      DEF HandOver, Linked, TaskHandsOver, Settled, StopHandsOver, StartHandsOver
    <2>8. AcquireFollows'
      BY <1>1, <1>5, <2>5 DEF QuietStep, Lists, AcquireFollows
    <2> QED BY <2>1, <2>6, <2>7, <2>8 DEF Lists, TalksWhenOff, ResetsWhenOff
  <1> QED BY <1>4, <1>5 DEF QuietStep, TypeOK

LEMMA PortTalksQuiet == ASSUME QuietStep, PortTalks PROVE HandOver' /\ Lists'
  <1>1. /\ todo # <<>> /\ waiting = "no" /\ task = "idle" /\ online
        /\ Head(todo) \in Dialogs
        /\ UNCHANGED <<running, waiting, event, reader, readingActive, acquiring,
                       task, online, acquire>>
    BY DEF QuietStep, HandOver, Linked, TaskHandsOver, PortTalks, PortHasLock,
           TypeOK, control, driver, Dialogs
  <1>2. Off /\ Off'
    BY <1>1 DEF QuietStep, Lists, TalksWhenOff, Off
  <1>3. Pop
    BY <1>1, QuietDialogs DEF QuietStep, PortTalks
  <1>4. HandOver'
    BY <1>1, <1>2
    DEF HandOver, Linked, TaskHandsOver, Settled, StopHandsOver, StartHandsOver
  <1>5. \A op \in {"start", "clear", "resume"} : Has(todo', op) <=> Has(todo, op)
    BY <1>1, <1>3, PoppedIs DEF Dialogs
  <1>6. AcquireFollows'
    BY <1>1, <1>2, <1>5 DEF QuietStep, Lists, AcquireFollows, Off
  <1> QED BY <1>1, <1>2, <1>3, <1>4, <1>6, PoppedIs DEF Lists, TalksWhenOff, ResetsWhenOff

LEMMA PortSetsQuiet == ASSUME QuietStep, PortSets PROVE HandOver' /\ Lists'
  <1>1. /\ todo # <<>> /\ todo \in Seq(Ops) /\ waiting = "no" /\ task = "idle" /\ online
        /\ InOrder(todo)
        /\ UNCHANGED <<running, waiting, event, reader, readingActive, acquiring,
                       task, online>>
    BY DEF QuietStep, HandOver, Linked, TaskHandsOver, PortSets, PortHasLock,
           TypeOK, driver, link, Lists
  <1>2. CASE Head(todo) = "resume"
    <2>1. Has(todo, "resume")
      BY <1>1, <1>2, HasTail
    <2>2. Off /\ Off'
      BY <1>1, <1>2, <2>1 DEF QuietStep, Lists, ResetsWhenOff, Off
    <2> DEFINE a == IF acquire = 1 THEN "start" ELSE "stop"
    <2>3. a \in {"start", "stop"} /\ a \in Ops /\ (a = "start" <=> acquire = 1)
      BY DEF Ops
    <2>4. todo' = <<a>> \o Tail(todo) /\ acquire' = acquire
      BY <1>2 DEF PortSets
    <2> HIDE DEF a
    <2>5. todo' # <<>> /\ todo' \in Seq(Ops) /\ Head(todo') = a
      BY <1>1, <2>3, <2>4, ReplacedIs, TailIs
    <2>6. \A op : Has(todo', op) <=> (op = a \/ Has(Tail(todo), op))
      BY <1>1, <2>3, <2>4, HasReplaced
    <2>7. InOrder(todo') /\ \A op \in Ops : Has(Tail(todo), op) => op = "status"
      BY <1>1, <1>2, <2>3, <2>4, ResumedInOrder
    <2>8. ~Has(todo', "resume") /\ ~Has(todo', "clear") /\ (Has(todo', "start") <=> acquire = 1)
      BY <2>3, <2>6, <2>7 DEF Ops
    <2>9. HandOver'
      BY <1>1, <2>2
      DEF HandOver, Linked, TaskHandsOver, Settled, StopHandsOver, StartHandsOver
    <2>10. AcquireFollows'
      BY <2>2, <2>4, <2>8 DEF AcquireFollows, Off
    <2> QED BY <2>2, <2>7, <2>9, <2>10 DEF Lists, TalksWhenOff, ResetsWhenOff
  <1>3. CASE Head(todo) = "clear"
    <2>1. Pop /\ acquire' = 0
      BY <1>3 DEF PortSets
    <2>2. Off /\ Off'
      BY <1>1, <1>3 DEF QuietStep, Lists, TalksWhenOff, Off
    <2>3. ~Has(todo', "start")
      BY <1>1, <1>3, <2>1, PoppedIs, HasTail, StartOrResume
    <2>4. HandOver'
      BY <1>1, <2>2
      DEF HandOver, Linked, TaskHandsOver, Settled, StopHandsOver, StartHandsOver
    <2>5. AcquireFollows'
      BY <2>1, <2>2, <2>3 DEF AcquireFollows, Off
    <2> QED BY <1>1, <2>1, <2>2, <2>4, <2>5, PoppedIs DEF Lists, TalksWhenOff, ResetsWhenOff
  <1> QED BY <1>2, <1>3 DEF PortSets

\* A call that begins keeps the hand-overs: it finds all off or all on, and one that
\* changes the mode has parameters to send, or a stop to do, first.
LEMMA CallQuiet ==
  ASSUME QuietStep, NEW ops, Call(ops),
         UNCHANGED <<driver, reader, waiting, task, running, link>>,
         mode' = mode \/ Head(todo') \in {"params", "stop"},
         todo' # <<>>, Head(todo') \notin Dialogs \union {"clear"}
  PROVE  /\ HandOver' /\ TalksWhenOff'
         /\ todo = <<>> /\ task = "idle"
         /\ acquire = 1 <=> acquiring = 1
         /\ Off \/ On
  <1>1. /\ todo = <<>> /\ task = "idle" /\ waiting = "no" /\ online /\ (Off \/ On)
    BY DEF QuietStep, HandOver, Linked, TaskHandsOver, Settled, Call, Undisturbed, TypeOK
  <1>2. \A op : ~Has(<<>>, op)
    BY DEF Has
  <1>3. acquire = 1 <=> acquiring = 1
    BY <1>1, <1>2 DEF QuietStep, Lists, AcquireFollows
  <1>4. HandOver'
    BY <1>1 DEF HandOver, Linked, TaskHandsOver, Settled, StopHandsOver, StartHandsOver,
                Off, On, Counted, driver, link
  <1>5. TalksWhenOff'
    BY DEF TalksWhenOff
  <1> QED BY <1>1, <1>3, <1>4, <1>5

\* What the calls begin with, and what is in them.
LEMMA CallsHave ==
  /\ \A a \in {"start", "stop", "status"} :
       /\ <<a>> # <<>> /\ Head(<<a>>) = a /\ \A op : Has(<<a>>, op) <=> op = a
  /\ \A a \in {"params", "command"} :
       /\ <<a, "status">> # <<>> /\ Head(<<a, "status">>) = a
       /\ \A op : Has(<<a, "status">>, op) <=> op \in {a, "status"}
  /\ <<"stop", "send">> # <<>> /\ Head(<<"stop", "send">>) = "stop"
  /\ \A op : Has(<<"stop", "send">>, op) <=> op \in {"stop", "send"}
  /\ <<"stop", "send", "start">> # <<>> /\ Head(<<"stop", "send", "start">>) = "stop"
  /\ \A op : Has(<<"stop", "send", "start">>, op) <=> op \in {"stop", "send", "start"}
  /\ LET s == <<"stop", "clear", "params", "status">>
     IN  s # <<>> /\ Head(s) = "stop" /\ Has(s, "clear") /\ ~Has(s, "resume")
  /\ LET s == <<"stop", "command", "send", "params", "command", "status", "resume", "status">>
     IN  s # <<>> /\ Head(s) = "stop" /\ Has(s, "resume")
  <1>1. ASSUME NEW a
        PROVE  <<a>> # <<>> /\ Head(<<a>>) = a /\ \A op : Has(<<a>>, op) <=> op = a
    BY DEF Has
  <1>2. ASSUME NEW a
        PROVE  /\ <<a, "status">> # <<>> /\ Head(<<a, "status">>) = a
               /\ \A op : Has(<<a, "status">>, op) <=> op \in {a, "status"}
    BY DEF Has
  <1>3. /\ <<"stop", "send">> # <<>> /\ Head(<<"stop", "send">>) = "stop"
        /\ \A op : Has(<<"stop", "send">>, op) <=> op \in {"stop", "send"}
    BY DEF Has
  <1>4. /\ <<"stop", "send", "start">> # <<>> /\ Head(<<"stop", "send", "start">>) = "stop"
        /\ \A op : Has(<<"stop", "send", "start">>, op) <=> op \in {"stop", "send", "start"}
    BY DEF Has
  <1>5. LET s == <<"stop", "clear", "params", "status">>
        IN  s # <<>> /\ Head(s) = "stop" /\ Has(s, "clear") /\ ~Has(s, "resume")
    BY DEF Has
  <1>6. LET s == <<"stop", "command", "send", "params", "command", "status", "resume",
                   "status">>
        IN  s # <<>> /\ Head(s) = "stop" /\ Has(s, "resume")
    BY DEF Has
  <1> QED BY <1>1, <1>2, <1>3, <1>4, <1>5, <1>6

LEMMA ClientQuiet == ASSUME QuietStep, Client PROVE HandOver' /\ Lists'
  <1> USE DEF control
  <1>1. ASSUME NEW v \in {0, 1}, WriteAcquire(v) PROVE HandOver' /\ Lists'
    <2> DEFINE a == IF v = 1 THEN "start" ELSE "stop"
    <2>1. a \in {"start", "stop"} /\ (a = "start" <=> v = 1)
      OBVIOUS
    <2>2. Call(<<a>>) /\ todo' = <<a>> /\ acquire' = v
            /\ UNCHANGED <<driver, mode, reader, waiting, task, running, link>>
      BY <1>1 DEF WriteAcquire, Call
    <2> HIDE DEF a
    <2>3. todo' # <<>> /\ Head(todo') = a /\ InOrder(todo') /\ \A op : Has(todo', op) <=> op = a
      BY <2>1, <2>2, CallsHave, CallsInOrder
    <2>4. HandOver' /\ TalksWhenOff' /\ (Off \/ On)
      BY <2>1, <2>2, <2>3, CallQuiet DEF Dialogs
    <2>5. AcquireFollows' /\ ResetsWhenOff'
      BY <2>1, <2>2, <2>3, <2>4 DEF AcquireFollows, ResetsWhenOff, Off, On
    <2> QED BY <2>3, <2>4, <2>5 DEF Lists
  <1>2. ASSUME NEW m \in Modes, WriteAcquireMode(m) PROVE HandOver' /\ Lists'
    <2>1. UNCHANGED <<driver, acquire, reader, waiting, task, running, link>>
      BY <1>2 DEF WriteAcquireMode
    <2>2. CASE m = "Continuous"
      <3>1. Call(<<"params", "status">>) /\ todo' = <<"params", "status">>
        BY <1>2, <2>2 DEF WriteAcquireMode, Call
      <3>2. /\ todo' # <<>> /\ Head(todo') = "params" /\ InOrder(todo')
            /\ \A op : Has(todo', op) <=> op \in {"params", "status"}
        BY <3>1, CallsHave, CallsInOrder
      <3>3. HandOver' /\ TalksWhenOff' /\ (acquire = 1 <=> acquiring = 1)
        BY <2>1, <3>1, <3>2, CallQuiet DEF Dialogs
      <3>4. AcquireFollows' /\ ResetsWhenOff'
        BY <2>1, <3>2, <3>3 DEF AcquireFollows, ResetsWhenOff, driver
      <3> QED BY <3>2, <3>3, <3>4 DEF Lists
    <2>3. CASE m # "Continuous"
      <3> DEFINE s == <<"stop", "clear", "params", "status">>
      <3>1. Call(s) /\ todo' = s
        BY <1>2, <2>3 DEF WriteAcquireMode, Call
      <3>2. todo' # <<>> /\ Head(todo') = "stop" /\ InOrder(todo')
              /\ Has(todo', "clear") /\ ~Has(todo', "resume")
        BY <3>1, CallsHave, CallsInOrder
      <3> HIDE DEF s
      <3>3. HandOver' /\ TalksWhenOff'
        BY <2>1, <3>1, <3>2, CallQuiet DEF Dialogs
      <3> QED BY <3>2, <3>3 DEF Lists, AcquireFollows, ResetsWhenOff
    <2> QED BY <2>2, <2>3
  \* The calls that leave Acquire and the mode alone, and neither start nor stop.
  <1>3. ASSUME NEW a \in {"params", "command"}, Call(<<a, "status">>),
               UNCHANGED <<driver, acquire, mode, reader, waiting, task, running, link>>
        PROVE  HandOver' /\ Lists'
    <2>1. /\ todo' # <<>> /\ Head(todo') = a /\ InOrder(todo')
          /\ \A op : Has(todo', op) <=> op \in {a, "status"}
      BY <1>3, CallsHave, CallsInOrder DEF Call
    <2>2. HandOver' /\ TalksWhenOff' /\ (acquire = 1 <=> acquiring = 1)
      BY <1>3, <2>1, CallQuiet DEF Dialogs
    <2>3. AcquireFollows' /\ ResetsWhenOff'
      BY <1>3, <2>1, <2>2 DEF AcquireFollows, ResetsWhenOff, driver
    <2> QED BY <2>1, <2>2, <2>3 DEF Lists
  <1>4. ASSUME NEW k \in NumAcquires, WriteSetting(k) PROVE HandOver' /\ Lists'
    BY <1>3, <1>4 DEF WriteSetting
  <1>5. CASE WriteBias
    BY <1>3, <1>5 DEF WriteBias
  <1>6. CASE WriteReset
    <2> DEFINE s == <<"stop", "command", "send", "params", "command", "status", "resume",
                      "status">>
    <2>1. Call(s) /\ todo' = s /\ UNCHANGED <<driver, mode, reader, waiting, task, running, link>>
      BY <1>6 DEF WriteReset, Call
    <2>2. todo' # <<>> /\ Head(todo') = "stop" /\ InOrder(todo') /\ Has(todo', "resume")
      BY <2>1, CallsHave, CallsInOrder
    <2> HIDE DEF s
    <2>3. HandOver' /\ TalksWhenOff'
      BY <2>1, <2>2, CallQuiet DEF Dialogs
    <2> QED BY <2>2, <2>3 DEF Lists, AcquireFollows, ResetsWhenOff
  <1>7. CASE Report
    <2> DEFINE ops == <<"stop", "send">> \o IF acquiring = 1 THEN <<"start">> ELSE <<>>
    <2>1. Call(ops) /\ todo' = ops
            /\ UNCHANGED <<driver, acquire, mode, reader, waiting, task, running, link>>
      BY <1>7 DEF Report, Call
    <2>2. /\ todo' # <<>> /\ Head(todo') = "stop" /\ InOrder(todo')
          /\ \A op : Has(todo', op) <=>
               op \in {"stop", "send"} \/ (op = "start" /\ acquiring = 1)
      <3>1. CASE acquiring = 1
        <4>1. todo' = <<"stop", "send", "start">>
          BY <2>1, <3>1, ReportIs
        <4> QED BY <3>1, <4>1, CallsHave, CallsInOrder
      <3>2. CASE acquiring # 1
        <4>1. todo' = <<"stop", "send">>
          BY <2>1, <3>2, ReportIs
        <4> QED BY <3>2, <4>1, CallsHave, CallsInOrder
      <3> QED BY <3>1, <3>2
    <2> HIDE DEF ops
    <2>3. HandOver' /\ TalksWhenOff' /\ (acquire = 1 <=> acquiring = 1)
      BY <2>1, <2>2, CallQuiet DEF Dialogs
    <2>4. AcquireFollows' /\ ResetsWhenOff'
      BY <2>1, <2>2, <2>3 DEF AcquireFollows, ResetsWhenOff, driver
    <2> QED BY <2>2, <2>3, <2>4 DEF Lists
  <1>8. CASE WriteReadStatus
    <2>1. Call(<<"status">>) /\ todo' = <<"status">> /\ acquiring = 0
            /\ UNCHANGED <<driver, acquire, mode, reader, waiting, task, running, link>>
      BY <1>8 DEF WriteReadStatus, Call
    <2>2. todo' # <<>> /\ Head(todo') = "status" /\ InOrder(todo')
            /\ \A op : Has(todo', op) <=> op = "status"
      BY <2>1, CallsHave, CallsInOrder
    <2>3. HandOver' /\ TalksWhenOff' /\ (acquire = 1 <=> acquiring = 1)
      BY <2>1, <2>2, CallQuiet DEF Dialogs
    <2>4. AcquireFollows' /\ ResetsWhenOff'
      BY <2>1, <2>2, <2>3 DEF AcquireFollows, ResetsWhenOff, driver
    <2> QED BY <2>2, <2>3, <2>4 DEF Lists
  <1> QED BY <1>1, <1>2, <1>4, <1>5, <1>6, <1>7, <1>8 DEF Client

LEMMA NextQuiet == Quiet /\ [Next]_vars => Quiet'
  <1> SUFFICES ASSUME Quiet, [Next]_vars PROVE Quiet'
    OBVIOUS
  <1>1. TypeOK'
    BY NextType DEF Quiet
  <1> SUFFICES ASSUME Undisturbed' PROVE HandOver' /\ Lists'
    BY <1>1 DEF Quiet
  <1>2. QuietStep
    BY <1>1, StaysDisturbed DEF Quiet, QuietStep
  <1>3. CASE Port
    BY <1>2, <1>3, PortStopQuiet, PortStoppedQuiet, PortStartQuiet, PortStartedQuiet,
       PortPreparesQuiet, PortTalksQuiet, PortSetsQuiet DEF Port
  <1>4. CASE MeterStops
    BY <1>2, <1>4 DEF MeterStops, QuietStep, HandOver, Linked, TaskHandsOver, Settled,
      StopHandsOver, StartHandsOver, Lists, TalksWhenOff, ResetsWhenOff, AcquireFollows, Off, On,
      Counted, driver, control, port, link
  <1>5. CASE LinkChanges
    <2>1. online /\ outages \in Nat /\ outages' = 0
      BY <1>2 DEF QuietStep, HandOver, Linked, Undisturbed, TypeOK
    <2> QED BY <1>5, <2>1 DEF LinkChanges
  <1>6. CASE UNCHANGED vars
    BY <1>2, <1>6 DEF vars, QuietStep, HandOver, Linked, TaskHandsOver, Settled,
      StopHandsOver, StartHandsOver, Lists, TalksWhenOff, ResetsWhenOff, AcquireFollows, Off, On,
      Counted, driver, control, port, link
  <1> QED BY <1>2, <1>3, <1>4, <1>5, <1>6, ReaderQuiet, ClientQuiet, TaskQuiet DEF Next

\* The settled states and the order of the lists, as long as no dialog has failed, no link
\* has broken and callbackTask and the port thread have not met in setAcquire.
THEOREM QuietInvariance == Spec => []Quiet
  <1>1. Init => Quiet
    <2> SUFFICES ASSUME Init PROVE Quiet
      OBVIOUS
    <2>1. \A op : ~Has(<<>>, op)
      BY DEF Has
    <2> QED BY <2>1, InitType, CallsInOrder
        DEF Init, Quiet, HandOver, Linked, TaskHandsOver, Settled, StopHandsOver,
          StartHandsOver, Lists, TalksWhenOff, ResetsWhenOff, AcquireFollows, Off
  <1> QED BY <1>1, NextQuiet, PTL DEF Spec

\* What the meter sends is read by the read thread alone: no dialog of the port thread
\* meets a meter that still sends, and no meter is left sending to nobody.
THEOREM ReaderIsAlone == Spec => []OneReader
  <1>1. Quiet => NoCrossTalk
    BY DEF Quiet, NoCrossTalk, InDialog, PortHasLock, Lists, TalksWhenOff, Off, Dialogs
  <1> QED BY <1>1, QuietInvariance, NoReadingUnread, PTL DEF OneReader

\* At rest, Acquire says what the driver, the read thread and the meter do, whatever
\* settings were written, and however often the acquisition was stopped for them.
THEOREM AcquireTellsTheTruth == Spec => []AcquireIsTrue
  <1>1. Quiet => AcquireIsTrue
    <2> SUFFICES ASSUME Quiet, todo = <<>>, task = "idle", Undisturbed
                 PROVE  /\ acquire = acquiring /\ acquiring = readingActive
                        /\ running => acquire = 1
                        /\ (acquire = 1 /\ ~Counted) => running
      BY DEF AcquireIsTrue
    <2>1. \A op : ~Has(<<>>, op)
      BY DEF Has
    <2>2. waiting = "no" /\ (Off \/ On) /\ acquire \in {0, 1}
      BY DEF Quiet, HandOver, Settled, TypeOK
    <2>3. acquire = 1 <=> acquiring = 1
      BY <2>1 DEF Quiet, Lists, AcquireFollows
    <2> QED BY <2>2, <2>3 DEF Off, On
  <1> QED BY <1>1, QuietInvariance, PTL
=============================================================================
