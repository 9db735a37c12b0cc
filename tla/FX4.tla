-------------------------------- MODULE FX4 ---------------------------------
(***************************************************************************)
(* The driver of the FX4.  Readings and gate changes come in updates over  *)
(* a websocket, each update being the answer to a "get" request, and each  *)
(* update handled leads to the next request.  The websocket's thread       *)
(* merges the channels' lists and the gate's into one, in order of time,   *)
(* and decides by the trigger mode which readings count and where a batch  *)
(* ends.  It takes the driver's lock only to compute a reading, so that    *)
(* the port thread and callbackTask start and stop the acquisition while   *)
(* it walks its list.                                                      *)
(*                                                                         *)
(* A reading is known by its time, a batch by the times in it.  The FX4 is *)
(* external: after a subscription it sends the gate's level and then its   *)
(* changes, and per channel every reading once, though a channel's latest  *)
(* reading may lag behind and come with the next update.                   *)
(***************************************************************************)
EXTENDS Integers, Sequences, FiniteSets

CONSTANTS
  Channels,     \* the channels, 1 among them
  NumAverage,   \* readings in a batch
  TriggerModes, \* those in use, of "Free", "ExtTrigger", "ExtGate", "ExtBulb"
  Polarities,   \* those in use: the gate level that counts, 1 or 0
  Modes,        \* the acquire modes in use, of "Continuous", "Single"
  Meddling,     \* bound: settings and Reads come in a running acquisition too
  MaxTime,      \* bound: readings a channel makes
  MaxLag,       \* bound: readings of a channel that an update lacks
  MaxMessages,  \* bound: websocket messages under way
  MaxQueued     \* bound: messages waiting for callbackTask

ASSUME ConstAssumption ==
  /\ 1 \in Channels /\ IsFiniteSet(Channels)
  /\ NumAverage \in Nat \ {0}
  /\ TriggerModes \subseteq {"Free", "ExtTrigger", "ExtGate", "ExtBulb"} /\ TriggerModes # {}
  /\ Polarities \subseteq {0, 1} /\ Polarities # {}
  /\ Modes \subseteq {"Continuous", "Single"} /\ Modes # {}
  /\ Meddling \in BOOLEAN
  /\ {MaxTime, MaxLag, MaxMessages, MaxQueued} \subseteq Nat

VARIABLES
  \* the FX4: time, and the gate's level at each time from 1
  now, levels,
  subscribed,    \* updates have data in them
  since,         \* the time of the subscription
  sent,          \* channel |-> the last reading sent
  gateSent,      \* the time up to which gate changes were sent, of this subscription
  \* the websocket
  toServer,      \* "subscribe", "unsubscribe" and "get" on their way
  answers,       \* updates on their way back
  \* the driver
  acquiring,     \* acquiring_
  triggerMode, polarity, \* the cached settings
  mode,          \* P_AcquireMode
  cache,         \* adcCache_: channel |-> its readings, not merged yet
  synchronized,  \* synchronized_
  gateLevel,     \* gateLevel_
  triggerActive, numTriggerValues, \* the trigger's window
  ring,          \* readings that no message to callbackTask speaks of
  rawCount,      \* rawCount_
  queued,        \* messages waiting for callbackTask
  numAcquired,   \* numAcquired_, of one
  \* the websocket's thread
  ws,            \* "idle"; has "taken" an update; "walking" along the list;
                 \* "claiming", inside triggerCallbacks; "done"
  update,        \* the update it has taken
  list,          \* what is left of the list, a multiset in order of time
  \* history
  clean,         \* no update, request or list of one acquisition has met another,
                 \* no setting or Read a running acquisition
  disordered,    \* a gate change was dropped, or came before an earlier reading
  skewed,        \* the channels' lists did not start at the same time
  wrongs         \* what has gone wrong meanwhile

fx4      == <<now, levels, subscribed, since, sent, gateSent>>
socket   == <<toServer, answers>>
settings == <<triggerMode, polarity, mode>>
caches   == <<cache, synchronized>>
window   == <<gateLevel, triggerActive, numTriggerValues>>
batch    == <<ring, rawCount, queued>>
thread   == <<ws, update, list>>
history  == <<clean, disordered, skewed, wrongs>>
vars     == <<fx4, socket, acquiring, settings, caches, window, batch, numAcquired,
              thread, history>>

NoData == [adc |-> [c \in Channels |-> <<>>], gate |-> {}]

\* The times after a up to b.
Times(a, b) == [i \in 1..(b - a) |-> a + i]

-----------------------------------------------------------------------------
(* The FX4.                                                                *)

\* Time matters during a subscription only.
Tick ==
  /\ now < MaxTime /\ subscribed
  /\ now' = now + 1
  /\ \E l \in {0, 1} : levels' = Append(levels, l)
  /\ UNCHANGED <<subscribed, since, sent, gateSent, socket, acquiring, settings, caches,
                 window, batch, numAcquired, thread, history>>

\* The gate's changes after a up to b; a subscription begins with its level.
GateEvents(a, b) ==
  {[kind |-> "gate", time |-> t, level |-> levels[t]] :
     t \in {u \in a + 1..b : u >= 1 /\ (u \in {1, since} \/ levels[u] # levels[u - 1])}}

Answers ==
  /\ toServer # <<>> /\ Head(toServer) = "get"
  /\ toServer' = Tail(toServer)
  /\ \/ ~subscribed /\ answers' = Append(answers, NoData)
        /\ UNCHANGED <<sent, gateSent, disordered>>
     \/ /\ subscribed
        /\ \E upto \in [Channels -> 0..now] :
             /\ \A c \in Channels : upto[c] >= sent[c] /\ upto[c] >= now - MaxLag
             /\ answers' = Append(answers, [adc  |-> [c \in Channels |-> Times(sent[c], upto[c])],
                                            gate |-> GateEvents(gateSent, now)])
             /\ sent' = upto /\ gateSent' = now
             /\ disordered' = (disordered \/ \E c \in Channels : upto[c] < now)
  /\ UNCHANGED <<now, levels, subscribed, since, acquiring, settings, caches, window,
                 batch, numAcquired, thread, clean, skewed, wrongs>>

Subscribes ==
  /\ toServer # <<>> /\ Head(toServer) # "get"
  /\ toServer' = Tail(toServer)
  /\ IF Head(toServer) = "subscribe"
     THEN /\ subscribed' = TRUE /\ since' = now
          /\ sent' = [c \in Channels |-> now] /\ gateSent' = now - 1
     ELSE subscribed' = FALSE /\ UNCHANGED <<since, sent, gateSent>>
  /\ UNCHANGED <<now, levels, answers, acquiring, settings, caches, window, batch,
                 numAcquired, thread, history>>

Server == Answers \/ Subscribes

-----------------------------------------------------------------------------
(* setAcquire, by the port thread or callbackTask.                         *)

\* Is a request on its way?
Asked(request) == \E i \in DOMAIN toServer : toServer[i] = request

\* Something of the last acquisition is under way still.
Leftover ==
  \/ ws # "idle"
  \/ \E i \in DOMAIN answers : answers[i] # NoData
  \/ Asked("unsubscribe")

\* mutant: no request is sent, the first update is to come by itself
StartWithoutGet ==
  /\ cache' = [c \in Channels |-> <<>>]
  /\ acquiring' = 1
  /\ synchronized' = FALSE
  /\ numTriggerValues' = 0 /\ triggerActive' = FALSE
  /\ toServer' = toServer \o <<"subscribe">>
  /\ numAcquired' = 0

UnderWay == Len(toServer) + Len(answers) + (IF ws = "idle" THEN 0 ELSE 1)

\* setAcquire(1) when not acquiring.
Start ==
  /\ cache' = [c \in Channels |-> <<>>]
  /\ acquiring' = 1
  /\ synchronized' = FALSE
  /\ numTriggerValues' = 0 /\ triggerActive' = FALSE
  /\ toServer' = toServer \o <<"subscribe", "get">>
  /\ numAcquired' = 0

Stop ==
  /\ acquiring' = 0
  /\ toServer' = IF acquiring = 1 THEN Append(toServer, "unsubscribe") ELSE toServer

\* mutant: the count is left as it is
FlushRing == ring' = <<>> /\ UNCHANGED rawCount

Flush == ring' = <<>> /\ rawCount' = 0

\* A new acquisition flushes the ring buffer, and so does one that goes on.
WriteAcquire1 ==
  /\ UnderWay + 2 <= MaxMessages
  /\ Flush
  /\ clean' = (clean /\ acquiring = 0 /\ ~Leftover)
  /\ IF acquiring = 0 THEN Start
     ELSE UNCHANGED <<cache, acquiring, synchronized, numTriggerValues, triggerActive,
                      toServer, numAcquired>>
  /\ UNCHANGED <<fx4, answers, settings, gateLevel, queued, thread, disordered, skewed, wrongs>>

WriteAcquire0 ==
  /\ UnderWay < MaxMessages
  /\ Stop
  /\ UNCHANGED <<fx4, answers, settings, caches, window, batch, numAcquired, thread,
                 history>>

Runs == acquiring = 1 \/ ws # "idle"

\* setAcquireParams copies the trigger's mode and polarity; the batch's length is a
\* constant.
SetAcquireParams(t, p) == triggerMode' = t /\ polarity' = p

\* setTriggerMode, setTriggerPolarity.
WriteTrigger(t, p) ==
  /\ Runs => Meddling
  /\ t = triggerMode \/ p = polarity
  /\ SetAcquireParams(t, p)
  /\ clean' = (clean /\ ~Runs)
  /\ UNCHANGED <<fx4, socket, acquiring, mode, caches, window, batch, numAcquired, thread,
                 disordered, skewed, wrongs>>

\* A mode other than Continuous stops the acquisition.
WriteAcquireMode(m) ==
  /\ mode' = m
  /\ IF m = "Single" THEN Stop ELSE UNCHANGED <<acquiring, toServer>>
  /\ UNCHANGED <<fx4, answers, triggerMode, polarity, caches, window, batch, numAcquired,
                 thread, history>>

\* The flush of the base class comes after setAveragingTime.
WriteAveragingTime ==
  /\ Runs => Meddling
  /\ Flush
  /\ clean' = (clean /\ ~Runs)
  /\ UNCHANGED <<fx4, socket, acquiring, settings, caches, window, queued, numAcquired,
                 thread, disordered, skewed, wrongs>>

\* What is said to callbackTask of n readings, of the rest of the ring.
Claimed(n) == Len(ring) >= n

RestOfRing(n) == IF Claimed(n) THEN SubSeq(ring, n + 1, Len(ring)) ELSE <<>>

Note(bad) == wrongs' = IF clean THEN wrongs \cup bad ELSE wrongs

\* P_ReadData: triggerCallbacks, under the lock.
ReadData ==
  /\ Runs => Meddling
  /\ rawCount > 0 /\ queued < MaxQueued
  /\ queued' = queued + 1
  /\ ring' = RestOfRing(rawCount) /\ rawCount' = 0
  /\ clean' = (clean /\ ~Runs)
  /\ UNCHANGED <<fx4, socket, acquiring, settings, caches, window, numAcquired, thread,
                 disordered, skewed, wrongs>>

Port ==
  \/ WriteAcquire1 \/ WriteAcquire0
  \/ \E t \in TriggerModes, p \in Polarities : WriteTrigger(t, p)
  \/ \E m \in Modes : WriteAcquireMode(m)
  \/ WriteAveragingTime \/ ReadData

\* callbackTask: the one batch of a Single acquisition ends it.
Task ==
  /\ queued > 0
  /\ queued' = queued - 1
  /\ numAcquired' = 1
  /\ IF mode = "Single" /\ numAcquired = 0 THEN Stop ELSE UNCHANGED <<acquiring, toServer>>
  /\ UNCHANGED <<fx4, answers, settings, caches, window, ring, rawCount, thread, history>>

\* pollThread keeps the connection alive between acquisitions.
Poll ==
  /\ acquiring = 0
  /\ UnderWay < MaxMessages
  /\ toServer' = Append(toServer, "get")
  /\ UNCHANGED <<fx4, answers, acquiring, settings, caches, window, batch, numAcquired,
                 thread, history>>

-----------------------------------------------------------------------------
(* The websocket's thread: onMessageEvent.                                 *)

WsTakes ==
  /\ ws = "idle" /\ answers # <<>>
  /\ answers' = Tail(answers)
  /\ IF acquiring = 1 THEN ws' = "taken" /\ update' = Head(answers)
                      ELSE UNCHANGED <<ws, update>>
  /\ UNCHANGED <<fx4, toServer, acquiring, settings, caches, window, batch, numAcquired,
                 list, history>>

Earlier(a, b) == a.time < b.time \/ (a.time = b.time /\ a.kind = "gate" /\ b.kind = "adc")

\* The channels' lists grow by the update's, and the complete readings are merged
\* with its gate changes.  Before the lists have ever been of the same length,
\* lists that are not are thrown away.
WsMerges ==
  /\ ws = "taken"
  /\ LET full  == [c \in Channels |-> cache[c] \o update.adc[c]]
         equal == \A c \in Channels : Len(full[c]) = Len(full[1])
         Reading(i) == [kind |-> "adc", time |-> full[1][i],
                        times |-> {full[c][i] : c \in Channels}]
     IN \/ /\ full[1] = <<>>
           /\ cache' = full /\ ws' = "done"
           /\ disordered' = (disordered \/ update.gate # {})
           /\ UNCHANGED <<synchronized, list, skewed>>
        \/ /\ full[1] # <<>> /\ ~equal /\ ~synchronized
           /\ cache' = [c \in Channels |-> <<>>] /\ ws' = "done"
           /\ disordered' = (disordered \/ update.gate # {})
           /\ UNCHANGED <<synchronized, list, skewed>>
        \/ /\ full[1] # <<>> /\ (equal \/ synchronized)
           /\ synchronized' = TRUE
           /\ skewed' = (skewed \/ (~synchronized /\ \E c \in Channels : full[c][1] # full[1][1]))
           /\ \E shortest \in Channels :
                LET n == Len(full[shortest])
                IN /\ \A c \in Channels : n <= Len(full[c])
                   /\ list' = update.gate \cup {Reading(i) : i \in 1..n}
                   /\ cache' = [c \in Channels |-> SubSeq(full[c], n + 1, Len(full[c]))]
           /\ ws' = "walking"
           /\ UNCHANGED disordered
  /\ update' = NoData
  /\ UNCHANGED <<fx4, socket, acquiring, settings, window, batch, numAcquired, clean,
                 wrongs>>

\* The next of the list; no two have the same time and kind.
Walks(e) ==
  /\ ws = "walking" /\ e \in list
  /\ ~\E f \in list : Earlier(f, e)
  /\ list' = list \ {e}

\* mutant: either edge is a trigger
ActiveEither(event) == TRUE

Active(event) == event.level = polarity

\* A trigger, or a gate that opens, at t; or one that was open at the start.
Begins(t) ==
  \/ levels[t] = polarity /\ (t = 1 \/ levels[t - 1] # polarity)
  \/ t = since + 1 /\ since > 0 /\ levels[since] = polarity

Row(b) == \A i \in DOMAIN b : b[i] = b[1] + i - 1

\* The readings after a trigger; those of the next may join them.
GoodTriggered(b) == (Row(b) /\ Begins(b[1])) \/ \E i \in 2..Len(b) : Begins(b[i])

\* The readings of a whole gate.
GoodBulb(b, end) ==
  b # <<>> => /\ Row(b) /\ Begins(b[1]) /\ b[Len(b)] = end - 1
              /\ \A i \in DOMAIN b : levels[b[i]] = polarity

\* A gate change opens the trigger's window, again if it is open; the end of a
\* bulb gate ends the batch, and triggerCallbacks is called without the lock.
WsWalksGate(e) ==
  /\ Walks(e) /\ e.kind = "gate"
  /\ LET active == Active(e)
         ends   == triggerMode = "ExtBulb" /\ ~active /\ rawCount > 0
     IN /\ gateLevel' = e.level
        /\ IF triggerMode = "ExtTrigger" /\ active
           THEN triggerActive' = TRUE /\ numTriggerValues' = 0
           ELSE UNCHANGED <<triggerActive, numTriggerValues>>
        /\ \/ ~ends /\ UNCHANGED <<queued, wrongs, ring, ws>>
           \/ /\ ends /\ queued < MaxQueued
              /\ queued' = queued + 1
              /\ Note({w \in {"claim"} : ~Claimed(rawCount)} \cup
                      {w \in {"batch"} : ~disordered /\ ~GoodBulb(ring, e.time)})
              /\ ring' = RestOfRing(rawCount)
              /\ ws' = "claiming"
  /\ UNCHANGED <<fx4, socket, acquiring, settings, caches, rawCount, numAcquired, update,
                 clean, disordered, skewed>>

\* The other half of triggerCallbacks.
WsClaims ==
  /\ ws = "claiming"
  /\ rawCount' = 0
  /\ ws' = "walking"
  /\ UNCHANGED <<fx4, socket, acquiring, settings, caches, window, ring, queued,
                 numAcquired, update, list, history>>

\* Does the reading count, and is the trigger's window open after it?
Counts ==
  CASE triggerMode = "ExtTrigger"           -> triggerActive /\ numTriggerValues < NumAverage
    [] triggerMode \in {"ExtGate", "ExtBulb"} -> gateLevel = polarity
    [] OTHER                                -> TRUE

WsWalksReading(e) ==
  /\ Walks(e) /\ e.kind = "adc"
  /\ IF triggerMode = "ExtTrigger" /\ triggerActive
     THEN /\ numTriggerValues' = numTriggerValues + 1
          /\ triggerActive' = (numTriggerValues < NumAverage)
     ELSE UNCHANGED <<triggerActive, numTriggerValues>>
  /\ LET t == e.time
         b == Append(ring, t)
         ends == triggerMode # "ExtBulb" /\ rawCount + 1 >= NumAverage
     IN IF Counts
        THEN /\ queued + 1 <= MaxQueued \/ ~ends
             /\ ring' = (IF ends THEN <<>> ELSE b)
             /\ rawCount' = (IF ends THEN 0 ELSE rawCount + 1)
             /\ queued' = (IF ends THEN queued + 1 ELSE queued)
             /\ Note({w \in {"times"} : ~skewed /\ Cardinality(e.times) > 1} \cup
                     {w \in {"gate"} : /\ ~disordered /\ triggerMode \in {"ExtGate", "ExtBulb"}
                                       /\ levels[t] # polarity} \cup
                     {w \in {"claim"} : ends /\ Len(b) # rawCount + 1} \cup
                     {w \in {"batch"} : /\ ~disordered /\ ends /\ triggerMode = "ExtTrigger"
                                        /\ ~GoodTriggered(b)})
        ELSE UNCHANGED <<batch, wrongs>>
  /\ UNCHANGED <<fx4, socket, acquiring, settings, caches, gateLevel, numAcquired, ws,
                 update, clean, disordered, skewed>>

\* At the end of the list, or of an update of no use, the next one is asked for.
WsEnds ==
  /\ ws = "done" \/ (ws = "walking" /\ list = {})
  /\ ws' = "idle"
  /\ toServer' = IF acquiring = 1 THEN Append(toServer, "get") ELSE toServer
  /\ UNCHANGED <<fx4, answers, acquiring, settings, caches, window, batch, numAcquired,
                 update, list, history>>

Websocket ==
  \/ WsTakes \/ WsMerges \/ WsClaims \/ WsEnds
  \/ \E e \in list : WsWalksGate(e) \/ WsWalksReading(e)

-----------------------------------------------------------------------------
\* gateLevel_ is not initialised.
Init ==
  /\ now = 0 /\ levels = <<>>
  /\ subscribed = FALSE /\ since = 0 /\ sent = [c \in Channels |-> 0] /\ gateSent = -1
  /\ toServer = <<>> /\ answers = <<>>
  /\ acquiring = 0
  /\ triggerMode \in TriggerModes /\ polarity \in Polarities /\ mode \in Modes
  /\ cache = [c \in Channels |-> <<>>] /\ synchronized = FALSE
  /\ gateLevel \in {0, 1} /\ triggerActive = FALSE /\ numTriggerValues = 0
  /\ ring = <<>> /\ rawCount = 0 /\ queued = 0 /\ numAcquired = 0
  /\ ws = "idle" /\ update = NoData /\ list = {}
  /\ clean = TRUE /\ disordered = FALSE /\ skewed = FALSE /\ wrongs = {}

Next == Tick \/ Server \/ Port \/ Task \/ Poll \/ Websocket

Spec == Init /\ [][Next]_vars

\* The server answers and the threads run.
Fairness == WF_vars(Server) /\ WF_vars(Task) /\ WF_vars(Websocket)

FairSpec == Spec /\ Fairness

-----------------------------------------------------------------------------
(* Properties.                                                             *)

Gates    == [kind : {"gate"}, time : Nat, level : {0, 1}]
Readings == [kind : {"adc"}, time : Nat, times : SUBSET Nat]
Updates  == [adc : [Channels -> Seq(Nat)], gate : SUBSET Gates]
Requests == {"subscribe", "unsubscribe", "get"}

TypeOK ==
  /\ now \in Nat /\ levels \in Seq({0, 1}) /\ Len(levels) = now
  /\ subscribed \in BOOLEAN /\ since \in Nat /\ since <= now
  /\ sent \in [Channels -> Nat] /\ \A c \in Channels : sent[c] <= now
  /\ gateSent \in Int /\ since - 1 <= gateSent /\ gateSent <= now
  /\ toServer \in Seq(Requests)
  /\ answers \in Seq(Updates)
  /\ acquiring \in {0, 1}
  /\ triggerMode \in TriggerModes /\ polarity \in Polarities /\ mode \in Modes
  /\ cache \in [Channels -> Seq(Nat)] /\ synchronized \in BOOLEAN
  /\ gateLevel \in {0, 1} /\ triggerActive \in BOOLEAN
  /\ numTriggerValues \in Nat /\ numTriggerValues <= NumAverage + 1
  /\ triggerActive => numTriggerValues <= NumAverage
  /\ ring \in Seq(Nat) /\ rawCount \in Nat
  /\ queued \in Nat /\ queued <= MaxQueued
  /\ numAcquired \in {0, 1}
  /\ ws \in {"idle", "taken", "walking", "claiming", "done"}
  /\ update \in Updates /\ (update # NoData => ws = "taken")
  /\ list \subseteq Gates \cup Readings
  /\ list # {} => ws \in {"walking", "claiming"}
  /\ clean \in BOOLEAN /\ disordered \in BOOLEAN /\ skewed \in BOOLEAN
  /\ wrongs \subseteq {"claim", "batch", "times", "gate"}

\* What a batch claims is in the ring buffer: the count that triggerCallbacks
\* reads without the lock is of readings nobody else has spoken for, as long as
\* no one flushes or reads the data meanwhile.
ClaimsOnce == "claim" \notin wrongs

\* If the gate's changes come with the readings they belong to, a batch of an
\* external trigger is of readings in a row from a trigger on, and the batch of a
\* bulb gate is the whole gate, wherever the updates split it.
BatchIsTrue == "batch" \notin wrongs

\* Then, too, the readings that count in gate mode were made with the gate open.
GateIsTrue == "gate" \notin wrongs

\* A reading is of one time in all channels, though a channel's latest value may
\* come one update later, if the lists that were first the same length began at
\* the same time.
Aligned == "times" \notin wrongs

\* The triggers of the driver are those of the signal, and a reading is one reading:
\* batches begin and end with a trigger, gated readings are of an open gate, and the
\* channels do not slip against each other.
MergeIsTrue == BatchIsTrue /\ GateIsTrue /\ Aligned

\* An acquisition that goes on is sent update after update: the chain of "get" and
\* its answer does not break, whenever it was started and stopped before.
KeepsAsking == []<>(acquiring = 0 \/ ws = "taken")
=============================================================================
