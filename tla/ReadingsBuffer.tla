--------------------------- MODULE ReadingsBuffer ---------------------------
(***************************************************************************)
(* What the plugins are promised about the readings of the device, with    *)
(* no thread, counter, message or lock in sight: a window of at most Size  *)
(* readings slides over the numbered stream of readings.  The oldest       *)
(* reading falls out of a full window and is counted in lost; a readout    *)
(* takes the oldest readings, however many, and settles the count; a       *)
(* client may throw the window away.                                       *)
(***************************************************************************)
EXTENDS Integers, Sequences

CONSTANT Size

VARIABLES
  window,  \* readings not yet read out, oldest first
  newest,  \* number of the newest reading there has been
  out,     \* number of the last reading that was read out or thrown away
  lost     \* readings that fell out since the last readout

bvars == <<window, newest, out, lost>>

Init == window = <<>> /\ newest = 0 /\ out = 0 /\ lost = 0

Put ==
  /\ Len(window) < Size
  /\ window' = Append(window, newest + 1)
  /\ newest' = newest + 1
  /\ UNCHANGED <<out, lost>>

PutOverOldest ==
  /\ Len(window) = Size
  /\ window' = Append(Tail(window), newest + 1)
  /\ newest' = newest + 1
  /\ lost' = lost + 1
  /\ UNCHANGED out

ReadOut(k) ==
  /\ window' = SubSeq(window, k + 1, Len(window))
  /\ out' = window[k]
  /\ lost' = 0
  /\ UNCHANGED newest

ThrowAway ==
  /\ window' = <<>>
  /\ out' = newest
  /\ UNCHANGED <<newest, lost>>

Next == Put \/ PutOverOldest \/ (\E k \in 1..Len(window) : ReadOut(k)) \/ ThrowAway

Spec == Init /\ [][Next]_bvars

-----------------------------------------------------------------------------
\* The window is an unbroken stretch of the stream that ends at the newest
\* reading and starts right after the last readout, save for what was lost.
Unbroken ==
  /\ \A i \in 1..Len(window) : window[i] = newest - Len(window) + i
  /\ newest - Len(window) - out \in 0..lost
=============================================================================
