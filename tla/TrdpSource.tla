----------------------------- MODULE TrdpSource -----------------------------
(***************************************************************************)
(* What a cyclic TRDP publisher promises its subscribers, for one telegram:*)
(* once it has started and until it stops, PD packets with consecutive     *)
(* counters, never more than MaxGap ticks apart.  Answers to PULL requests *)
(* in between do not disturb them.  TrdpSend implements it.                *)
(***************************************************************************)
EXTENDS Integers

CONSTANTS MaxGap, Modulus
ASSUME SourceAssumption == MaxGap \in Nat \ {0} /\ Modulus \in Nat \ {0, 1}

VARIABLES
  up,   \* a PD was sent since the publisher started
  gap,  \* ticks since then
  seq   \* counter of the last PD

sourceVars == <<up, gap, seq>>
Values == 0 .. Modulus - 1

SourceInit == up = FALSE /\ gap = 0 /\ seq \in Values

SourcePd ==
  /\ up' = TRUE /\ gap' = 0
  /\ seq' = (seq + 1) % Modulus

SourcePp == UNCHANGED sourceVars

\* Not published, without data, or the follower of a redundant pair: nothing
\* is promised, and the counter may be anything when it starts.
SourceDown ==
  /\ up' = FALSE /\ gap' = 0
  /\ seq' \in Values

SourceTick ==
  /\ up => gap < MaxGap
  /\ gap' = IF up THEN gap + 1 ELSE 0
  /\ UNCHANGED <<up, seq>>

SourceNext == SourcePd \/ SourcePp \/ SourceDown \/ SourceTick
SourceStep == SourceNext \/ UNCHANGED sourceVars
SourceSpec == SourceInit /\ [][SourceNext]_sourceVars
=============================================================================
