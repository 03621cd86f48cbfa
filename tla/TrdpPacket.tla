----------------------------- MODULE TrdpPacket -----------------------------
(* What the sending and the receiving side of TRDP process data share.      *)
EXTENDS Integers, Sequences, FiniteSets

CONSTANTS
  CntMod,  \* 2^32 in the code: sequence counters are unsigned
  Data     \* payloads; 0 is what a cleared frame holds

ASSUME PacketAssumption == CntMod \in Nat \ {0, 1} /\ 0 \in Data

\* Message types: process data, and process data sent in answer to a PULL.
Types == {"PD", "PP"}
Counters == 0 .. CntMod - 1

\* A counter moves with each transmission.
Bump(c) == (c + 1) % CntMod
=============================================================================
