--------------------------- MODULE MCTadmaConfig ---------------------------
(* Tags A, B and C; AHigh differs from A only in the upper half of the      *)
(* ComId.  All tags hash to the same bucket but C.                          *)
EXTENDS TadmaStreams

A == [ip |-> 1, lo |-> 1, hi |-> 0]
AHigh == [ip |-> 1, lo |-> 1, hi |-> 1]
B == [ip |-> 1, lo |-> 2, hi |-> 0]
C == [ip |-> 2, lo |-> 1, hi |-> 0]
MCTags == {A, AHigh, B, C}
MCBucketOf == [t \in MCTags |-> IF t = C THEN 1 ELSE 0]

S(t, trigger, count) == [tag |-> t, trigger |-> trigger, count |-> count]

\* Up to three streams with distinct tags and growing trigger times.
Growing ==
  {c \in UNION {[1 .. n -> {S(t, x, k) : t \in {A, B, C}, x \in {80, 160, 240}, k \in {0, 1, 4}}]
                : n \in 1 .. 3} :
     \A i, j \in DOMAIN c : i < j => c[i].tag # c[j].tag /\ c[i].trigger < c[j].trigger}

\* What sendHello and transHello ask for: consecutive ComIds, one frame each.
Consecutive ==
  {[i \in DOMAIN t |-> S(t[i], 80 * i, 1)] :
     t \in {u \in UNION {[1 .. n -> {A, B, C}] : n \in 1 .. 3} :
              \A i, j \in DOMAIN u : i # j => u[i] # u[j]}}

\* Files as tadma_prog reads them: with growing triggers, perhaps with a line repeated; in any order, with
\* equal triggers, two lines for one stream, and ComIds that differ in their upper half only.
AnyPair == [1 .. 2 -> {S(t, x, 1) : t \in {A, AHigh, B, C}, x \in {80, 160}}]
Mixed == {<<S(C, 240, 0), S(A, 80, 1), S(AHigh, 160, 1)>>, <<S(A, 160, 2), S(C, 240, 1), S(A, 80, 4)>>}
Files == Growing \cup AnyPair \cup Mixed
           \cup {<<S(A, 80, 4), S(B, 160, 2), S(B, 160, 2)>>, <<S(C, 80, 0), S(B, 160, 1), S(B, 160, 1)>>}

MCConfigs == [sendHello |-> Consecutive, tadma_prog |-> Files]
\* What transHello asks for.  With Clients = {"transHello"} and these Configs FittingConfigAccepted
\* is violated: tadma_conf.h declares another struct than the driver reads.
TransConfigs == [transHello |-> Consecutive]
=============================================================================
