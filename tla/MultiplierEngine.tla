-------------------------- MODULE MultiplierEngine --------------------------
(***************************************************************************)
(* What a request costs (internal/quota/multiplier.go and the multiplier   *)
(* resolution of both handlers): the largest multiplier of the windows     *)
(* that are open, unless the user has a multiplier of its own, rounded up  *)
(* to whole calls.  Multipliers are in halves.                             *)
(***************************************************************************)
EXTENDS TimeWindows, Sequences, SequencesExt

CONSTANT Fixed  \* the fixed multipliers a user may have, in halves

VARIABLES
  table,   \* the rows of time_multipliers, by id
  minute,  \* the time of day
  weekday  \* the day of the week

Base == 2        \* 1.0: one call per request
NoFixed == 0     \* fixed_multiplier is NULL: no admin endpoint stores 0 or less

WindowRows == [start : EndpointRecords, end : EndpointRecords, days : SUBSET Nat,
               enabled : BOOLEAN, multiplier : Int]

\* FindAllEnabled, and the day and time checks of the loop.
Open(r) == r.enabled /\ weekday \in r.days /\ IsInRange(r.start, r.end, minute)

\* A mutant of Larger: the last window that is open wins.
LargerLast(m, r) == IF Open(r) THEN r.multiplier ELSE m

\* One turn of the loop.
Larger(m, r) == IF Open(r) /\ r.multiplier > m THEN r.multiplier ELSE m

GetEffectiveMultiplier == FoldLeft(Larger, Base, table)

Ceil(m) == (m + 1) \div 2

\* The effective calls of a request: a fixed multiplier replaces the windows.
EffectiveCalls(fixed) == Ceil(IF fixed # NoFixed THEN fixed ELSE GetEffectiveMultiplier)

\* The comment on GetEffectiveMultiplier, by sets: the maximum of 1.0 and the open
\* windows, whatever the order of the rows; overlapping windows do not add up.  And
\* no request is free, not even under a fixed multiplier below 1.
CostsTheLargest ==
  LET open == {table[i].multiplier : i \in {j \in DOMAIN table : Open(table[j])}} \cup {Base}
      calls == EffectiveCalls(NoFixed)
  IN  /\ \E m \in open : 2 * calls \in {m, m + 1}
      /\ \A m \in open : 2 * calls >= m
      /\ \A f \in Fixed : EffectiveCalls(f) >= 1 /\ 2 * EffectiveCalls(f) \in {f, f + 1}
=============================================================================
