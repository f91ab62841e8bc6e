--------------------------- MODULE ProviderUsage ---------------------------
(***************************************************************************)
(* The cycle of a provider and what its usage view makes of it             *)
(* (internal/models/provider_usage.go).  Days are counted from some day 0  *)
(* in Asia/Shanghai; cycle_start_date is a day, or empty.                  *)
(***************************************************************************)
EXTENDS Integers

CONSTANT CycleLen  \* days of a cycle: 30

ASSUME CycleAssumption == CycleLen \in Nat \ {0}

\* No cycle_start_date.
NoDate == -1

\* The day the cycles are counted from: an empty or unreadable date counts as today.
AnchorDay(date, today) == IF date = NoDate THEN today ELSE date

\* A mutant of CycleStart: the old rolling window.
RollingStart(date, today) == today - CycleLen + 1

\* CurrentCycleWindow: N whole cycles after the anchor, never fewer than none.
CycleStart(date, today) ==
  LET anchor == AnchorDay(date, today)
  IN  IF today < anchor THEN anchor
      ELSE anchor + ((today - anchor) \div CycleLen) * CycleLen
=============================================================================
