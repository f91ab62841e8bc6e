---------------------------- MODULE TimeWindows ----------------------------
(***************************************************************************)
(* Daily time windows (internal/timeutil and windowMinutes of              *)
(* internal/router/selector.go).  An endpoint is a text: IsInRange         *)
(* compares it as a text with the time of day, parseHHMM reads it as a     *)
(* number, and the two disagree on a text such as "24:00" (not a number)   *)
(* or "0;:00" (read as 11:00), so an endpoint records both readings.       *)
(***************************************************************************)
EXTENDS Integers, FiniteSets

CONSTANT Day   \* minutes in a day

ASSUME DayAssumption == Day \in Nat \ {0}

\* at: how many times of day, as texts, sort before the endpoint; read: what parseHHMM
\* makes of it, -1 if it rejects it.
EndpointRecords == [at : 0..Day, read : -1..(Day - 1)]

\* IsInRange: half-open, and overnight when start sorts after end.
IsInRange(start, end, now) ==
  IF start.at <= end.at THEN start.at <= now /\ now < end.at
                        ELSE start.at <= now \/ now < end.at

\* parseHHMM.
parseHHMM(e) == e.read

\* A mutant of windowMinutes: overnight windows do not wrap.
windowMinutesNoWrap(start, end) ==
  IF parseHHMM(start) < 0 \/ parseHHMM(end) < 0 THEN Day
  ELSE parseHHMM(end) - parseHHMM(start)

windowMinutes(start, end) ==
  LET s == parseHHMM(start)
      e == parseHHMM(end)
  IN  IF s < 0 \/ e < 0 THEN Day ELSE IF s <= e THEN e - s ELSE (Day - s) + e

\* What a person sees of a window: the minutes it covers.
Covers(start, end) == {m \in 0..(Day - 1) : IsInRange(start, end, m)}
=============================================================================
