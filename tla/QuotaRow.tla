------------------------------ MODULE QuotaRow ------------------------------
(***************************************************************************)
(* One row of the quotas table and the SQL statements of                   *)
(* internal/models/quota.go that change it, one operator per statement.    *)
(* The row belongs to one user; every statement carries the user's id, or, *)
(* for the two resets of the scheduler, treats every row alike.            *)
(*                                                                         *)
(* Time is counted in hours.  A weekly anchor is kept as text, and two     *)
(* texts of one instant differ when one was written in UTC and the other   *)
(* in the server's zone, so a Stamp is an instant with the zone it was     *)
(* written in and the <> of SQL is the inequality of Stamps.  A third kind *)
(* of text, "bare", is what datetime('now') of SQLite writes, without a T  *)
(* or a zone: RunMigrations anchors the rows of an older build with it.    *)
(* window_start and month_start are only ever compared with <, with a text *)
(* in the server's zone: they are what that comparison takes them for.     *)
(***************************************************************************)
EXTENDS Integers

CONSTANTS
  DayLen,      \* hours in a day
  ResetHours,  \* reset_interval_hours of the configuration
  WeekLen,     \* hours in a 7-day cycle
  MonthLen,    \* hours in the 30-day window
  UtcOffset    \* how far the server's zone is ahead of UTC

ASSUME TimeAssumption ==
  /\ {DayLen, ResetHours, WeekLen, MonthLen} \subseteq Nat \ {0}
  /\ UtcOffset \in Int

\* The zone time.Now() formats in.
LocalZone == IF UtcOffset = 0 THEN "utc" ELSE "local"

Stamp(t, z) == [at |-> t, zone |-> z]
Stamps == [at : Int, zone : {"utc", "local", "bare"}]

(***************************************************************************)
(* used/limit pairs: calls and tokens, per 5h window, week and in total.   *)
(* A limit of 0 means unlimited.                                           *)
(***************************************************************************)
Rows == [calls5h : Nat, callsTotal : Nat, callLimit5h : Nat, callLimitTotal : Nat,
         tok5h : Nat, tokWeek : Nat, tokTotal : Nat,
         tokLimit5h : Nat, tokLimitWeek : Nat, tokLimitTotal : Nat,
         windowStart : Int, weekStart : Stamps, weekCycle : Stamps, monthStart : Int]

-----------------------------------------------------------------------------
(* Windows and cycles. *)

\* The start of the 5h window containing now: hour / resetHours * resetHours.
WindowStart(now) == now - ((now % DayLen) % ResetHours)

\* A boundary hour, as Scheduler.tryReset tests it.
AtBoundary(now) == (now % DayLen) % ResetHours = 0

\* A mutant of AlignedCycle: the cycle is counted from now, not from the anchor.
AlignedCycleRolling(anchor, now) == IF now < anchor.at THEN anchor ELSE [anchor EXCEPT !.at = now]

\* AlignedCycleStartUTC: whole weeks from the anchor, or the anchor itself if it
\* lies ahead.  Add keeps the zone of the anchor.
AlignedCycle(anchor, now) ==
  IF now < anchor.at THEN anchor
  ELSE [anchor EXCEPT !.at = @ + ((now - @) \div WeekLen) * WeekLen]

\* newCycle of AtomicDeductQuota: an anchor that is not RFC3339 counts as now.
NewCycle(anchor, now) ==
  AlignedCycle(IF anchor.zone = "bare" THEN Stamp(now, "utc") ELSE anchor, now)

\* The month bucket is stale: month_start < now - 30 days.
MonthOver(q, now) == q.monthStart < now - MonthLen

-----------------------------------------------------------------------------
(* AtomicDeductQuota: the UPDATE, for n calls, in the week cycle the caller *)
(* computed from the anchor it had read.                                    *)

Fits(limit, used, n) == limit = 0 \/ used + n <= limit
Below(limit, used) == limit = 0 \/ used < limit

\* A mutant of WeekUsedIn: the bucket is not cleared when its cycle is over.
WeekUsedInCarried(q, cycle) == q.tokWeek

WeekUsedIn(q, cycle) == IF q.weekCycle # cycle THEN 0 ELSE q.tokWeek
MonthUsedAt(q, now) == IF MonthOver(q, now) THEN 0 ELSE q.tokTotal

CallsOpen(q, n) ==
  /\ Fits(q.callLimit5h, q.calls5h, n)
  /\ Fits(q.callLimitTotal, q.callsTotal, n)

TokensOpen(q, cycle, now) ==
  /\ Below(q.tokLimitTotal, MonthUsedAt(q, now))
  /\ Below(q.tokLimit5h, q.tok5h)
  /\ Below(q.tokLimitWeek, WeekUsedIn(q, cycle))

GateOpen(q, n, cycle, now) == CallsOpen(q, n) /\ TokensOpen(q, cycle, now)

Deduct(q, n, cycle, now) ==
  [q EXCEPT !.calls5h = @ + n,
            !.callsTotal = @ + n,
            !.tokWeek = WeekUsedIn(q, cycle),
            !.weekCycle = cycle,
            !.tokTotal = MonthUsedAt(q, now),
            !.monthStart = IF MonthOver(q, now) THEN now ELSE @]

-----------------------------------------------------------------------------
(* After the upstream has answered. *)

\* A mutant of Minus: MAX(0, ...) is missing.
MinusUnclamped(used, n) == used - n

\* MAX(0, used - n).
Minus(used, n) == IF n > used THEN 0 ELSE used - n

\* A mutant of Refund: the refund is taken twice.
RefundTwice(q, n) == [q EXCEPT !.calls5h = Minus(@, 2 * n), !.callsTotal = Minus(@, 2 * n)]

\* RefundQuotaUsage: both call counters, never below zero.
Refund(q, n) ==
  IF n <= 0 THEN q
  ELSE [q EXCEPT !.calls5h = Minus(@, n), !.callsTotal = Minus(@, n)]

\* AddTokenUsage: all three token counters, in whatever window they now are.
AddTokens(q, t) ==
  IF t <= 0 THEN q
  ELSE [q EXCEPT !.tok5h = @ + t, !.tokWeek = @ + t, !.tokTotal = @ + t]

-----------------------------------------------------------------------------
(* The scheduler. *)

\* Mutants of Reset5h: the call counter survives the boundary; the row keeps the
\* stamp of its old window.
Reset5hNoStamp(q, now) == [q EXCEPT !.calls5h = 0, !.tok5h = 0]
Reset5hTokensOnly(q, now) == [q EXCEPT !.tok5h = 0, !.windowStart = WindowStart(now)]

\* Reset5hQuota.
Reset5h(q, now) ==
  [q EXCEPT !.calls5h = 0, !.tok5h = 0, !.windowStart = WindowStart(now)]

\* A mutant of Compensate: a window that began in the previous one counts as current.
CompensateLate(q, now) ==
  IF q.windowStart < WindowStart(now) - ResetHours
  THEN [q EXCEPT !.calls5h = 0, !.tok5h = 0, !.windowStart = now] ELSE q

\* CompensateQuotaReset: only a row whose window has ended, and stamped now.
Compensate(q, now) ==
  IF q.windowStart < WindowStart(now)
  THEN [q EXCEPT !.calls5h = 0, !.tok5h = 0, !.windowStart = now] ELSE q

-----------------------------------------------------------------------------
(* The administrator. *)

\* A mutant of ResetCallCount: the total survives.
ResetCallCount5hOnly(q, now) == [q EXCEPT !.calls5h = 0, !.windowStart = now]

ResetCallCount(q, now) ==
  [q EXCEPT !.calls5h = 0, !.callsTotal = 0, !.windowStart = now]

\* ResetTokenStats: the three anchors are restarted, in local time.
ResetTokenStats(q, now) ==
  [q EXCEPT !.tok5h = 0, !.tokWeek = 0, !.tokTotal = 0,
            !.weekStart = Stamp(now, LocalZone), !.weekCycle = Stamp(now, LocalZone),
            !.monthStart = now]

\* SetQuotaWeekStart: what the UPDATE does, by the row its SELECT had seen.
SetWeekStart(q, seen, anchor, now) ==
  LET cycle == AlignedCycle(anchor, now)
  IN  IF cycle # seen.weekCycle
      THEN [q EXCEPT !.weekStart = anchor, !.weekCycle = cycle, !.tokWeek = 0]
      ELSE IF anchor = seen.weekStart THEN q ELSE [q EXCEPT !.weekStart = anchor]

\* UpdateQuotaLimits, UpdateQuotaTokenTotalLimit, UpdateQuotaTokenWindowLimits:
\* each writes limits only; usage is left as it is.
SetCallLimits(q, l5h, lTotal) == [q EXCEPT !.callLimit5h = l5h, !.callLimitTotal = lTotal]
SetTokenTotalLimit(q, l) == [q EXCEPT !.tokLimitTotal = l]
SetTokenWindowLimits(q, l5h, lWeek) == [q EXCEPT !.tokLimit5h = l5h, !.tokLimitWeek = lWeek]
=============================================================================
