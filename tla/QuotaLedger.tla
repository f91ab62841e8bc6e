---------------------------- MODULE QuotaLedger ----------------------------
(***************************************************************************)
(* The life of the requests of one user against that user's quotas row:    *)
(* gate, upstream call, refund, token accounting (internal/proxy), with    *)
(* the 5h scheduler (internal/quota/scheduler.go), the quota actions of    *)
(* the admin API (internal/admin/users.go), crashes and restarts.  The     *)
(* database has one connection, so each SQL statement is atomic and every  *)
(* step below is at most one statement; anything may happen in between.    *)
(* How a request gets one of its user's slots is in ConcurrencyCap; here   *)
(* it finds one free or does not start.  RequestPath joins the two.        *)
(***************************************************************************)
EXTENDS QuotaRow, CallTickets

CONSTANTS
  Mode,         \* Mode[r]: "sync", "stream" (chat completions) or "pass" (passthrough)
  Outcomes,     \* what may come of an upstream call
  TokenCounts,  \* the billed tokens an answer may report
  MaxTokens,    \* the largest of them
  AnchorZone,   \* how week_start is written at first: "utc", or "bare" in a migrated row
  Limits,       \* the limits an admin may set: [call5h, callTotal, tok5h, tokWeek, tokTotal]
  Anchors,      \* the weekly anchors an admin may submit
  Admins,       \* the admin requests that may be under way at once
  AdminOps,     \* the admin operations in play
  Crashes,      \* whether the process may crash
  MaxInFlight,  \* max_concurrency of the user; 0 means unlimited
  MaxClock      \* bound on the clock

AllOutcomes == {"unbuilt", "unreachable", "unreadable", "redirect", "refused", "ok"}
AllOps == {"resetCalls", "resetTokens", "resetAll", "anchor", "limits", "delete"}
LimitRecords == [call5h : Nat, callTotal : Nat, tok5h : Nat, tokWeek : Nat, tokTotal : Nat]

ASSUME LedgerAssumption ==
  /\ Mode \in [Requests -> {"sync", "stream", "pass"}]
  /\ Outcomes \subseteq AllOutcomes
  /\ MaxTokens \in Nat /\ TokenCounts \subseteq 0..MaxTokens
  /\ AnchorZone \in {"utc", "bare"}
  /\ Limits \subseteq LimitRecords
  /\ Anchors \subseteq Int
  /\ AdminOps \subseteq AllOps
  /\ Crashes \in BOOLEAN
  /\ {MaxInFlight, MaxClock} \subseteq Nat

VARIABLES
  row,      \* the user's quotas row
  present,  \* whether the row (and the user) still exists
  clock,    \* the hour
  top,      \* whether it is minute 0 of a boundary hour
  up,       \* whether the gateway is running
  pc,       \* pc[r]: the next step of request r
  cycle,    \* cycle[r]: week_start as AtomicDeductQuota read it, then newCycle
  asOf,     \* asOf[r]: the time AtomicDeductQuota was entered
  answer,   \* answer[r]: what came of the upstream call
  tok,      \* tok[r]: billedTokens
  job       \* job[a]: the operation of a that is between two of its statements

(* History variables: what really happened, for the properties only. *)
VARIABLES
  charged, credited,   \* the requests charged, and refunded, so far
  owed5h, owedTotal,   \* charged since the bucket was last cleared, and not refunded
  week,                \* the current weekly cycle, the tokens billed in it, and whether
                       \* the bucket still is the one of that cycle
  late                 \* the requests refunded after the total had been cleared under them

realVars == <<row, present, clock, top, up, pc, cycle, asOf, answer, tok, job>>
ghosts == <<charged, credited, owed5h, owedTotal, week, late>>
vars == <<realVars, ghosts>>

Active == {"entered", "read", "anchored", "blocked", "charged", "refunding", "billing"}
PCs == Active \cup {"new", "done", "lost"}
InFlight == {r \in Requests : pc[r] \in Active}

\* CreateUser: usage 0, every anchor now (hour 0).  The anchors are in UTC, so that
\* month_start reads UtcOffset too early when it is compared with a local text.  The
\* row of an older build gets the same anchors from RunMigrations, in bare texts.
NewRow(l) ==
  [calls5h |-> 0, callsTotal |-> 0, callLimit5h |-> l.call5h, callLimitTotal |-> l.callTotal,
   tok5h |-> 0, tokWeek |-> 0, tokTotal |-> 0,
   tokLimit5h |-> l.tok5h, tokLimitWeek |-> l.tokWeek, tokLimitTotal |-> l.tokTotal,
   windowStart |-> 0, weekStart |-> Stamp(0, AnchorZone), weekCycle |-> Stamp(0, AnchorZone),
   monthStart |-> -UtcOffset]

NoCycle == Stamp(0, "utc")

NoJob == [step |-> "none", now |-> 0, anchor |-> Stamp(0, "utc"),
          weekStart |-> Stamp(0, "utc"), weekCycle |-> Stamp(0, "utc")]

Init ==
  /\ \E l \in Limits : row = NewRow(l)
  /\ present = TRUE /\ clock = 0 /\ top = FALSE /\ up = TRUE
  /\ pc = [r \in Requests |-> "new"]
  /\ cycle = [r \in Requests |-> NoCycle]
  /\ asOf = [r \in Requests |-> 0]
  /\ answer = [r \in Requests |-> "none"]
  /\ tok = [r \in Requests |-> 0]
  /\ job = [a \in Admins |-> NoJob]
  /\ charged = {} /\ credited = {} /\ owed5h = {} /\ owedTotal = {}
  /\ week = [cycle |-> Stamp(0, AnchorZone), tokens |-> 0, kept |-> TRUE]
  /\ late = {}

TrueCycle == NewCycle(row.weekStart, clock)

\* A weekly cycle that begins at t, with nothing billed in it.
NewWeek(t) == [cycle |-> t, tokens |-> 0, kept |-> TRUE]

-----------------------------------------------------------------------------
(* A request. *)

\* ServeHTTP up to the gate: a request refused before it (no slot, a bad body, no
\* provider) never starts.  AtomicDeductQuota takes the time for the month bucket.
Enter(r) ==
  /\ up /\ pc[r] = "new"
  /\ pc' = [pc EXCEPT ![r] = "entered"]
  /\ asOf' = [asOf EXCEPT ![r] = clock]
  /\ UNCHANGED <<row, present, clock, top, up, cycle, answer, tok, job, ghosts>>

\* AtomicDeductQuota: SELECT week_start.  No row: false.
ReadAnchor(r) ==
  /\ pc[r] = "entered"
  /\ IF present
     THEN /\ pc' = [pc EXCEPT ![r] = "read"]
          /\ cycle' = [cycle EXCEPT ![r] = row.weekStart]
          /\ UNCHANGED asOf
     ELSE /\ pc' = [pc EXCEPT ![r] = "blocked"]
          /\ asOf' = [asOf EXCEPT ![r] = 0]
          /\ UNCHANGED cycle
  /\ UNCHANGED <<row, present, clock, top, up, answer, tok, job, ghosts>>

\* AtomicDeductQuota: the cycle, counted from the anchor read, that it is in now.
AlignCycle(r) ==
  /\ pc[r] = "read"
  /\ pc' = [pc EXCEPT ![r] = "anchored"]
  /\ cycle' = [cycle EXCEPT ![r] = NewCycle(@, clock)]
  /\ UNCHANGED <<row, present, clock, top, up, asOf, answer, tok, job, ghosts>>

\* AtomicDeductQuota returns, and its variables are gone.
Leave(r) ==
  /\ cycle' = [cycle EXCEPT ![r] = NoCycle]
  /\ asOf' = [asOf EXCEPT ![r] = 0]

\* Mutants of Passes: the calls are not checked, or the tokens are not.
PassesAnyCalls(r) == present /\ TokensOpen(row, cycle[r], asOf[r])
PassesAnyTokens(r) == present /\ CallsOpen(row, Calls[r])

\* The WHERE clause of the UPDATE selects the row.
Passes(r) == present /\ GateOpen(row, Calls[r], cycle[r], asOf[r])

\* AtomicDeductQuota: the UPDATE changes the row.
Charge(r) ==
  /\ pc[r] = "anchored"
  /\ Passes(r)
  /\ row' = Deduct(row, Calls[r], cycle[r], asOf[r])
  /\ pc' = [pc EXCEPT ![r] = "charged"]
  /\ charged' = charged \cup {r}
  /\ owed5h' = owed5h \cup {r}
  /\ owedTotal' = owedTotal \cup {r}
  /\ week' = IF cycle[r] = row.weekCycle THEN week
             ELSE IF cycle[r] # TrueCycle THEN [week EXCEPT !.kept = FALSE]
             ELSE IF cycle[r] # week.cycle THEN NewWeek(cycle[r]) ELSE week
  /\ Leave(r)
  /\ UNCHANGED <<present, clock, top, up, answer, tok, job, credited, late>>

\* AtomicDeductQuota: the UPDATE selects no row.
Block(r) ==
  /\ pc[r] = "anchored"
  /\ ~Passes(r)
  /\ pc' = [pc EXCEPT ![r] = "blocked"]
  /\ Leave(r)
  /\ UNCHANGED <<row, present, clock, top, up, answer, tok, job, ghosts>>

\* The 429: the row is read back only to word it, and nothing is given back.
Reject(r) ==
  /\ pc[r] = "blocked"
  /\ pc' = [pc EXCEPT ![r] = "done"]
  /\ UNCHANGED <<row, present, clock, top, up, cycle, asOf, answer, tok, job, ghosts>>

\* Which ends of the upstream call give the calls back.
Refunded(m, o) ==
  \/ m = "sync"   /\ o \in {"unreachable", "unreadable", "refused"}
  \/ m = "stream" /\ o \in {"redirect", "refused"}
  \/ m = "pass"   /\ o \in {"unreachable", "refused"}

\* Which ends reach AddTokenUsage: every answer of a sync call whose body could be
\* read, whatever its status; a stream that began (the deferred accounting).
Billed(m, o) ==
  \/ m = "sync"   /\ o \in {"redirect", "refused", "ok"}
  \/ m = "stream" /\ o = "ok"

\* A mutant of AfterAnswer: a sync call that fails is not refunded.
AfterAnswerNoRefund(m, o) ==
  IF Refunded(m, o) /\ m # "sync" THEN "refunding" ELSE IF Billed(m, o) THEN "billing" ELSE "done"

AfterAnswer(m, o) ==
  IF Refunded(m, o) THEN "refunding" ELSE IF Billed(m, o) THEN "billing" ELSE "done"

\* The upstream call: not built, not answered within the client's timeout, not
\* readable, or answered with a redirect, an error status or a success.
Answer(r) ==
  /\ pc[r] = "charged"
  /\ \E o \in Outcomes :
       /\ o = "unreadable" => Mode[r] = "sync"
       /\ answer' = [answer EXCEPT ![r] = o]
       /\ pc' = [pc EXCEPT ![r] = AfterAnswer(Mode[r], o)]
       /\ \E t \in IF Billed(Mode[r], o) THEN TokenCounts ELSE {0} : tok' = [tok EXCEPT ![r] = t]
  /\ UNCHANGED <<row, present, clock, top, up, cycle, asOf, job, ghosts>>

\* A mutant of AfterRefund: the call is tried again, from the gate on.
AfterRefundRetry(m, o) == "anchored"

\* Whether tokens are accounted after the calls were given back.
AfterRefund(m, o) == IF Billed(m, o) THEN "billing" ELSE "done"

\* RefundQuotaUsage.
GiveBack(r) ==
  /\ pc[r] = "refunding"
  /\ pc' = [pc EXCEPT ![r] = AfterRefund(Mode[r], answer[r])]
  /\ IF present
     THEN /\ row' = Refund(row, Calls[r])
          /\ credited' = credited \cup {r}
          /\ owed5h' = owed5h \ {r}
          /\ owedTotal' = owedTotal \ {r}
          /\ late' = late \cup ({r} \ owedTotal)
     ELSE UNCHANGED <<row, credited, owed5h, owedTotal, late>>
  /\ UNCHANGED <<present, clock, top, up, cycle, asOf, answer, tok, job, charged, week>>

\* InsertCallLog, then AddTokenUsage.
Account(r) ==
  /\ pc[r] = "billing"
  /\ pc' = [pc EXCEPT ![r] = "done"]
  /\ IF present
     THEN /\ row' = AddTokens(row, tok[r])
          /\ week' = [week EXCEPT !.tokens = @ + tok[r]]
     ELSE UNCHANGED <<row, week>>
  /\ UNCHANGED <<present, clock, top, up, cycle, asOf, answer, tok, job,
                 charged, credited, owed5h, owedTotal, late>>

-----------------------------------------------------------------------------
(* Time, the scheduler, crashes. *)

\* The next hour.
Tick ==
  /\ clock < MaxClock /\ ~top
  /\ clock' = clock + 1
  /\ top' = AtBoundary(clock + 1)
  /\ UNCHANGED <<row, present, up, pc, cycle, asOf, answer, tok, job, ghosts>>

\* Scheduler.tryReset: its ticker finds minute 0 of a boundary hour, once or more.
SchedulerReset ==
  /\ up /\ top
  /\ IF present THEN row' = Reset5h(row, clock) /\ owed5h' = {}
                ELSE UNCHANGED <<row, owed5h>>
  /\ UNCHANGED <<present, clock, top, up, pc, cycle, asOf, answer, tok, job,
                 charged, credited, owedTotal, week, late>>

\* Minute 0 ends.  The ticker runs every 30 seconds, so a running gateway has
\* reset the rows by then.
MinuteOver ==
  /\ top
  /\ up /\ present => row.windowStart >= WindowStart(clock)
  /\ top' = FALSE
  /\ UNCHANGED <<row, present, clock, up, pc, cycle, asOf, answer, tok, job, ghosts>>

\* The process dies with everything in flight; only the database remains.
Crash ==
  /\ Crashes /\ up
  /\ up' = FALSE
  /\ pc' = [r \in Requests |-> IF pc[r] \in Active THEN "lost" ELSE pc[r]]
  /\ cycle' = [r \in Requests |-> NoCycle]
  /\ asOf' = [r \in Requests |-> 0]
  /\ job' = [a \in Admins |-> NoJob]
  /\ UNCHANGED <<row, present, clock, top, answer, tok, ghosts>>

\* run: Scheduler.Start compensates before the server listens.
Restart ==
  /\ ~up
  /\ up' = TRUE
  /\ row' = IF present THEN Compensate(row, clock) ELSE row
  /\ owed5h' = IF present /\ row.windowStart < WindowStart(clock) THEN {} ELSE owed5h
  /\ UNCHANGED <<present, clock, top, pc, cycle, asOf, answer, tok, job,
                 charged, credited, owedTotal, week, late>>

-----------------------------------------------------------------------------
(* The administrator; a is one request to the admin API. *)

CanDo(a, op) == op \in AdminOps /\ up /\ present /\ job[a].step = "none"

\* ResetUsage, scope "calls".
AdminResetCalls(a) ==
  /\ CanDo(a, "resetCalls")
  /\ row' = ResetCallCount(row, clock)
  /\ owed5h' = {} /\ owedTotal' = {}
  /\ UNCHANGED <<present, clock, top, up, pc, cycle, asOf, answer, tok, job,
                 charged, credited, week, late>>

\* ResetUsage, scope "tokens".
AdminResetTokens(a) ==
  /\ CanDo(a, "resetTokens")
  /\ row' = ResetTokenStats(row, clock)
  /\ week' = NewWeek(Stamp(clock, LocalZone))
  /\ UNCHANGED <<present, clock, top, up, pc, cycle, asOf, answer, tok, job,
                 charged, credited, owed5h, owedTotal, late>>

\* ResetQuotaUsage (scope "all", and ExtendUser): first ResetCallCount ...
AdminResetAll(a) ==
  /\ CanDo(a, "resetAll")
  /\ row' = ResetCallCount(row, clock)
  /\ owed5h' = {} /\ owedTotal' = {}
  /\ job' = [job EXCEPT ![a] = [NoJob EXCEPT !.step = "resetTokens", !.now = clock]]
  /\ UNCHANGED <<present, clock, top, up, pc, cycle, asOf, answer, tok,
                 charged, credited, week, late>>

\* ... then ResetTokenStats, with the same now.
AdminResetAllTokens(a) ==
  /\ job[a].step = "resetTokens"
  /\ job' = [job EXCEPT ![a] = NoJob]
  /\ IF present
     THEN /\ row' = ResetTokenStats(row, job[a].now)
          /\ week' = NewWeek(Stamp(job[a].now, LocalZone))
     ELSE UNCHANGED <<row, week>>
  /\ UNCHANGED <<present, clock, top, up, pc, cycle, asOf, answer, tok,
                 charged, credited, owed5h, owedTotal, late>>

\* SetQuotaWeekStart: the SELECT.  The anchor submitted is put into UTC.
AdminReadAnchor(a) ==
  /\ CanDo(a, "anchor")
  /\ \E t \in Anchors :
       job' = [job EXCEPT ![a] =
                 [step |-> "anchor", now |-> clock, anchor |-> Stamp(t, "utc"),
                  weekStart |-> row.weekStart, weekCycle |-> row.weekCycle]]
  /\ UNCHANGED <<row, present, clock, top, up, pc, cycle, asOf, answer, tok, ghosts>>

\* SetQuotaWeekStart: one of its two UPDATEs, or none.
AdminSetAnchor(a) ==
  LET now == SetWeekStart(row, job[a], job[a].anchor, job[a].now)
  IN  /\ job[a].step = "anchor"
      /\ job' = [job EXCEPT ![a] = NoJob]
      /\ IF present
         THEN /\ row' = now
              /\ week' = IF now.weekCycle # row.weekCycle THEN NewWeek(now.weekCycle)
                         ELSE IF job[a].weekCycle # row.weekCycle THEN [week EXCEPT !.kept = FALSE] ELSE week
         ELSE UNCHANGED <<row, week>>
      /\ UNCHANGED <<present, clock, top, up, pc, cycle, asOf, answer, tok,
                     charged, credited, owed5h, owedTotal, late>>

\* UpdateUser: the statements that edit limits.
AdminLimits(a) ==
  /\ CanDo(a, "limits")
  /\ \E l \in Limits :
       row' \in {SetCallLimits(row, l.call5h, l.callTotal),
                 SetCallLimits(row, l.call5h, row.callLimitTotal),
                 SetCallLimits(row, row.callLimit5h, l.callTotal),
                 SetTokenTotalLimit(row, l.tokTotal),
                 SetTokenWindowLimits(row, l.tok5h, l.tokWeek)}
  /\ UNCHANGED <<present, clock, top, up, pc, cycle, asOf, answer, tok, job, ghosts>>

\* DeleteUser: the quotas row goes with its user (ON DELETE CASCADE).
AdminDelete(a) ==
  /\ CanDo(a, "delete")
  /\ present' = FALSE
  /\ UNCHANGED <<row, clock, top, up, pc, cycle, asOf, answer, tok, job, ghosts>>

-----------------------------------------------------------------------------
\* The user has a slot left.
SlotFree == MaxInFlight = 0 \/ Cardinality(InFlight) < MaxInFlight

\* What a request does once it has entered the gate.
Serve(r) == \/ ReadAnchor(r) \/ AlignCycle(r) \/ Charge(r) \/ Block(r)
            \/ Reject(r) \/ Answer(r) \/ GiveBack(r) \/ Account(r)

Request(r) == (SlotFree /\ Enter(r)) \/ Serve(r)
Time == Tick \/ SchedulerReset \/ MinuteOver
Process == Crash \/ Restart
Admin(a) == \/ AdminResetCalls(a) \/ AdminResetTokens(a)
            \/ AdminResetAll(a) \/ AdminResetAllTokens(a)
            \/ AdminReadAnchor(a) \/ AdminSetAnchor(a)
            \/ AdminLimits(a) \/ AdminDelete(a)

Next == \/ \E r \in Requests : Request(r)
        \/ \E a \in Admins : Admin(a)
        \/ Time \/ Process

Spec == Init /\ [][Next]_vars

\* A handler that has started goes on: every statement and every upstream call
\* ends (the HTTP clients have timeouts).  The ticker runs, minutes end, and a
\* crashed gateway is restarted.  Nobody has to send a request.
FairSpec ==
  /\ Spec
  /\ \A r \in Requests : WF_vars(Request(r) /\ pc[r] # "new")
  /\ WF_vars(Tick) /\ WF_vars(SchedulerReset) /\ WF_vars(MinuteOver)
  /\ WF_vars(Restart)

-----------------------------------------------------------------------------
(* Properties. *)

\* Types: no counter ever goes below zero, whatever refunds and resets interleave.
TypeOK ==
  /\ row \in Rows
  /\ present \in BOOLEAN /\ clock \in Nat /\ top \in BOOLEAN /\ up \in BOOLEAN
  /\ pc \in [Requests -> PCs]
  /\ cycle \in [Requests -> Stamps]
  /\ asOf \in [Requests -> Nat]
  /\ answer \in [Requests -> AllOutcomes \cup {"none"}]
  /\ tok \in [Requests -> TokenCounts \cup {0}]
  /\ job \in [Admins -> [step : {"none", "anchor", "resetTokens"}, now : Nat, anchor : Stamps,
                         weekStart : Stamps, weekCycle : Stamps]]
  /\ charged \subseteq Requests /\ credited \subseteq charged
  /\ owed5h \subseteq charged /\ owedTotal \subseteq charged
  /\ week \in [cycle : Stamps, tokens : Nat, kept : BOOLEAN]
  /\ late \subseteq Requests

\* Neither counter ever exceeds what was charged since it was last cleared and
\* not refunded since: a reset, a restart or a second admin reset between charge
\* and refund never leaves calls on the bill that nobody made.
NeverOverbilled ==
  /\ row.calls5h <= CallsOf(owed5h)
  /\ row.callsTotal <= CallsOf(owedTotal)

\* The total is exactly the calls charged since the last clear and not refunded,
\* through every 5h reset, crash and restart, until a refund comes for a request
\* whose charge an admin had cleared: that alone takes calls off the others.
TotalExact == late = {} => row.callsTotal = CallsOf(owedTotal)

\* While nobody edits the limits, the calls stored never exceed them, however
\* many gates, refunds and resets race.
CallsWithinLimits ==
  /\ row.callLimit5h = 0 \/ row.calls5h <= row.callLimit5h
  /\ row.callLimitTotal = 0 \/ row.callsTotal <= row.callLimitTotal

(***************************************************************************)
(* The token gate is soft: it lets a request pass while the bucket is      *)
(* below its limit, and the tokens come later.  While nobody edits the     *)
(* limits, a bucket stays below its limit plus the largest bill times the  *)
(* number of requests the user may have in flight.                         *)
(***************************************************************************)
Unbilled == {r \in Requests : pc[r] \in {"charged", "refunding", "billing"}}

OverageBounded(limit, used) ==
  limit # 0 /\ MaxInFlight # 0
    => used + MaxTokens * Cardinality(Unbilled) < limit + MaxTokens * MaxInFlight

TokenOverageBounded ==
  /\ OverageBounded(row.tokLimit5h, row.tok5h)
  /\ OverageBounded(row.tokLimitWeek, row.tokWeek)
  /\ OverageBounded(row.tokLimitTotal, row.tokTotal)

\* The comment on RefundQuotaUsage: "so a user is never billed for calls that
\* never succeeded" (an upstream transport error or a non-2xx upstream response).
FailedNeverBilled ==
  \A r \in Requests :
    pc[r] = "done" /\ answer[r] \notin {"none", "ok"} => r \notin owedTotal

\* What the handlers keep of that promise, whatever retries, resets and crashes come in
\* between: while the user exists, a finished call keeps nothing on the bill when the
\* upstream answered with an error status, when it could not be reached (unless the call
\* streams), or when its answer could not be read; and no successful call is refunded.
FailuresGivenBack ==
  present => \A r \in Requests : pc[r] = "done" =>
    /\ \/ answer[r] \in {"refused", "unreadable"}
       \/ answer[r] = "unreachable" /\ Mode[r] # "stream"
       => r \notin owedTotal
    /\ answer[r] = "ok" => r \notin credited

\* The weekly bucket holds every token billed since its cycle began, and no other,
\* however many requests are in flight across a rollover or an edit of the anchor: no
\* rollover wipes a cycle's own tokens, none carries tokens over.  Only a statement that
\* acts on a row it had read before the bucket moved on (a gate in a cycle that has
\* ended, an anchor edited meanwhile) clears the bucket under its cycle, and the next
\* rollover or reset mends it.
WeeklyUsageKept ==
  week.kept => row.weekCycle = week.cycle /\ row.tokWeek = week.tokens

\* The comments in AtomicDeductQuota: the bucket "recurs every 7 days from the anchor",
\* "for both the migration default and UTC values" of it.  A gate whose cycle is the
\* 7-day cycle, counted from the anchor, that the bucket belongs to leaves it alone.
CycleOf(t) == (t - row.weekStart.at) \div WeekLen

KeptWithinCycle ==
  [][\A r \in Requests :
       /\ pc[r] = "anchored" /\ pc'[r] = "charged"
       /\ CycleOf(cycle[r].at) = CycleOf(row.weekCycle.at)
       => row'.tokWeek = row.tokWeek]_vars

\* Outside minute 0 of a boundary, a running gateway has every row in the current
\* 5h window: what was used before a crash, or while it was down, is gone.
NoStaleWindow == up /\ present /\ ~top => row.windowStart >= WindowStart(clock)

\* A 5h window that has ended is eventually reset, across crashes.
WindowsRollOver ==
  (present /\ row.windowStart < WindowStart(clock))
    ~> (~present \/ row.windowStart >= WindowStart(clock))

\* Every request that starts ends: answered, refused or lost with the process.
RequestsEnd == \A r \in Requests : pc[r] \in Active ~> pc[r] \in {"done", "lost"}

\* Each call counter, on its own, implements CallMeter.
Meter5h == INSTANCE CallMeter WITH
             used <- row.calls5h, limit <- row.callLimit5h, owed <- owed5h

MeterTotal == INSTANCE CallMeter WITH
                used <- row.callsTotal, limit <- row.callLimitTotal, owed <- owedTotal

ImplementsMeter5h == Meter5h!Spec
ImplementsMeterTotal == MeterTotal!Spec
=============================================================================
