------------------------- MODULE QuotaLedgerProofs -------------------------
(***************************************************************************)
(* Theorems about QuotaLedger, for any finite set of requests, any         *)
(* multipliers, limits, anchors and clock, and any of the admin operations *)
(* a theorem does not exclude.                                             *)
(*                                                                         *)
(* Last, RequestPath implements QuotaLedger.                               *)
(***************************************************************************)
EXTENDS RequestPath, CallTicketsProofs

(* The statements keep the types of a row. *)

LEMMA WindowStartType == ASSUME NEW now \in Int PROVE WindowStart(now) \in Int
BY TimeAssumption DEF WindowStart

LEMMA AlignedCycleType ==
  ASSUME NEW a \in Stamps, NEW now \in Int
  PROVE  AlignedCycle(a, now) \in Stamps
<1>1. WeekLen \in Int /\ WeekLen > 0 /\ a.at \in Int
  BY TimeAssumption DEF Stamps
<1>2. (now - a.at) \div WeekLen \in Int
  BY <1>1
<1>3. a.at + ((now - a.at) \div WeekLen) * WeekLen \in Int
  BY <1>1, <1>2
<1>4. QED
  BY <1>3 DEF AlignedCycle, Stamps

LEMMA StampType ==
  ASSUME NEW t \in Int
  PROVE  Stamp(t, LocalZone) \in Stamps /\ Stamp(t, "utc") \in Stamps /\ Stamp(t, AnchorZone) \in Stamps
BY TimeAssumption, LedgerAssumption DEF Stamp, Stamps, LocalZone

LEMMA NewCycleType ==
  ASSUME NEW a \in Stamps, NEW now \in Int
  PROVE  NewCycle(a, now) \in Stamps
BY AlignedCycleType, StampType DEF NewCycle

\* The weeks the history variable holds.
Weeks == [cycle : Stamps, tokens : Nat, kept : BOOLEAN]

\* The operations an admin request may have under way.
Jobs == [step : {"none", "anchor", "resetTokens"}, now : Nat, anchor : Stamps,
         weekStart : Stamps, weekCycle : Stamps]

LEMMA NoJobType == NoJob \in Jobs /\ \A t \in Nat : [NoJob EXCEPT !.step = "resetTokens", !.now = t] \in Jobs
<1>1. Stamp(0, "utc") \in Stamps
  BY StampType
<1>2. QED
  BY <1>1 DEF NoJob, Jobs

LEMMA NewWeekType == ASSUME NEW t \in Stamps PROVE NewWeek(t) \in Weeks
BY DEF NewWeek, Weeks

LEMMA DeductType ==
  ASSUME NEW q \in Rows, NEW n \in Nat, NEW c \in Stamps, NEW now \in Int
  PROVE  Deduct(q, n, c, now) \in Rows
<1>1. /\ q.calls5h + n \in Nat /\ q.callsTotal + n \in Nat
      /\ q.tokWeek \in Nat /\ q.tokTotal \in Nat /\ q.monthStart \in Int
  BY DEF Rows
<1>2. WeekUsedIn(q, c) \in Nat /\ MonthUsedAt(q, now) \in Nat
  BY <1>1 DEF WeekUsedIn, MonthUsedAt
<1>3. (IF MonthOver(q, now) THEN now ELSE q.monthStart) \in Int
  BY <1>1
<1>4. QED
  BY <1>1, <1>2, <1>3 DEF Deduct, Rows

LEMMA MinusType == ASSUME NEW m \in Nat, NEW n \in Nat PROVE Minus(m, n) \in Nat
BY DEF Minus

LEMMA SettleType ==
  ASSUME NEW q \in Rows, NEW n \in Nat
  PROVE  Refund(q, n) \in Rows /\ AddTokens(q, n) \in Rows
<1>1. Minus(q.calls5h, n) \in Nat /\ Minus(q.callsTotal, n) \in Nat
  BY MinusType DEF Rows
<1>2. q.tok5h + n \in Nat /\ q.tokWeek + n \in Nat /\ q.tokTotal + n \in Nat
  BY DEF Rows
<1>3. Refund(q, n) \in Rows
  BY <1>1 DEF Refund, Rows
<1>4. AddTokens(q, n) \in Rows
  BY <1>2 DEF AddTokens, Rows
<1>5. QED
  BY <1>3, <1>4

LEMMA SchedulerType ==
  ASSUME NEW q \in Rows, NEW now \in Int
  PROVE  Reset5h(q, now) \in Rows /\ Compensate(q, now) \in Rows
BY WindowStartType DEF Reset5h, Compensate, Rows

LEMMA AdminType ==
  ASSUME NEW q \in Rows, NEW now \in Int
  PROVE  ResetCallCount(q, now) \in Rows /\ ResetTokenStats(q, now) \in Rows
BY StampType DEF ResetCallCount, ResetTokenStats, Rows

LEMMA AnchorType ==
  ASSUME NEW q \in Rows, NEW seen, NEW a \in Stamps, NEW now \in Int
  PROVE  SetWeekStart(q, seen, a, now) \in Rows
BY AlignedCycleType DEF SetWeekStart, Rows

LEMMA LimitsType ==
  ASSUME NEW q \in Rows, NEW l \in LimitRecords
  PROVE  /\ SetCallLimits(q, l.call5h, l.callTotal) \in Rows
         /\ SetCallLimits(q, l.call5h, q.callLimitTotal) \in Rows
         /\ SetCallLimits(q, q.callLimit5h, l.callTotal) \in Rows
         /\ SetTokenTotalLimit(q, l.tokTotal) \in Rows
         /\ SetTokenWindowLimits(q, l.tok5h, l.tokWeek) \in Rows
BY DEF SetCallLimits, SetTokenTotalLimit, SetTokenWindowLimits, Rows, LimitRecords

-----------------------------------------------------------------------------
\* What the control state of a request says about its charge.
ChargedByPC ==
  \A r \in Requests :
    /\ pc[r] \in {"new", "entered", "read", "anchored", "blocked"} => r \notin charged
    /\ pc[r] \in {"charged", "refunding", "billing"} => r \in charged
    /\ pc[r] \in {"charged", "refunding"} => r \notin credited

Shape == TypeOK /\ ChargedByPC

LEMMA ShapeInit == Init => Shape
<1> SUFFICES ASSUME Init PROVE Shape
  OBVIOUS
<1>1. Stamp(0, "utc") \in Stamps /\ Stamp(0, AnchorZone) \in Stamps
  BY StampType
<1>2. row \in Rows
  BY TimeAssumption, <1>1, LedgerAssumption DEF Init, NewRow, Rows, LimitRecords
<1>3. QED
  BY <1>1, <1>2, NoJobType DEF Init, Shape, TypeOK, ChargedByPC, PCs, AllOutcomes, Jobs, NoCycle

LEMMA ShapeStep == Shape /\ [Next]_vars => Shape'
<1> SUFFICES ASSUME Shape, [Next]_vars PROVE Shape'
  OBVIOUS
<1> USE DEF Shape, TypeOK, ChargedByPC, PCs, Active
<1>0. /\ \A q \in Requests : Calls[q] \in Nat
      /\ TokenCounts \cup {0} \subseteq Nat
      /\ row.weekStart \in Stamps /\ row.weekCycle \in Stamps
  BY CallsAssumption, LedgerAssumption DEF Rows
<1>v. ASSUME NEW r \in Requests, Leave(r)
      PROVE  cycle' \in [Requests -> Stamps] /\ asOf' \in [Requests -> Nat]
  BY <1>v, StampType DEF Leave, NoCycle
<1>1. ASSUME NEW r \in Requests, Enter(r) \/ ReadAnchor(r) \/ AlignCycle(r) PROVE Shape'
  <2>1. CASE Enter(r)
    BY <2>1 DEF Enter, ghosts, Active
  <2>2. CASE ReadAnchor(r)
    BY <1>0, <2>2 DEF ReadAnchor, ghosts, Active
  <2>3. CASE AlignCycle(r)
    <3>1. NewCycle(cycle[r], clock) \in Stamps
      BY NewCycleType
    <3>2. QED
      BY <2>3, <3>1 DEF AlignCycle, ghosts, Active
  <2>4. QED
    BY <1>1, <2>1, <2>2, <2>3
<1>2. ASSUME NEW r \in Requests, Charge(r) PROVE Shape'
  <2>1. row' = Deduct(row, Calls[r], cycle[r], asOf[r])
    BY <1>2 DEF Charge
  <2>2. row \in Rows /\ Calls[r] \in Nat /\ cycle[r] \in Stamps /\ asOf[r] \in Int
    BY <1>0
  <2>3. row' \in Rows
    BY <2>1, <2>2, DeductType
  <2>4. week' \in Weeks
    <3>1. week \in Weeks /\ [week EXCEPT !.kept = FALSE] \in Weeks /\ NewWeek(cycle[r]) \in Weeks
      BY <2>2, NewWeekType DEF Weeks
    <3>2. week' \in {week, [week EXCEPT !.kept = FALSE], NewWeek(cycle[r])}
      BY <1>2 DEF Charge
    <3> HIDE DEF Shape, TypeOK
    <3> QED
      BY <3>1, <3>2
  <2>5. cycle' \in [Requests -> Stamps] /\ asOf' \in [Requests -> Nat]
    BY <1>2, <1>v DEF Charge
  <2>6. TypeOK'
    BY <1>2, <2>3, <2>4, <2>5 DEF Charge, Weeks
  <2>7. ChargedByPC'
    BY <1>2 DEF Charge
  <2>8. QED
    BY <2>6, <2>7
<1>3. ASSUME NEW r \in Requests, Block(r) PROVE Shape'
  <2>1. cycle' \in [Requests -> Stamps] /\ asOf' \in [Requests -> Nat]
    BY <1>3, <1>v DEF Block
  <2>2. TypeOK'
    BY <1>3, <2>1 DEF Block, ghosts
  <2>3. ChargedByPC'
    BY <1>3 DEF Block, ghosts
  <2>4. QED
    BY <2>2, <2>3
<1>4. ASSUME NEW r \in Requests, Reject(r) PROVE Shape'
  BY <1>4 DEF Reject, ghosts
<1>5. ASSUME NEW r \in Requests, Answer(r) PROVE Shape'
  <2>1. PICK o \in Outcomes :
          /\ answer' = [answer EXCEPT ![r] = o]
          /\ pc' = [pc EXCEPT ![r] = AfterAnswer(Mode[r], o)]
          /\ \E t \in TokenCounts \cup {0} : tok' = [tok EXCEPT ![r] = t]
    BY <1>5 DEF Answer
  <2>2. AfterAnswer(Mode[r], o) \in {"refunding", "billing", "done"} /\ o \in AllOutcomes
    BY LedgerAssumption DEF AfterAnswer
  <2>3. TypeOK'
    BY <1>5, <2>1, <2>2 DEF Answer, ghosts
  <2>4. ChargedByPC'
    BY <1>5, <2>1, <2>2 DEF Answer, ghosts
  <2>5. QED
    BY <2>3, <2>4
<1>6. ASSUME NEW r \in Requests, GiveBack(r) PROVE Shape'
  <2>1. row' \in Rows
    BY <1>0, <1>6, SettleType DEF GiveBack
  <2>2. AfterRefund(Mode[r], answer[r]) \in {"billing", "done"}
    BY DEF AfterRefund
  <2>3. TypeOK'
    BY <1>6, <2>1, <2>2 DEF GiveBack
  <2>4. ChargedByPC'
    BY <1>6, <2>2 DEF GiveBack
  <2>5. QED
    BY <2>3, <2>4
<1>7. ASSUME NEW r \in Requests, Account(r) PROVE Shape'
  <2>1. tok[r] \in Nat
    BY <1>0
  <2>2. row' \in Rows
    <3>1. row \in Rows /\ row' \in {row, AddTokens(row, tok[r])}
      BY <1>7 DEF Account
    <3>2. QED
      BY <2>1, <3>1, SettleType
  <2>3. week' \in [cycle : Stamps, tokens : Nat, kept : BOOLEAN]
    <3>1. [week EXCEPT !.tokens = @ + tok[r]] \in [cycle : Stamps, tokens : Nat, kept : BOOLEAN]
      BY <2>1
    <3>2. QED
      BY <1>7, <3>1 DEF Account
  <2>4. QED
    BY <1>7, <2>2, <2>3 DEF Account
<1>8. CASE Tick
  BY <1>8 DEF Tick, AtBoundary, ghosts
<1>9. CASE SchedulerReset
  <2>1. row' \in Rows
    BY <1>9, SchedulerType DEF SchedulerReset
  <2>2. QED
    BY <1>9, <2>1 DEF SchedulerReset
<1>10. CASE MinuteOver
  BY <1>10 DEF MinuteOver, ghosts
<1>11. CASE Crash
  <2>1. job' \in [Admins -> Jobs]
    BY <1>11, NoJobType DEF Crash
  <2>2. cycle' \in [Requests -> Stamps] /\ asOf' \in [Requests -> Nat]
    BY <1>11, StampType DEF Crash, NoCycle
  <2>3. TypeOK'
    BY <1>11, <2>1, <2>2 DEF Crash, Active, ghosts, Jobs
  <2>4. ChargedByPC'
    BY <1>11 DEF Crash, Active, ghosts
  <2>5. QED
    BY <2>3, <2>4
<1>12. CASE Restart
  <2>1. row' \in Rows
    BY <1>12, SchedulerType DEF Restart
  <2>2. QED
    BY <1>12, <2>1 DEF Restart
<1>13. ASSUME NEW a \in Admins, AdminResetCalls(a) PROVE Shape'
  <2>1. row' \in Rows
    BY <1>13, AdminType DEF AdminResetCalls
  <2>2. QED
    BY <1>13, <2>1 DEF AdminResetCalls
<1>14. ASSUME NEW a \in Admins, AdminResetTokens(a) PROVE Shape'
  <2>1. row' \in Rows /\ Stamp(clock, LocalZone) \in Stamps
    BY <1>14, AdminType, StampType DEF AdminResetTokens
  <2>2. QED
    BY <1>14, <2>1, NewWeekType DEF AdminResetTokens, Weeks
<1>15. ASSUME NEW a \in Admins, AdminResetAll(a) PROVE Shape'
  <2>1. row' \in Rows
    BY <1>15, AdminType DEF AdminResetAll
  <2>2. [NoJob EXCEPT !.step = "resetTokens", !.now = clock] \in Jobs
    BY NoJobType
  <2>3. QED
    BY <1>15, <2>1, <2>2 DEF AdminResetAll, Jobs
<1>16. ASSUME NEW a \in Admins, AdminResetAllTokens(a) PROVE Shape'
  <2>1. job[a].now \in Nat
    OBVIOUS
  <2>2. Stamp(job[a].now, LocalZone) \in Stamps
    BY <2>1, StampType
  <2>3. row' \in Rows
    BY <1>16, <2>1, AdminType DEF AdminResetAllTokens
  <2>4. QED
    BY <1>16, <2>2, <2>3, NoJobType, NewWeekType DEF AdminResetAllTokens, Weeks, Jobs
<1>17. ASSUME NEW a \in Admins, AdminReadAnchor(a) PROVE Shape'
  <2>1. PICK t \in Anchors :
          job' = [job EXCEPT ![a] =
                    [step |-> "anchor", now |-> clock, anchor |-> Stamp(t, "utc"),
                     weekStart |-> row.weekStart, weekCycle |-> row.weekCycle]]
    BY <1>17 DEF AdminReadAnchor
  <2>2. Stamp(t, "utc") \in Stamps
    BY LedgerAssumption, StampType
  <2>3. QED
    BY <1>0, <1>17, <2>1, <2>2 DEF AdminReadAnchor, ghosts
<1>18. ASSUME NEW a \in Admins, AdminSetAnchor(a) PROVE Shape'
  <2> DEFINE new == SetWeekStart(row, job[a], job[a].anchor, job[a].now)
  <2>1. new \in Rows
    BY AnchorType
  <2>2. row' \in Rows /\ week' \in Weeks
    <3>1. new.weekCycle \in Stamps
      BY <2>1 DEF Rows
    <3> HIDE DEF new
    <3>2. \/ row' = new /\ week' \in {week, [week EXCEPT !.kept = FALSE], NewWeek(new.weekCycle)}
          \/ row' = row /\ week' = week
      BY <1>18 DEF AdminSetAnchor, new
    <3>3. week \in Weeks /\ [week EXCEPT !.kept = FALSE] \in Weeks /\ row \in Rows
      BY DEF Weeks
    <3> HIDE DEF Shape, TypeOK
    <3>4. QED
      BY <2>1, <3>1, <3>2, <3>3, NewWeekType
  <2>3. QED
    BY <1>18, <2>2, NoJobType DEF AdminSetAnchor, Weeks, Jobs
<1>19. ASSUME NEW a \in Admins, AdminLimits(a) PROVE Shape'
  <2>1. row' \in Rows
    <3>1. PICK l \in Limits :
            row' \in {SetCallLimits(row, l.call5h, l.callTotal),
                     SetCallLimits(row, l.call5h, row.callLimitTotal),
                     SetCallLimits(row, row.callLimit5h, l.callTotal),
                     SetTokenTotalLimit(row, l.tokTotal),
                     SetTokenWindowLimits(row, l.tok5h, l.tokWeek)}
      BY <1>19 DEF AdminLimits
    <3>2. l \in LimitRecords /\ row \in Rows
      BY LedgerAssumption
    <3> HIDE DEF Shape, TypeOK
    <3>3. QED
      BY <3>1, <3>2, LimitsType
  <2>2. QED
    BY <1>19, <2>1 DEF AdminLimits, ghosts
<1>20. ASSUME NEW a \in Admins, AdminDelete(a) PROVE Shape'
  BY <1>20 DEF AdminDelete, ghosts
<1>21. CASE UNCHANGED vars
  BY <1>21 DEF vars, realVars, ghosts
<1>22. QED
  BY <1>1, <1>2, <1>3, <1>4, <1>5, <1>6, <1>7, <1>8, <1>9, <1>10, <1>11, <1>12, <1>13, <1>14,
     <1>15, <1>16, <1>17, <1>18, <1>19, <1>20, <1>21
     DEF Next, Request, Serve, Time, Process, Admin

\* Every step keeps the types; in particular no counter of the row is ever
\* negative, whatever refunds, resets, crashes and restarts interleave.
THEOREM LedgerTypes == Spec => []TypeOK
<1>1. Shape => TypeOK
  BY DEF Shape
<1>2. QED
  BY <1>1, ShapeInit, ShapeStep, PTL DEF Spec

-----------------------------------------------------------------------------
(* What a step does to the two call counters: there are five ways, and every *)
(* action is one of them.  The theorems about calls rest on this lemma only. *)

SameCallLimits ==
  row'.callLimit5h = row.callLimit5h /\ row'.callLimitTotal = row.callLimitTotal
SameCalls == row'.calls5h = row.calls5h /\ row'.callsTotal = row.callsTotal

ChargesCalls(r) ==
  /\ r \notin charged
  /\ CallsOpen(row, Calls[r])
  /\ row'.calls5h = row.calls5h + Calls[r] /\ row'.callsTotal = row.callsTotal + Calls[r]
  /\ SameCallLimits
  /\ owed5h' = owed5h \cup {r} /\ owedTotal' = owedTotal \cup {r}
  /\ charged' = charged \cup {r} /\ credited' = credited /\ late' = late

CreditsCalls(r) ==
  /\ r \in charged \ credited
  /\ row'.calls5h = Minus(row.calls5h, Calls[r])
  /\ row'.callsTotal = Minus(row.callsTotal, Calls[r])
  /\ SameCallLimits
  /\ owed5h' = owed5h \ {r} /\ owedTotal' = owedTotal \ {r}
  /\ charged' = charged /\ credited' = credited \cup {r}
  /\ late' = late \cup ({r} \ owedTotal)

Clears5h ==
  /\ row'.calls5h = 0 /\ owed5h' = {}
  /\ row'.callsTotal = row.callsTotal /\ owedTotal' = owedTotal
  /\ SameCallLimits
  /\ charged' = charged /\ credited' = credited /\ late' = late

ClearsBoth ==
  /\ row'.calls5h = 0 /\ owed5h' = {}
  /\ row'.callsTotal = 0 /\ owedTotal' = {}
  /\ SameCallLimits
  /\ charged' = charged /\ credited' = credited /\ late' = late

KeepsCalls ==
  /\ SameCalls
  /\ UNCHANGED <<owed5h, owedTotal, charged, credited, late>>
  /\ SameCallLimits \/ "limits" \in AdminOps

CallsEffect ==
  (\E r \in Requests : ChargesCalls(r) \/ CreditsCalls(r)) \/ Clears5h \/ ClearsBoth \/ KeepsCalls

\* The statements that do not count calls keep every call field of the row.
CallFields(q) == <<q.calls5h, q.callsTotal, q.callLimit5h, q.callLimitTotal>>

LEMMA TokenStatementsKeepCalls ==
  ASSUME NEW q \in Rows, NEW n \in Nat, NEW now, NEW seen, NEW a
  PROVE  /\ CallFields(AddTokens(q, n)) = CallFields(q)
         /\ CallFields(ResetTokenStats(q, now)) = CallFields(q)
         /\ CallFields(SetWeekStart(q, seen, a, now)) = CallFields(q)
<1>1. CallFields(AddTokens(q, n)) = CallFields(q)
  BY DEF CallFields, AddTokens, Rows
<1>2. CallFields(ResetTokenStats(q, now)) = CallFields(q)
  BY DEF CallFields, ResetTokenStats, Rows
<1>3. CallFields(SetWeekStart(q, seen, a, now)) = CallFields(q)
  BY DEF CallFields, SetWeekStart, Rows
<1>4. QED
  BY <1>1, <1>2, <1>3

LEMMA RefundedCalls ==
  ASSUME NEW q \in Rows, NEW n \in Nat
  PROVE  /\ Refund(q, n).calls5h = Minus(q.calls5h, n)
         /\ Refund(q, n).callsTotal = Minus(q.callsTotal, n)
         /\ Refund(q, n).callLimit5h = q.callLimit5h
         /\ Refund(q, n).callLimitTotal = q.callLimitTotal
<1>1. CASE n = 0
  BY <1>1 DEF Refund, Minus, Rows
<1>2. CASE n # 0
  <2> HIDE DEF Minus
  <2>1. QED
    BY <1>2 DEF Refund, Rows
<1>3. QED
  BY <1>1, <1>2

LEMMA CallsStep == Shape /\ [Next]_vars => CallsEffect
<1> SUFFICES ASSUME Shape, [Next]_vars PROVE CallsEffect
  OBVIOUS
<1>0. row \in Rows /\ (\A r \in Requests : Calls[r] \in Nat /\ tok[r] \in Nat) /\ ChargedByPC
  <2>1. \A r \in Requests : Calls[r] \in Nat
    BY CallsAssumption
  <2>2. TokenCounts \cup {0} \subseteq Nat
    BY LedgerAssumption
  <2>3. QED
    BY <2>1, <2>2 DEF Shape, TypeOK
<1> DEFINE K == CallFields(row') = CallFields(row)
               /\ UNCHANGED <<owed5h, owedTotal, charged, credited, late>>
<1>a. K => CallsEffect
  BY DEF CallFields, CallsEffect, KeepsCalls, SameCalls, SameCallLimits
<1>b. UNCHANGED row /\ UNCHANGED <<owed5h, owedTotal, charged, credited, late>> => CallsEffect
  BY <1>a DEF CallFields
<1> HIDE DEF K
<1>1. ASSUME NEW r \in Requests,
             \/ Enter(r) \/ ReadAnchor(r) \/ AlignCycle(r) \/ Block(r) \/ Reject(r) \/ Answer(r)
      PROVE  CallsEffect
  BY <1>1, <1>b DEF Enter, ReadAnchor, AlignCycle, Block, Reject, Answer, ghosts
<1>2. ASSUME NEW r \in Requests, Charge(r) PROVE CallsEffect
  <2>1. r \notin charged
    BY <1>0, <1>2 DEF Charge, ChargedByPC
  <2>2. CallsOpen(row, Calls[r])
    BY <1>2 DEF Charge, Passes, GateOpen
  <2>3. /\ row'.calls5h = row.calls5h + Calls[r] /\ row'.callsTotal = row.callsTotal + Calls[r]
        /\ SameCallLimits
    BY <1>0, <1>2 DEF Charge, Deduct, Rows, SameCallLimits
  <2>4. ChargesCalls(r)
    BY <1>2, <2>1, <2>2, <2>3 DEF Charge, ChargesCalls
  <2>5. QED
    BY <2>4 DEF CallsEffect
<1>3. ASSUME NEW r \in Requests, GiveBack(r) PROVE CallsEffect
  <2>1. CASE present
    <3>1. r \in charged \ credited
      BY <1>0, <1>3 DEF GiveBack, ChargedByPC
    <3>2. /\ row'.calls5h = Minus(row.calls5h, Calls[r])
          /\ row'.callsTotal = Minus(row.callsTotal, Calls[r])
          /\ SameCallLimits
      BY <1>0, <1>3, <2>1, RefundedCalls DEF GiveBack, SameCallLimits
    <3>3. CreditsCalls(r)
      BY <1>3, <2>1, <3>1, <3>2 DEF GiveBack, CreditsCalls
    <3>4. QED
      BY <3>3 DEF CallsEffect
  <2>2. CASE ~present
    BY <1>3, <2>2, <1>b DEF GiveBack
  <2>3. QED
    BY <2>1, <2>2
<1>4. ASSUME NEW r \in Requests, Account(r) PROVE CallsEffect
  <2>1. CallFields(row') = CallFields(row)
    BY <1>0, <1>4, TokenStatementsKeepCalls DEF Account
  <2>2. QED
    BY <1>4, <1>a, <2>1 DEF Account, K
<1>5. ASSUME \/ Tick \/ MinuteOver \/ Crash
             \/ \E a \in Admins : AdminReadAnchor(a) \/ AdminDelete(a)
      PROVE  CallsEffect
  BY <1>5, <1>b DEF Tick, MinuteOver, Crash, AdminReadAnchor, AdminDelete, ghosts
<1>6. CASE SchedulerReset
  <2>1. CASE present
    <3>1. Clears5h
      BY <1>0, <1>6, <2>1 DEF SchedulerReset, Reset5h, Rows, Clears5h, SameCallLimits
    <3>2. QED
      BY <3>1 DEF CallsEffect
  <2>2. CASE ~present
    BY <1>6, <2>2, <1>b DEF SchedulerReset
  <2>3. QED
    BY <2>1, <2>2
<1>7. CASE Restart
  <2>1. CASE present /\ row.windowStart < WindowStart(clock)
    <3>1. Clears5h
      BY <1>0, <1>7, <2>1 DEF Restart, Compensate, Rows, Clears5h, SameCallLimits
    <3>2. QED
      BY <3>1 DEF CallsEffect
  <2>2. CASE ~(present /\ row.windowStart < WindowStart(clock))
    BY <1>7, <2>2, <1>b DEF Restart, Compensate
  <2>3. QED
    BY <2>1, <2>2
<1>8. ASSUME NEW a \in Admins, AdminResetCalls(a) \/ AdminResetAll(a) PROVE CallsEffect
  <2>1. ClearsBoth
    BY <1>0, <1>8
       DEF AdminResetCalls, AdminResetAll, CanDo, ResetCallCount, Rows, ClearsBoth,
           SameCallLimits
  <2>2. QED
    BY <2>1 DEF CallsEffect
<1>9. ASSUME NEW a \in Admins, AdminResetTokens(a) \/ AdminResetAllTokens(a) \/ AdminSetAnchor(a)
      PROVE  CallsEffect
  <2>1. CallFields(row') = CallFields(row)
    BY <1>0, <1>9, TokenStatementsKeepCalls
       DEF AdminResetTokens, AdminResetAllTokens, AdminSetAnchor
  <2>2. QED
    BY <1>9, <1>a, <2>1 DEF AdminResetTokens, AdminResetAllTokens, AdminSetAnchor, K
<1>10. ASSUME NEW a \in Admins, AdminLimits(a) PROVE CallsEffect
  <2>1. PICK l \in Limits :
          row' \in {SetCallLimits(row, l.call5h, l.callTotal),
                   SetCallLimits(row, l.call5h, row.callLimitTotal),
                   SetCallLimits(row, row.callLimit5h, l.callTotal),
                   SetTokenTotalLimit(row, l.tokTotal),
                   SetTokenWindowLimits(row, l.tok5h, l.tokWeek)}
    BY <1>10 DEF AdminLimits
  <2>2. SameCalls
    BY <1>0, <2>1 DEF SetCallLimits, SetTokenTotalLimit, SetTokenWindowLimits, Rows, SameCalls
  <2>3. KeepsCalls
    BY <1>10, <2>2 DEF AdminLimits, CanDo, ghosts, KeepsCalls
  <2>4. QED
    BY <2>3 DEF CallsEffect
<1>11. CASE UNCHANGED vars
  BY <1>11, <1>b DEF vars, realVars, ghosts
<1>12. QED
  BY <1>1, <1>2, <1>3, <1>4, <1>5, <1>6, <1>7, <1>8, <1>9, <1>10, <1>11
     DEF Next, Request, Serve, Time, Process, Admin

-----------------------------------------------------------------------------
(* The call counters. *)

Owes(owed) == owed \subseteq charged \ credited

\* What the theorems about calls need of the state, by the step lemma.
CallsInv ==
  /\ Shape
  /\ Owes(owed5h) /\ Owes(owedTotal)
  /\ NeverOverbilled

LEMMA CallsNat ==
  ASSUME Shape
  PROVE  /\ row.calls5h \in Nat /\ row.callsTotal \in Nat
         /\ row.callLimit5h \in Nat /\ row.callLimitTotal \in Nat
         /\ charged \subseteq Requests
         /\ \A r \in Requests : Calls[r] \in Nat
<1>1. row \in Rows /\ charged \subseteq Requests
  BY DEF Shape, TypeOK
<1>2. QED
  BY <1>1, CallsAssumption DEF Rows

LEMMA CallsInitially ==
  ASSUME Init
  PROVE  /\ row.calls5h = 0 /\ row.callsTotal = 0
         /\ row.callLimit5h \in Nat /\ row.callLimitTotal \in Nat
         /\ owed5h = {} /\ owedTotal = {} /\ charged = {} /\ credited = {}
<1>1. PICK l \in Limits : row = NewRow(l)
  BY DEF Init
<1>2. l \in LimitRecords
  BY LedgerAssumption
<1>3. QED
  BY <1>1, <1>2 DEF Init, NewRow, LimitRecords

LEMMA CallsInvInit == Init => CallsInv
BY ShapeInit, CallsInitially, NoTickets DEF CallsInv, Owes, NeverOverbilled

LEMMA CallsInvStep == CallsInv /\ [Next]_vars => CallsInv'
<1> SUFFICES ASSUME CallsInv, [Next]_vars PROVE CallsInv'
  OBVIOUS
<1>0. Shape /\ Shape' /\ CallsEffect
  BY ShapeStep, CallsStep DEF CallsInv
<1>a. /\ row.calls5h \in Nat /\ row.callsTotal \in Nat /\ charged \subseteq Requests
      /\ \A r \in Requests : Calls[r] \in Nat
  BY <1>0, CallsNat
<1>b. /\ row.calls5h <= CallsOf(owed5h) /\ row.callsTotal <= CallsOf(owedTotal)
      /\ Owes(owed5h) /\ Owes(owedTotal)
  BY DEF CallsInv, NeverOverbilled
<1> SUFFICES Owes(owed5h)' /\ Owes(owedTotal)' /\ NeverOverbilled'
  BY <1>0 DEF CallsInv
<1>1. ASSUME NEW r \in Requests, ChargesCalls(r)
      PROVE  Owes(owed5h)' /\ Owes(owedTotal)' /\ NeverOverbilled'
  <2>1. r \notin owed5h /\ r \notin owedTotal /\ r \notin credited
    BY <1>0, <1>1, <1>b DEF ChargesCalls, Owes, Shape, TypeOK
  <2>2. /\ CallsOf(owed5h \cup {r}) = CallsOf(owed5h) + Calls[r] /\ CallsOf(owed5h) \in Nat
        /\ CallsOf(owedTotal \cup {r}) = CallsOf(owedTotal) + Calls[r] /\ CallsOf(owedTotal) \in Nat
    BY <2>1, TicketsAdded, TicketsFinite
  <2>3. NeverOverbilled'
    BY <1>1, <1>a, <1>b, <2>2 DEF ChargesCalls, NeverOverbilled
  <2>4. QED
    BY <1>1, <1>b, <2>1, <2>3 DEF ChargesCalls, Owes
<1>2. ASSUME NEW r \in Requests, CreditsCalls(r)
      PROVE  Owes(owed5h)' /\ Owes(owedTotal)' /\ NeverOverbilled'
  <2>1. ASSUME NEW S, NEW used \in Nat, used <= CallsOf(S)
        PROVE  Minus(used, Calls[r]) <= CallsOf(S \ {r})
    <3>1. /\ CallsOf(S \ {r}) = IF r \in S THEN CallsOf(S) - Calls[r] ELSE CallsOf(S)
          /\ CallsOf(S) \in Nat /\ CallsOf(S \ {r}) \in Nat /\ Calls[r] \in Nat
      BY <1>a, TicketsRemoved, TicketsFinite
    <3>2. QED
      BY <2>1, <3>1 DEF Minus
  <2>2. /\ Minus(row.calls5h, Calls[r]) <= CallsOf(owed5h \ {r})
        /\ Minus(row.callsTotal, Calls[r]) <= CallsOf(owedTotal \ {r})
    BY <1>a, <1>b, <2>1
  <2>3. NeverOverbilled'
    BY <1>2, <2>2 DEF CreditsCalls, NeverOverbilled
  <2>4. QED
    BY <1>2, <1>b, <2>3 DEF CreditsCalls, Owes
<1>3. CASE Clears5h \/ ClearsBoth
  BY <1>3, <1>b, NoTickets DEF Clears5h, ClearsBoth, Owes, NeverOverbilled
<1>4. CASE KeepsCalls
  BY <1>4, <1>b DEF KeepsCalls, SameCalls, Owes, NeverOverbilled
<1>5. QED
  BY <1>0, <1>1, <1>2, <1>3, <1>4 DEF CallsEffect

\* Neither call counter ever holds calls that were not made: whatever gates,
\* refunds, 5h resets, crashes, restarts and admin resets interleave, a user is
\* billed at most for what was charged since the last clear and not given back.
THEOREM LedgerNeverOverbills == Spec => []NeverOverbilled
<1>1. CallsInv => NeverOverbilled
  BY DEF CallsInv
<1>2. QED
  BY <1>1, CallsInvInit, CallsInvStep, PTL DEF Spec

\* The total is to the call what was charged since the last clear and not given
\* back: no crash, 5h reset or race of gates loses or invents a call, and an admin
\* reset only when a refund comes after it for a request charged before it.
THEOREM LedgerTotalIsExact == Spec => []TotalExact
<1> DEFINE I == Shape /\ TotalExact
<1>1. Init => I
  BY ShapeInit, CallsInitially, NoTickets DEF TotalExact
<1>2. I /\ [Next]_vars => I'
  <2> SUFFICES ASSUME I, [Next]_vars PROVE I'
    OBVIOUS
  <2>0. Shape' /\ CallsEffect
    BY ShapeStep, CallsStep
  <2>a. row.callsTotal \in Nat /\ (\A r \in Requests : Calls[r] \in Nat)
    BY CallsNat
  <2>1. ASSUME NEW r \in Requests, ChargesCalls(r) PROVE TotalExact'
    <3>1. r \notin owedTotal
      BY <2>1 DEF ChargesCalls, Shape, TypeOK
    <3>2. CallsOf(owedTotal \cup {r}) = CallsOf(owedTotal) + Calls[r]
      BY <3>1, TicketsAdded
    <3>3. QED
      BY <2>1, <3>2 DEF ChargesCalls, TotalExact
  <2>2. ASSUME NEW r \in Requests, CreditsCalls(r), late' = {} PROVE TotalExact'
    <3>1. r \in owedTotal /\ late = {}
      BY <2>2 DEF CreditsCalls
    <3>2. /\ CallsOf(owedTotal \ {r}) = CallsOf(owedTotal) - Calls[r]
          /\ CallsOf(owedTotal \ {r}) \in Nat /\ CallsOf(owedTotal) \in Nat
      BY <3>1, TicketsRemoved, TicketsFinite
    <3>3. Minus(row.callsTotal, Calls[r]) = row.callsTotal - Calls[r]
      BY <2>a, <3>1, <3>2 DEF Minus, TotalExact
    <3>4. QED
      BY <2>2, <3>1, <3>2, <3>3 DEF CreditsCalls, TotalExact
  <2>3. CASE Clears5h \/ ClearsBoth
    BY <2>0, <2>3, NoTickets DEF Clears5h, ClearsBoth, TotalExact
  <2>4. CASE KeepsCalls
    BY <2>0, <2>4 DEF KeepsCalls, SameCalls, TotalExact
  <2>5. QED
    BY <2>0, <2>1, <2>2, <2>3, <2>4 DEF CallsEffect, TotalExact
<1>3. QED
  BY <1>1, <1>2, PTL DEF Spec

\* While nobody edits the limits, the stored calls never exceed them, however
\* many requests pass the gate at once.
THEOREM LedgerHonoursCallLimits == "limits" \notin AdminOps /\ Spec => []CallsWithinLimits
<1> SUFFICES ASSUME "limits" \notin AdminOps PROVE Spec => []CallsWithinLimits
  OBVIOUS
<1> DEFINE I == Shape /\ CallsWithinLimits
<1>1. Init => I
  BY ShapeInit, CallsInitially DEF CallsWithinLimits
<1>2. I /\ [Next]_vars => I'
  <2> SUFFICES ASSUME I, [Next]_vars PROVE I'
    OBVIOUS
  <2>0. Shape' /\ CallsEffect
    BY ShapeStep, CallsStep
  <2>a. /\ row.calls5h \in Nat /\ row.callsTotal \in Nat
        /\ row.callLimit5h \in Nat /\ row.callLimitTotal \in Nat
        /\ \A r \in Requests : Calls[r] \in Nat
    BY CallsNat
  <2>1. ASSUME NEW r \in Requests, ChargesCalls(r) PROVE I'
    BY <2>0, <2>1 DEF ChargesCalls, CallsOpen, Fits, SameCallLimits, CallsWithinLimits
  <2>2. ASSUME NEW r \in Requests, CreditsCalls(r) PROVE I'
    <3>1. ASSUME NEW m \in Nat PROVE Minus(m, Calls[r]) \in Nat /\ Minus(m, Calls[r]) <= m
      BY <2>a DEF Minus
    <3>2. row'.calls5h <= row.calls5h /\ row'.callsTotal <= row.callsTotal
          /\ row'.calls5h \in Nat /\ row'.callsTotal \in Nat
      BY <2>2, <2>a, <3>1 DEF CreditsCalls
    <3>3. QED
      BY <2>0, <2>2, <2>a, <3>2 DEF CreditsCalls, SameCallLimits, CallsWithinLimits
  <2>3. CASE Clears5h \/ ClearsBoth
    BY <2>0, <2>a, <2>3 DEF Clears5h, ClearsBoth, SameCallLimits, CallsWithinLimits
  <2>4. CASE KeepsCalls
    BY <2>0, <2>4 DEF KeepsCalls, SameCalls, SameCallLimits, CallsWithinLimits
  <2>5. QED
    BY <2>0, <2>1, <2>2, <2>3, <2>4 DEF CallsEffect
<1>3. QED
  BY <1>1, <1>2, PTL DEF Spec

-----------------------------------------------------------------------------
(* Each counter implements CallMeter. *)

\* The 5h call counter is a CallMeter, whatever else the row goes through.
THEOREM LedgerImplementsMeter5h == Spec => ImplementsMeter5h
<1>1. Init => Meter5h!Init
  BY CallsInitially DEF Meter5h!Init
<1>2. Shape /\ [Next]_vars => [Meter5h!Next]_(Meter5h!meterVars)
  <2> SUFFICES ASSUME Shape, [Next]_vars PROVE [Meter5h!Next]_(Meter5h!meterVars)
    OBVIOUS
  <2>0. CallsEffect /\ Shape'
    BY CallsStep, ShapeStep
  <2>a. row'.callLimit5h \in Nat
    BY <2>0 DEF Shape, TypeOK, Rows
  <2>1. ASSUME NEW r \in Requests, ChargesCalls(r) PROVE Meter5h!Next
    BY <2>1 DEF ChargesCalls, CallsOpen, Fits, SameCallLimits, Meter5h!Next, Meter5h!Charge
  <2>2. ASSUME NEW r \in Requests, CreditsCalls(r) PROVE Meter5h!Next
    BY <2>2 DEF CreditsCalls, Minus, SameCallLimits, Meter5h!Next, Meter5h!Credit
  <2>3. CASE Clears5h \/ ClearsBoth
    BY <2>3 DEF Clears5h, ClearsBoth, SameCallLimits, Meter5h!Next, Meter5h!Clear
  <2>4. CASE KeepsCalls
    BY <2>4, <2>a DEF KeepsCalls, SameCalls, Meter5h!Next, Meter5h!SetLimit
  <2>5. QED
    BY <2>0, <2>1, <2>2, <2>3, <2>4 DEF CallsEffect
<1>3. QED
  BY <1>1, <1>2, ShapeInit, ShapeStep, PTL DEF Spec, ImplementsMeter5h, Meter5h!Spec

\* The total call counter is a CallMeter of its own.
THEOREM LedgerImplementsMeterTotal == Spec => ImplementsMeterTotal
<1>1. Init => MeterTotal!Init
  BY CallsInitially DEF MeterTotal!Init
<1>2. Shape /\ [Next]_vars => [MeterTotal!Next]_(MeterTotal!meterVars)
  <2> SUFFICES ASSUME Shape, [Next]_vars PROVE [MeterTotal!Next]_(MeterTotal!meterVars)
    OBVIOUS
  <2>0. CallsEffect /\ Shape'
    BY CallsStep, ShapeStep
  <2>a. row'.callLimitTotal \in Nat
    BY <2>0 DEF Shape, TypeOK, Rows
  <2>1. ASSUME NEW r \in Requests, ChargesCalls(r) PROVE MeterTotal!Next
    BY <2>1 DEF ChargesCalls, CallsOpen, Fits, SameCallLimits, MeterTotal!Next, MeterTotal!Charge
  <2>2. ASSUME NEW r \in Requests, CreditsCalls(r) PROVE MeterTotal!Next
    BY <2>2 DEF CreditsCalls, Minus, SameCallLimits, MeterTotal!Next, MeterTotal!Credit
  <2>3. CASE ClearsBoth
    BY <2>3 DEF ClearsBoth, SameCallLimits, MeterTotal!Next, MeterTotal!Clear
  <2>4. CASE Clears5h
    BY <2>4 DEF Clears5h, SameCallLimits, MeterTotal!meterVars
  <2>5. CASE KeepsCalls
    BY <2>5, <2>a DEF KeepsCalls, SameCalls, MeterTotal!Next, MeterTotal!SetLimit
  <2>6. QED
    BY <2>0, <2>1, <2>2, <2>3, <2>4, <2>5 DEF CallsEffect
<1>3. QED
  BY <1>1, <1>2, ShapeInit, ShapeStep, PTL DEF Spec, ImplementsMeterTotal, MeterTotal!Spec

-----------------------------------------------------------------------------
(* The token buckets.  A step lets a request in, charges one, bills one, or   *)
(* does none of this; the bound on the overage needs no more.                 *)

Buckets(q) == <<q.tok5h, q.tokWeek, q.tokTotal>>
TokenLimits3(q) == <<q.tokLimit5h, q.tokLimitWeek, q.tokLimitTotal>>
TokenLimitsStay == TokenLimits3(row') = TokenLimits3(row)

\* No token bucket of p holds more than that of q, and the limits are the same.
NoMoreTokens(p, q) ==
  /\ p.tok5h <= q.tok5h /\ p.tokWeek <= q.tokWeek /\ p.tokTotal <= q.tokTotal
  /\ TokenLimits3(p) = TokenLimits3(q)

LetsIn(r) ==
  /\ MaxInFlight = 0 \/ Cardinality(InFlight) < MaxInFlight
  /\ InFlight' = InFlight \cup {r}
  /\ Unbilled' = Unbilled
  /\ row' = row

ChargesTokens(r) ==
  /\ InFlight' = InFlight
  /\ TokenLimitsStay
  /\ Below(row'.tokLimit5h, row'.tok5h)
  /\ Below(row'.tokLimitWeek, row'.tokWeek)
  /\ Below(row'.tokLimitTotal, row'.tokTotal)

Bills(r) ==
  /\ InFlight' \subseteq InFlight
  /\ r \in Unbilled
  /\ Unbilled' = Unbilled \ {r}
  /\ TokenLimitsStay
  /\ \E t \in 0..MaxTokens :
       Buckets(row') = <<row.tok5h + t, row.tokWeek + t, row.tokTotal + t>>

BillsNothing ==
  /\ InFlight' \subseteq InFlight
  /\ Unbilled' \subseteq Unbilled
  /\ NoMoreTokens(row', row)

TokensEffect ==
  \/ \E r \in Requests : LetsIn(r) \/ ChargesTokens(r) \/ Bills(r)
  \/ BillsNothing

LEMMA SameRowNoMoreTokens == ASSUME NEW q \in Rows PROVE NoMoreTokens(q, q)
BY DEF NoMoreTokens, Rows

LEMMA CallStatementsBillNothing ==
  ASSUME NEW q \in Rows, NEW n \in Nat, NEW now \in Int
  PROVE  /\ NoMoreTokens(Refund(q, n), q)
         /\ NoMoreTokens(Reset5h(q, now), q)
         /\ NoMoreTokens(Compensate(q, now), q)
         /\ NoMoreTokens(ResetCallCount(q, now), q)
         /\ NoMoreTokens(ResetTokenStats(q, now), q)
<1> USE DEF NoMoreTokens, TokenLimits3, Rows
<1>1. NoMoreTokens(Refund(q, n), q)
  BY DEF Refund
<1>2. NoMoreTokens(Reset5h(q, now), q)
  BY DEF Reset5h
<1>3. NoMoreTokens(Compensate(q, now), q)
  BY DEF Compensate
<1>4. NoMoreTokens(ResetCallCount(q, now), q)
  BY DEF ResetCallCount
<1>5. NoMoreTokens(ResetTokenStats(q, now), q)
  BY DEF ResetTokenStats
<1>6. QED
  BY <1>1, <1>2, <1>3, <1>4, <1>5

LEMMA AnchorBillsNothing ==
  ASSUME NEW q \in Rows, NEW seen, NEW a, NEW now
  PROVE  NoMoreTokens(SetWeekStart(q, seen, a, now), q)
BY DEF SetWeekStart, NoMoreTokens, TokenLimits3, Rows

\* The row after AtomicDeductQuota: in each bucket the gate left room.
LEMMA DeductLeavesRoom ==
  ASSUME NEW q \in Rows, NEW n \in Nat, NEW c \in Stamps, NEW now \in Int,
         TokensOpen(q, c, now)
  PROVE  LET p == Deduct(q, n, c, now)
         IN  /\ Below(p.tokLimit5h, p.tok5h)
             /\ Below(p.tokLimitWeek, p.tokWeek)
             /\ Below(p.tokLimitTotal, p.tokTotal)
             /\ TokenLimits3(p) = TokenLimits3(q)
BY DEF TokensOpen, Deduct, TokenLimits3, Rows

LEMMA TokensStep ==
  "limits" \notin AdminOps /\ Shape /\ [Next]_vars => TokensEffect
<1> SUFFICES ASSUME "limits" \notin AdminOps, Shape, [Next]_vars PROVE TokensEffect
  OBVIOUS
<1>0. /\ row \in Rows /\ ChargedByPC /\ (\A r \in Requests : Calls[r] \in Nat)
      /\ pc \in [Requests -> PCs] /\ clock \in Int /\ (\A a \in Admins : job[a].now \in Int)
      /\ cycle \in [Requests -> Stamps] /\ (\A r \in Requests : asOf[r] \in Int)
  BY CallsAssumption DEF Shape, TypeOK
<1>a. /\ NoMoreTokens(row, row)
      /\ NoMoreTokens(Reset5h(row, clock), row) /\ NoMoreTokens(Compensate(row, clock), row)
      /\ NoMoreTokens(ResetCallCount(row, clock), row)
      /\ NoMoreTokens(ResetTokenStats(row, clock), row)
      /\ \A a \in Admins : /\ NoMoreTokens(ResetTokenStats(row, job[a].now), row)
                            /\ NoMoreTokens(SetWeekStart(row, job[a], job[a].anchor, job[a].now), row)
      /\ \A r \in Requests : NoMoreTokens(Refund(row, Calls[r]), row)
  BY <1>0, SameRowNoMoreTokens, CallStatementsBillNothing, AnchorBillsNothing
<1>b. ASSUME NoMoreTokens(row', row), pc' = pc PROVE TokensEffect
  BY <1>b DEF TokensEffect, BillsNothing, InFlight, Unbilled
<1>1. ASSUME NEW r \in Requests, SlotFree, Enter(r) PROVE TokensEffect
  <2>1. pc[r] = "new" /\ row' = row /\ pc' = [pc EXCEPT ![r] = "entered"]
    BY <1>1 DEF Enter
  <2>2. InFlight' = InFlight \cup {r} /\ Unbilled' = Unbilled
    BY <1>0, <2>1 DEF InFlight, Unbilled, Active
  <2>3. LetsIn(r)
    BY <1>1, <2>1, <2>2 DEF SlotFree, LetsIn
  <2>4. QED
    BY <2>3 DEF TokensEffect
<1>2. ASSUME NEW r \in Requests, Charge(r) PROVE TokensEffect
  <2>1. InFlight' = InFlight
    BY <1>0, <1>2 DEF Charge, InFlight, Active
  <2>2. TokensOpen(row, cycle[r], asOf[r]) /\ row' = Deduct(row, Calls[r], cycle[r], asOf[r])
    BY <1>2 DEF Charge, Passes, GateOpen
  <2>3. ChargesTokens(r)
    BY <1>0, <2>1, <2>2, DeductLeavesRoom DEF ChargesTokens, TokenLimitsStay
  <2>4. QED
    BY <2>3 DEF TokensEffect
<1>3. ASSUME NEW r \in Requests, NEW s \in {"refunding", "billing", "done"},
             NoMoreTokens(row', row), pc' = [pc EXCEPT ![r] = s],
             pc[r] \in {"blocked", "anchored", "charged", "refunding"},
             pc[r] \in {"blocked", "anchored"} => s = "done"
      PROVE  TokensEffect
  <2>1. InFlight' \subseteq InFlight /\ Unbilled' \subseteq Unbilled
    BY <1>0, <1>3 DEF InFlight, Unbilled, Active
  <2>2. QED
    BY <1>3, <2>1 DEF TokensEffect, BillsNothing
<1>4. ASSUME NEW r \in Requests, ReadAnchor(r) \/ AlignCycle(r) \/ Block(r) PROVE TokensEffect
  <2>1. InFlight' \subseteq InFlight /\ Unbilled' \subseteq Unbilled
    BY <1>0, <1>4 DEF ReadAnchor, AlignCycle, Block, InFlight, Unbilled, Active
  <2>2. QED
    BY <1>4, <1>a, <2>1 DEF ReadAnchor, AlignCycle, Block, TokensEffect, BillsNothing
<1>5. ASSUME NEW r \in Requests, Reject(r) PROVE TokensEffect
  BY <1>3, <1>5, <1>a DEF Reject
<1>6. ASSUME NEW r \in Requests, Answer(r) PROVE TokensEffect
  <2>1. PICK o \in Outcomes : pc' = [pc EXCEPT ![r] = AfterAnswer(Mode[r], o)]
    BY <1>6 DEF Answer
  <2>2. AfterAnswer(Mode[r], o) \in {"refunding", "billing", "done"}
    BY DEF AfterAnswer
  <2>3. QED
    BY <1>3, <1>6, <1>a, <2>1, <2>2 DEF Answer
<1>7. ASSUME NEW r \in Requests, GiveBack(r) PROVE TokensEffect
  <2>1. NoMoreTokens(row', row)
    BY <1>7, <1>a DEF GiveBack
  <2>2. QED
    BY <1>3, <1>7, <2>1 DEF GiveBack, AfterRefund
<1>8. ASSUME NEW r \in Requests, Account(r) PROVE TokensEffect
  <2>1. InFlight' \subseteq InFlight /\ r \in Unbilled /\ Unbilled' = Unbilled \ {r}
    BY <1>0, <1>8 DEF Account, InFlight, Unbilled, Active
  <2>2. CASE present
    <3>1. tok[r] \in 0..MaxTokens
      <4>1. TokenCounts \cup {0} \subseteq 0..MaxTokens
        BY LedgerAssumption
      <4>2. QED
        BY <4>1 DEF Shape, TypeOK
    <3>2. row' = AddTokens(row, tok[r])
      BY <1>8, <2>2 DEF Account
    <3>3. Buckets(row') = <<row.tok5h + tok[r], row.tokWeek + tok[r], row.tokTotal + tok[r]>>
          /\ TokenLimitsStay
      <4>1. MaxTokens \in Nat
        BY LedgerAssumption
      <4>2. CASE tok[r] = 0
        BY <1>0, <3>2, <4>2 DEF AddTokens, Buckets, TokenLimitsStay, TokenLimits3, Rows
      <4>3. CASE tok[r] > 0
        BY <1>0, <3>1, <3>2, <4>1, <4>3
           DEF AddTokens, Buckets, TokenLimitsStay, TokenLimits3, Rows
      <4>4. QED
        BY <3>1, <4>1, <4>2, <4>3
    <3>4. Bills(r)
      BY <2>1, <3>1, <3>3 DEF Bills
    <3>5. QED
      BY <3>4 DEF TokensEffect
  <2>3. CASE ~present
    <3>1. row' = row
      BY <1>8, <2>3 DEF Account
    <3>2. QED
      BY <1>a, <2>1, <3>1 DEF TokensEffect, BillsNothing
  <2>4. QED
    BY <2>2, <2>3
<1>9. CASE Crash
  <2>1. InFlight' \subseteq InFlight /\ Unbilled' \subseteq Unbilled
    BY <1>0, <1>9 DEF Crash, InFlight, Unbilled, Active
  <2>2. QED
    BY <1>9, <1>a, <2>1 DEF Crash, TokensEffect, BillsNothing
<1>10. ASSUME Tick \/ MinuteOver \/ \E a \in Admins : AdminReadAnchor(a) \/ AdminDelete(a)
       PROVE  TokensEffect
  BY <1>10, <1>a, <1>b DEF Tick, MinuteOver, AdminReadAnchor, AdminDelete
<1>11. CASE SchedulerReset \/ Restart
  BY <1>11, <1>a, <1>b DEF SchedulerReset, Restart
<1>12. ASSUME NEW a \in Admins, AdminResetCalls(a) \/ AdminResetAll(a) \/ AdminResetTokens(a)
       PROVE  TokensEffect
  BY <1>12, <1>a, <1>b DEF AdminResetCalls, AdminResetAll, AdminResetTokens
<1>13. ASSUME NEW a \in Admins, AdminResetAllTokens(a) \/ AdminSetAnchor(a)
       PROVE  TokensEffect
  BY <1>13, <1>a, <1>b DEF AdminResetAllTokens, AdminSetAnchor
<1>14. ASSUME NEW a \in Admins, AdminLimits(a) PROVE TokensEffect
  BY <1>14 DEF AdminLimits, CanDo
<1>15. CASE UNCHANGED vars
  BY <1>15, <1>a, <1>b DEF vars, realVars
<1>16. QED
  BY <1>1, <1>2, <1>4, <1>5, <1>6, <1>7, <1>8, <1>9, <1>10, <1>11, <1>12, <1>13, <1>14, <1>15
     DEF Next, Request, Serve, Time, Process, Admin

\* The requests of one user in flight are never more than the cap lets run.
FlightBounded == MaxInFlight # 0 => Cardinality(InFlight) <= MaxInFlight

LEMMA FlightFinite ==
  /\ IsFiniteSet(InFlight) /\ IsFiniteSet(Unbilled)
  /\ Cardinality(InFlight) \in Nat /\ Cardinality(Unbilled) \in Nat
  /\ Cardinality(Unbilled) <= Cardinality(InFlight)
<1>1. InFlight \subseteq Requests /\ Unbilled \subseteq InFlight
  BY DEF InFlight, Unbilled, Active
<1>2. IsFiniteSet(Requests)
  BY CallsAssumption
<1>3. IsFiniteSet(InFlight) /\ IsFiniteSet(Unbilled)
  BY <1>1, <1>2, FS_Subset
<1>4. QED
  BY <1>1, <1>3, FS_Subset, FS_CardinalityType

LEMMA FlightFiniteNext ==
  /\ IsFiniteSet(InFlight') /\ IsFiniteSet(Unbilled')
  /\ Cardinality(InFlight') \in Nat /\ Cardinality(Unbilled') \in Nat
  /\ Cardinality(Unbilled') <= Cardinality(InFlight')
<1>1. InFlight' \subseteq Requests /\ Unbilled' \subseteq InFlight'
  BY DEF InFlight, Unbilled, Active
<1>2. IsFiniteSet(Requests)
  BY CallsAssumption
<1>3. IsFiniteSet(InFlight') /\ IsFiniteSet(Unbilled')
  BY <1>1, <1>2, FS_Subset
<1>4. QED
  BY <1>1, <1>3, FS_Subset, FS_CardinalityType

LEMMA FlightStep ==
  FlightBounded /\ TokensEffect => FlightBounded'
<1> SUFFICES ASSUME FlightBounded, TokensEffect, MaxInFlight # 0
             PROVE  Cardinality(InFlight') <= MaxInFlight
  BY DEF FlightBounded
<1>0. MaxInFlight \in Nat /\ Cardinality(InFlight) <= MaxInFlight
  BY LedgerAssumption DEF FlightBounded
<1>1. ASSUME NEW r \in Requests, LetsIn(r) PROVE Cardinality(InFlight') <= MaxInFlight
  <2>1. Cardinality(InFlight \cup {r})
          = IF r \in InFlight THEN Cardinality(InFlight) ELSE Cardinality(InFlight) + 1
    BY FlightFinite, FS_AddElement
  <2>2. Cardinality(InFlight) < MaxInFlight /\ InFlight' = InFlight \cup {r}
    BY <1>1 DEF LetsIn
  <2>3. QED
    BY <1>0, <2>1, <2>2, FlightFinite
<1>2. ASSUME InFlight' \subseteq InFlight PROVE Cardinality(InFlight') <= MaxInFlight
  <2>1. Cardinality(InFlight') <= Cardinality(InFlight)
    BY <1>2, FlightFinite, FS_Subset
  <2>2. QED
    BY <1>0, <2>1, FlightFinite, FlightFiniteNext
<1>3. QED
  BY <1>1, <1>2 DEF TokensEffect, ChargesTokens, Bills, BillsNothing

LEMMA ProductGrows ==
  ASSUME NEW m \in Nat, NEW a \in Nat, NEW b \in Nat, a <= b
  PROVE  m * a <= m * b
<1>1. b - a \in Nat /\ m * (b - a) >= 0
  OBVIOUS
<1>2. m * b = m * a + m * (b - a)
  OBVIOUS
<1>3. QED
  BY <1>1, <1>2

\* One bucket, by what the step did: nothing added with no more requests unbilled,
\* one bill added with one request less, or room left by the gate.
LEMMA OverageStep ==
  ASSUME NEW l \in Nat, NEW u \in Nat, NEW v \in Nat, NEW n \in Nat, NEW k \in Nat,
         NEW c \in Nat, NEW m \in Nat, l # 0, c # 0,
         u + m * n < l + m * c,
         \/ v <= u /\ k <= n
         \/ v <= u + m /\ n = k + 1
         \/ v < l /\ k <= c
  PROVE  v + m * k < l + m * c
<1>1. CASE v <= u /\ k <= n
  <2>1. m * k <= m * n /\ m * k \in Nat /\ m * n \in Nat /\ m * c \in Nat
    BY <1>1, ProductGrows
  <2>2. QED
    BY <1>1, <2>1
<1>2. CASE v <= u + m /\ n = k + 1
  <2>1. m * n = m * k + m /\ m * k \in Nat /\ m * c \in Nat
    BY <1>2
  <2>2. QED
    BY <1>2, <2>1
<1>3. CASE v < l /\ k <= c
  <2>1. m * k <= m * c /\ m * k \in Nat /\ m * c \in Nat
    BY <1>3, ProductGrows
  <2>2. QED
    BY <1>3, <2>1
<1>4. QED
  BY <1>1, <1>2, <1>3

\* While nobody edits the limits, each token bucket stays below its limit plus
\* the largest bill for every request the cap lets the user have in flight: the
\* overage of the soft gate is bounded by the concurrency cap, and by nothing less.
THEOREM LedgerOverageBounded == "limits" \notin AdminOps /\ Spec => []TokenOverageBounded
<1> SUFFICES ASSUME "limits" \notin AdminOps PROVE Spec => []TokenOverageBounded
  OBVIOUS
<1> DEFINE I == Shape /\ FlightBounded /\ TokenOverageBounded
<1>0. MaxTokens \in Nat /\ MaxInFlight \in Nat
  BY LedgerAssumption
<1>1. Init => I
  <2> SUFFICES ASSUME Init PROVE I
    OBVIOUS
  <2>1. InFlight = {} /\ Unbilled = {}
    BY DEF Init, InFlight, Unbilled, Active
  <2>2. Cardinality(InFlight) = 0 /\ Cardinality(Unbilled) = 0
    BY <2>1, FS_EmptySet
  <2>3. row.tok5h = 0 /\ row.tokWeek = 0 /\ row.tokTotal = 0
    BY DEF Init, NewRow
  <2>4. row.tokLimit5h \in Nat /\ row.tokLimitWeek \in Nat /\ row.tokLimitTotal \in Nat
    BY ShapeInit DEF Shape, TypeOK, Rows
  <2>5. MaxTokens * 0 = 0 /\ MaxTokens * MaxInFlight \in Nat
    BY <1>0
  <2>6. TokenOverageBounded
    BY <2>2, <2>3, <2>4, <2>5 DEF TokenOverageBounded, OverageBounded
  <2>7. FlightBounded
    BY <1>0, <2>2 DEF FlightBounded
  <2>8. QED
    BY <2>6, <2>7, ShapeInit
<1>2. I /\ [Next]_vars => I'
  <2> SUFFICES ASSUME I, [Next]_vars PROVE I'
    OBVIOUS
  <2>1. Shape' /\ TokensEffect /\ FlightBounded'
    BY ShapeStep, TokensStep, FlightStep
  <2> DEFINE n == Cardinality(Unbilled)
             k == Cardinality(Unbilled')
             Step(l, u, v) == \/ v <= u /\ k <= n
                              \/ v <= u + MaxTokens /\ n = k + 1
                              \/ v < l /\ k <= MaxInFlight
  <2>2. n \in Nat /\ k \in Nat
    BY FlightFinite, FlightFiniteNext
  <2>3. /\ row.tok5h \in Nat /\ row.tokWeek \in Nat /\ row.tokTotal \in Nat
        /\ row'.tok5h \in Nat /\ row'.tokWeek \in Nat /\ row'.tokTotal \in Nat
        /\ row.tokLimit5h \in Nat /\ row.tokLimitWeek \in Nat /\ row.tokLimitTotal \in Nat
    BY <2>1 DEF Shape, TypeOK, Rows
  <2>4. TokenLimitsStay
    BY <2>1 DEF TokensEffect, LetsIn, ChargesTokens, Bills, BillsNothing, NoMoreTokens, TokenLimitsStay
  <2>5. MaxInFlight # 0 =>
          /\ row.tokLimit5h # 0 => Step(row.tokLimit5h, row.tok5h, row'.tok5h)
          /\ row.tokLimitWeek # 0 => Step(row.tokLimitWeek, row.tokWeek, row'.tokWeek)
          /\ row.tokLimitTotal # 0 => Step(row.tokLimitTotal, row.tokTotal, row'.tokTotal)
    <3> SUFFICES ASSUME MaxInFlight # 0
                 PROVE  /\ row.tokLimit5h # 0 => Step(row.tokLimit5h, row.tok5h, row'.tok5h)
                        /\ row.tokLimitWeek # 0 => Step(row.tokLimitWeek, row.tokWeek, row'.tokWeek)
                        /\ row.tokLimitTotal # 0 => Step(row.tokLimitTotal, row.tokTotal, row'.tokTotal)
      OBVIOUS
    <3>1. ASSUME NEW r \in Requests, LetsIn(r) PROVE row' = row /\ k = n
      BY <3>1 DEF LetsIn
    <3>2. ASSUME NEW r \in Requests, ChargesTokens(r)
          PROVE  /\ k <= MaxInFlight
                 /\ row.tokLimit5h # 0 => row'.tok5h < row.tokLimit5h
                 /\ row.tokLimitWeek # 0 => row'.tokWeek < row.tokLimitWeek
                 /\ row.tokLimitTotal # 0 => row'.tokTotal < row.tokLimitTotal
      <4>1. Cardinality(InFlight') <= MaxInFlight
        BY <2>1 DEF FlightBounded
      <4>2. k <= MaxInFlight
        BY <1>0, <4>1, FlightFiniteNext
      <4>3. QED
        BY <3>2, <4>2 DEF ChargesTokens, TokenLimitsStay, TokenLimits3, Below
    <3>3. ASSUME NEW r \in Requests, Bills(r)
          PROVE  /\ n = k + 1
                 /\ row'.tok5h <= row.tok5h + MaxTokens
                 /\ row'.tokWeek <= row.tokWeek + MaxTokens
                 /\ row'.tokTotal <= row.tokTotal + MaxTokens
      <4>1. Cardinality(Unbilled \ {r}) = Cardinality(Unbilled) - 1
        BY <3>3, FlightFinite, FS_RemoveElement DEF Bills
      <4>2. Unbilled' = Unbilled \ {r}
        BY <3>3 DEF Bills
      <4>3. n = k + 1
        BY <2>2, <4>1, <4>2
      <4>4. PICK t \in 0..MaxTokens :
              Buckets(row') = <<row.tok5h + t, row.tokWeek + t, row.tokTotal + t>>
        BY <3>3 DEF Bills
      <4>5. QED
        BY <1>0, <2>3, <4>3, <4>4 DEF Buckets
    <3>4. ASSUME BillsNothing
          PROVE  /\ k <= n
                 /\ row'.tok5h <= row.tok5h /\ row'.tokWeek <= row.tokWeek
                 /\ row'.tokTotal <= row.tokTotal
      <4>1. Cardinality(Unbilled') <= Cardinality(Unbilled)
        BY <3>4, FlightFinite, FS_Subset DEF BillsNothing
      <4>2. QED
        BY <3>4, <4>1 DEF BillsNothing, NoMoreTokens
    <3> HIDE DEF n, k
    <3>5. QED
      BY <2>1, <2>2, <2>3, <3>1, <3>2, <3>3, <3>4 DEF TokensEffect
  <2>6. TokenOverageBounded'
    <3> SUFFICES ASSUME MaxInFlight # 0
                 PROVE  /\ OverageBounded(row.tokLimit5h, row.tok5h)'
                        /\ OverageBounded(row.tokLimitWeek, row.tokWeek)'
                        /\ OverageBounded(row.tokLimitTotal, row.tokTotal)'
      BY DEF TokenOverageBounded, OverageBounded
    <3>1. ASSUME NEW l \in Nat, NEW u \in Nat, NEW v \in Nat, l # 0,
                 u + MaxTokens * n < l + MaxTokens * MaxInFlight, Step(l, u, v)
          PROVE  v + MaxTokens * k < l + MaxTokens * MaxInFlight
      <4> HIDE DEF n, k
      <4>1. QED
        BY <1>0, <2>2, <3>1, OverageStep
    <3>2. row.tokLimit5h # 0
            => row'.tok5h + MaxTokens * k < row.tokLimit5h + MaxTokens * MaxInFlight
      BY <2>3, <2>5, <3>1 DEF TokenOverageBounded, OverageBounded
    <3>3. row.tokLimitWeek # 0
            => row'.tokWeek + MaxTokens * k < row.tokLimitWeek + MaxTokens * MaxInFlight
      BY <2>3, <2>5, <3>1 DEF TokenOverageBounded, OverageBounded
    <3>4. row.tokLimitTotal # 0
            => row'.tokTotal + MaxTokens * k < row.tokLimitTotal + MaxTokens * MaxInFlight
      BY <2>3, <2>5, <3>1 DEF TokenOverageBounded, OverageBounded
    <3>5. /\ row'.tokLimit5h = row.tokLimit5h /\ row'.tokLimitWeek = row.tokLimitWeek
          /\ row'.tokLimitTotal = row.tokLimitTotal
      BY <2>4 DEF TokenLimitsStay, TokenLimits3
    <3>6. QED
      BY <3>2, <3>3, <3>4, <3>5 DEF OverageBounded
  <2>7. QED
    BY <2>1, <2>6
<1>3. QED
  BY <1>1, <1>2, PTL DEF Spec

-----------------------------------------------------------------------------
(* Time. *)

\* Integer division, as the windows and the cycles use it.
LEMMA ModIs ==
  ASSUME NEW m \in Nat \ {0}, NEW q \in Int, NEW x \in 0..(m-1)
  PROVE  (m * q + x) % m = x /\ (m * q + x) \div m = q
OBVIOUS

LEMMA ModSucc ==
  ASSUME NEW m \in Nat \ {0}, NEW a \in Int
  PROVE  (a + 1) % m = IF (a % m) + 1 = m THEN 0 ELSE (a % m) + 1
<1>1. a = m * (a \div m) + (a % m) /\ a % m \in 0..(m-1) /\ a \div m \in Int
  OBVIOUS
<1>2. CASE (a % m) + 1 = m
  <2>1. a + 1 = m * ((a \div m) + 1) + 0 /\ (a \div m) + 1 \in Int /\ 0 \in 0..(m-1)
    BY <1>1, <1>2
  <2>2. (m * ((a \div m) + 1) + 0) % m = 0
    BY ONLY <2>1, ModIs, m \in Nat \ {0}
  <2> QED
    BY <1>2, <2>1, <2>2
<1>3. CASE (a % m) + 1 # m
  <2>1. a + 1 = m * (a \div m) + ((a % m) + 1) /\ (a % m) + 1 \in 0..(m-1)
    BY <1>1, <1>3
  <2>2. (m * (a \div m) + ((a % m) + 1)) % m = (a % m) + 1
    BY ONLY <1>1, <2>1, ModIs, m \in Nat \ {0}
  <2> QED
    BY <1>3, <2>1, <2>2
<1> QED
  BY <1>2, <1>3

\* An hour that begins no window is in the window of the hour before.
LEMMA SameWindow ==
  ASSUME NEW c \in Nat, ~AtBoundary(c + 1)
  PROVE  WindowStart(c + 1) = WindowStart(c)
<1>1. DayLen \in Nat \ {0} /\ ResetHours \in Nat \ {0}
  BY TimeAssumption
<1>2. c \in Int /\ c % DayLen \in Int
  BY <1>1
<1>3. (c + 1) % DayLen = IF (c % DayLen) + 1 = DayLen THEN 0 ELSE (c % DayLen) + 1
  BY <1>1, <1>2, ModSucc, Zenon
<1>4. 0 % ResetHours = 0
  BY <1>1
<1>5. (c + 1) % DayLen = (c % DayLen) + 1
  BY <1>3, <1>4 DEF AtBoundary
<1>6. ((c % DayLen) + 1) % ResetHours =
        IF ((c % DayLen) % ResetHours) + 1 = ResetHours THEN 0 ELSE ((c % DayLen) % ResetHours) + 1
  BY <1>1, <1>2, ModSucc, Zenon
<1>7. (c % DayLen) % ResetHours \in Int
  BY <1>1, <1>2
<1>8. ((c + 1) % DayLen) % ResetHours = ((c % DayLen) % ResetHours) + 1
  BY <1>5, <1>6 DEF AtBoundary
<1> QED
  BY <1>7, <1>8 DEF WindowStart

LEMMA WindowBegan ==
  ASSUME NEW c \in Nat
  PROVE  WindowStart(c) \in Int /\ WindowStart(c) <= c
<1>1. DayLen \in Nat \ {0} /\ ResetHours \in Nat \ {0}
  BY TimeAssumption
<1>2. c % DayLen \in Int
  BY <1>1
<1>3. (c % DayLen) % ResetHours \in 0..(ResetHours - 1)
  BY <1>1, <1>2
<1> QED
  BY <1>1, <1>3 DEF WindowStart

-----------------------------------------------------------------------------
(* The 5h window of the row. *)

\* A statement that leaves window_start where it is, or moves it to an instant of the
\* current window.
WindowKept(q) ==
  \/ q.windowStart = row.windowStart
  \/ q.windowStart = clock
  \/ q.windowStart = WindowStart(clock)

LEMMA StatementsKeepWindow ==
  ASSUME row \in Rows, clock \in Nat
  PROVE  /\ \A n, c, t : WindowKept(Deduct(row, n, c, t))
         /\ \A n : WindowKept(Refund(row, n)) /\ WindowKept(AddTokens(row, n))
         /\ WindowKept(ResetCallCount(row, clock))
         /\ \A t : WindowKept(ResetTokenStats(row, t))
         /\ \A s, a, t : WindowKept(SetWeekStart(row, s, a, t))
         /\ \A l, m : WindowKept(SetCallLimits(row, l, m)) /\ WindowKept(SetTokenWindowLimits(row, l, m))
         /\ \A l : WindowKept(SetTokenTotalLimit(row, l))
<1>1. \A n : WindowKept(Refund(row, n)) /\ WindowKept(AddTokens(row, n))
  BY DEF WindowKept, Rows, Refund, AddTokens
<1>2. \A s, a, t : WindowKept(SetWeekStart(row, s, a, t))
  BY DEF WindowKept, Rows, SetWeekStart
<1>3. /\ \A n, c, t : WindowKept(Deduct(row, n, c, t))
      /\ WindowKept(ResetCallCount(row, clock)) /\ \A t : WindowKept(ResetTokenStats(row, t))
  BY DEF WindowKept, Rows, Deduct, ResetCallCount, ResetTokenStats
<1>4. /\ \A l, m : WindowKept(SetCallLimits(row, l, m)) /\ WindowKept(SetTokenWindowLimits(row, l, m))
      /\ \A l : WindowKept(SetTokenTotalLimit(row, l))
  BY DEF WindowKept, Rows, SetCallLimits, SetTokenWindowLimits, SetTokenTotalLimit
<1> QED
  BY <1>1, <1>2, <1>3, <1>4

LEMMA WindowStep == Shape /\ NoStaleWindow /\ [Next]_vars => NoStaleWindow'
<1> SUFFICES ASSUME Shape, NoStaleWindow, [Next]_vars PROVE NoStaleWindow'
  OBVIOUS
<1>0. row \in Rows /\ clock \in Nat /\ row.windowStart \in Int
      /\ WindowStart(clock) \in Int /\ WindowStart(clock) <= clock
  BY WindowBegan DEF Shape, TypeOK, Rows
<1>1. ASSUME row' = row \/ WindowKept(row'), up' => up, present' => present,
             UNCHANGED <<clock, top>>
      PROVE  NoStaleWindow'
  BY <1>0, <1>1 DEF NoStaleWindow, WindowKept
<1>2. ASSUME NEW r \in Requests, Request(r) PROVE NoStaleWindow'
  <2>1. (row' = row \/ WindowKept(row')) /\ UNCHANGED <<present, clock, top, up>>
    BY <1>0, <1>2, StatementsKeepWindow
       DEF Request, Serve, Enter, ReadAnchor, AlignCycle, Charge, Block, Reject, Answer, GiveBack,
           Account
  <2> QED
    BY <1>1, <2>1
<1>3. CASE Tick
  <2>1. ~top /\ clock' = clock + 1 /\ top' = AtBoundary(clock + 1) /\ UNCHANGED <<row, present, up>>
    BY <1>3 DEF Tick
  <2>2. ~top' => WindowStart(clock') = WindowStart(clock)
    BY <1>0, <2>1, SameWindow
  <2> QED
    BY <2>1, <2>2 DEF NoStaleWindow
<1>4. CASE SchedulerReset
  <2>1. top' = top /\ top
    BY <1>4 DEF SchedulerReset
  <2> QED
    BY <2>1 DEF NoStaleWindow
<1>5. CASE MinuteOver
  BY <1>5 DEF MinuteOver, NoStaleWindow
<1>6. CASE Crash
  BY <1>6 DEF Crash, NoStaleWindow
<1>7. CASE Restart
  <2>1. UNCHANGED <<present, clock>> /\ row' = IF present THEN Compensate(row, clock) ELSE row
    BY <1>7 DEF Restart
  <2>2. present => row'.windowStart >= WindowStart(clock)
    BY <1>0, <2>1 DEF Compensate, Rows
  <2> QED
    BY <2>1, <2>2 DEF NoStaleWindow
<1>8. ASSUME NEW a \in Admins, Admin(a) PROVE NoStaleWindow'
  <2>1. (row' = row \/ WindowKept(row')) /\ UNCHANGED <<clock, top, up>> /\ (present' => present)
    BY <1>0, <1>8, StatementsKeepWindow
       DEF Admin, AdminResetCalls, AdminResetTokens, AdminResetAll, AdminResetAllTokens,
           AdminReadAnchor, AdminSetAnchor, AdminLimits, AdminDelete, CanDo
  <2> QED
    BY <1>1, <2>1
<1>9. CASE UNCHANGED vars
  BY <1>1, <1>9 DEF vars, realVars
<1> QED
  BY <1>2, <1>3, <1>4, <1>5, <1>6, <1>7, <1>8, <1>9 DEF Next, Time, Process

\* While the gateway runs, and outside the minute in which the scheduler works, no row
\* is in a 5h window that has ended, whatever crashes and restarts came before.
THEOREM LedgerNoStaleWindow == Spec => []NoStaleWindow
<1>1. Init => NoStaleWindow
  BY WindowBegan DEF Init, NoStaleWindow, NewRow
<1> QED
  BY <1>1, ShapeInit, ShapeStep, WindowStep, PTL DEF Spec

-----------------------------------------------------------------------------
(* Failed calls. *)

\* An end of the upstream call that every handler which meets it takes the refund for.
GivesBack(m, o) == o \in {"refused", "unreadable"} \/ (o = "unreachable" /\ m # "stream")

\* The inductive invariant of FailuresGivenBack: the answer decides once which way the
\* request goes on, and after the refund nothing puts its calls back on the bill.
GivenBack ==
  /\ \A r \in Requests : pc[r] = "refunding" => answer[r] # "ok"
  /\ \A r \in Requests : pc[r] \in {"billing", "done"} /\ answer[r] = "ok" => r \notin credited
  /\ present => \A r \in Requests :
       pc[r] \in {"billing", "done"} /\ GivesBack(Mode[r], answer[r]) => r \notin owedTotal

\* What a handler does with an answer: the failures of GivesBack are refunded, a success is not.
LEMMA AnswersSorted ==
  ASSUME NEW m \in {"sync", "stream", "pass"}, NEW o \in AllOutcomes,
         o = "unreadable" => m = "sync"
  PROVE  /\ GivesBack(m, o) => AfterAnswer(m, o) = "refunding"
         /\ AfterAnswer(m, o) = "refunding" => o # "ok"
BY DEF GivesBack, AfterAnswer, Refunded, Billed

LEMMA GivenBackStep == Shape /\ GivenBack /\ [Next]_vars => GivenBack'
<1> SUFFICES ASSUME Shape, GivenBack, [Next]_vars PROVE GivenBack'
  OBVIOUS
<1>0. /\ pc \in [Requests -> PCs] /\ answer \in [Requests -> AllOutcomes \cup {"none"}]
      /\ owedTotal \subseteq charged /\ credited \subseteq charged /\ ChargedByPC
  BY DEF Shape, TypeOK
<1>1. ASSUME owedTotal' \subseteq owedTotal, UNCHANGED <<answer, credited>>, present' => present,
             \A r \in Requests : pc'[r] \in {pc[r], "lost"}
      PROVE  GivenBack'
  BY <1>0, <1>1 DEF GivenBack
<1>2. ASSUME NEW r \in Requests, Request(r) PROVE GivenBack'
  <2>1. CASE Enter(r) \/ ReadAnchor(r) \/ AlignCycle(r) \/ Block(r) \/ Reject(r)
    <3>1. /\ r \notin owedTotal /\ r \notin credited /\ pc'[r] # "refunding"
          /\ \A q \in Requests : q # r => pc'[q] = pc[q]
          /\ UNCHANGED <<present, answer, owedTotal, credited>>
      BY <1>0, <2>1 DEF Enter, ReadAnchor, AlignCycle, Block, Reject, ghosts, ChargedByPC
    <3> QED
      BY <3>1 DEF GivenBack
  <2>2. CASE Charge(r)
    <3>1. /\ pc' = [pc EXCEPT ![r] = "charged"] /\ owedTotal' = owedTotal \cup {r}
          /\ UNCHANGED <<present, answer, credited>>
      BY <2>2 DEF Charge
    <3> QED
      BY <1>0, <3>1 DEF GivenBack
  <2>3. CASE Answer(r)
    <3>1. PICK o \in Outcomes :
            /\ o = "unreadable" => Mode[r] = "sync"
            /\ answer' = [answer EXCEPT ![r] = o]
            /\ pc' = [pc EXCEPT ![r] = AfterAnswer(Mode[r], o)]
      BY <2>3 DEF Answer
    <3>2. UNCHANGED <<present, owedTotal, credited>> /\ r \notin credited
      BY <1>0, <2>3 DEF Answer, ghosts, ChargedByPC
    <3>3. /\ GivesBack(Mode[r], o) => AfterAnswer(Mode[r], o) = "refunding"
          /\ AfterAnswer(Mode[r], o) = "refunding" => o # "ok"
      BY <3>1, AnswersSorted, LedgerAssumption
    <3>4. /\ answer'[r] = o /\ pc'[r] = AfterAnswer(Mode[r], o)
          /\ \A q \in Requests : q # r => pc'[q] = pc[q] /\ answer'[q] = answer[q]
      BY <1>0, <3>1
    <3> QED
      BY <3>2, <3>3, <3>4 DEF GivenBack
  <2>4. CASE GiveBack(r)
    <3>1. /\ present => owedTotal' = owedTotal \ {r}
          /\ answer[r] # "ok" /\ credited' \subseteq credited \cup {r}
          /\ pc'[r] # "refunding" /\ UNCHANGED <<present, answer>>
          /\ \A q \in Requests : q # r => pc'[q] = pc[q]
      BY <1>0, <2>4 DEF GiveBack, GivenBack, AfterRefund
    <3> QED
      BY <3>1 DEF GivenBack
  <2>5. CASE Account(r)
    <3>1. /\ pc[r] = "billing" /\ pc'[r] = "done"
          /\ UNCHANGED <<present, answer, owedTotal, credited>>
          /\ \A q \in Requests : q # r => pc'[q] = pc[q]
      BY <1>0, <2>5 DEF Account
    <3> QED
      BY <3>1 DEF GivenBack
  <2> QED
    BY <1>2, <2>1, <2>2, <2>3, <2>4, <2>5 DEF Request, Serve
<1>3. CASE Time
  BY <1>1, <1>3 DEF Time, Tick, SchedulerReset, MinuteOver, ghosts
<1>4. CASE Process
  BY <1>0, <1>1, <1>4 DEF Process, Crash, Restart, ghosts
<1>5. ASSUME NEW a \in Admins, Admin(a) PROVE GivenBack'
  BY <1>1, <1>5
     DEF Admin, AdminResetCalls, AdminResetTokens, AdminResetAll, AdminResetAllTokens,
         AdminReadAnchor, AdminSetAnchor, AdminLimits, AdminDelete, CanDo, ghosts
<1>6. CASE UNCHANGED vars
  BY <1>1, <1>6 DEF vars, realVars, ghosts
<1> QED
  BY <1>2, <1>3, <1>4, <1>5, <1>6 DEF Next

\* Whatever admin operations, resets and crashes interleave with a request and for every
\* outcome the upstream call can have: a finished call that was refused, could not be
\* reached outside a stream, or could not be read owes nothing while its user exists, and
\* no call that succeeded is refunded.
THEOREM LedgerFailuresGivenBack == Spec => []FailuresGivenBack
<1>1. Init => GivenBack
  BY DEF Init, GivenBack
<1>2. GivenBack => FailuresGivenBack
  BY DEF GivenBack, GivesBack, FailuresGivenBack
<1>3. Shape /\ GivenBack /\ [Next]_vars => GivenBack'
  BY GivenBackStep
<1> QED
  BY <1>1, <1>2, <1>3, ShapeInit, ShapeStep, PTL DEF Spec

-----------------------------------------------------------------------------
(* The weekly bucket within a cycle. *)

\* The admin operations that move the weekly anchor.
MovesAnchor == {"resetTokens", "resetAll", "anchor"}

\* The anchor is the one the user was created with, and every cycle was counted from it.
OneAnchor ==
  /\ row.weekStart = Stamp(0, "utc")
  /\ \E t \in Nat : row.weekCycle = NewCycle(Stamp(0, "utc"), t)
  /\ \A r \in Requests : pc[r] = "read" => cycle[r] = Stamp(0, "utc")
  /\ \A r \in Requests :
       pc[r] = "anchored" => \E t \in Nat : cycle[r] = NewCycle(Stamp(0, "utc"), t)
  /\ \A a \in Admins : job[a].step = "none"

LEMMA CycleIs ==
  ASSUME NEW t \in Nat
  PROVE  /\ NewCycle(Stamp(0, "utc"), t) = Stamp((t \div WeekLen) * WeekLen, "utc")
         /\ ((t \div WeekLen) * WeekLen) \div WeekLen = t \div WeekLen
<1>1. WeekLen \in Nat \ {0} /\ t \div WeekLen \in Int /\ 0 \in 0..(WeekLen - 1)
  BY TimeAssumption
<1>2. (WeekLen * (t \div WeekLen) + 0) \div WeekLen = t \div WeekLen
  BY ONLY <1>1, ModIs
<1>3. (t \div WeekLen) * WeekLen = WeekLen * (t \div WeekLen) + 0
  BY <1>1
<1>4. NewCycle(Stamp(0, "utc"), t) = Stamp((t \div WeekLen) * WeekLen, "utc")
  BY <1>1 DEF NewCycle, AlignedCycle, Stamp
<1> QED
  BY <1>2, <1>3, <1>4

LEMMA OneAnchorInit == AnchorZone = "utc" /\ Init => OneAnchor
<1> SUFFICES ASSUME AnchorZone = "utc", Init PROVE OneAnchor
  OBVIOUS
<1>1. WeekLen \in Nat \ {0} /\ 0 \div WeekLen = 0
  BY TimeAssumption
<1>2. NewCycle(Stamp(0, "utc"), 0) = Stamp(0, "utc")
  BY <1>1, CycleIs
<1>3. row.weekStart = Stamp(0, "utc") /\ row.weekCycle = Stamp(0, "utc")
  BY DEF Init, NewRow
<1> QED
  BY <1>2, <1>3 DEF Init, OneAnchor, NoJob

LEMMA AnchorKept ==
  ASSUME row \in Rows
  PROVE  /\ \A n, c, t : /\ Deduct(row, n, c, t).weekStart = row.weekStart
                         /\ Deduct(row, n, c, t).weekCycle = c
                         /\ Deduct(row, n, c, t).tokWeek = WeekUsedIn(row, c)
         /\ \A q \in {Reset5h(row, clock), Compensate(row, clock), ResetCallCount(row, clock)} :
              q.weekStart = row.weekStart /\ q.weekCycle = row.weekCycle
         /\ \A n, q : q \in {Refund(row, n), AddTokens(row, n)} =>
              q.weekStart = row.weekStart /\ q.weekCycle = row.weekCycle
         /\ \A l, m, q : q \in {SetCallLimits(row, l, m), SetTokenWindowLimits(row, l, m),
                                SetTokenTotalLimit(row, l)} =>
              q.weekStart = row.weekStart /\ q.weekCycle = row.weekCycle
<1>1. \A n, c, t : /\ Deduct(row, n, c, t).weekStart = row.weekStart
                   /\ Deduct(row, n, c, t).weekCycle = c
                   /\ Deduct(row, n, c, t).tokWeek = WeekUsedIn(row, c)
  BY DEF Rows, Deduct
<1>2. \A q \in {Reset5h(row, clock), Compensate(row, clock), ResetCallCount(row, clock)} :
        q.weekStart = row.weekStart /\ q.weekCycle = row.weekCycle
  BY DEF Rows, Reset5h, Compensate, ResetCallCount
<1>3. \A n, q : q \in {Refund(row, n), AddTokens(row, n)} =>
        q.weekStart = row.weekStart /\ q.weekCycle = row.weekCycle
  BY DEF Rows, Refund, AddTokens
<1>4. \A l, m, q : q \in {SetCallLimits(row, l, m), SetTokenWindowLimits(row, l, m),
                          SetTokenTotalLimit(row, l)} =>
        q.weekStart = row.weekStart /\ q.weekCycle = row.weekCycle
  BY DEF Rows, SetCallLimits, SetTokenWindowLimits, SetTokenTotalLimit
<1> QED
  BY <1>1, <1>2, <1>3, <1>4

LEMMA OneAnchorStep ==
  MovesAnchor \cap AdminOps = {} /\ Shape /\ OneAnchor /\ [Next]_vars => OneAnchor'
<1> SUFFICES ASSUME MovesAnchor \cap AdminOps = {}, Shape, OneAnchor, [Next]_vars
             PROVE  OneAnchor'
  OBVIOUS
<1>0. /\ pc \in [Requests -> PCs] /\ cycle \in [Requests -> Stamps] /\ row \in Rows /\ clock \in Nat
  BY DEF Shape, TypeOK
\* A step that leaves the anchors alone, and what each request at its gate read of them.
<1>1. ASSUME row'.weekStart = row.weekStart, row'.weekCycle = row.weekCycle, job' = job,
             \A r \in Requests : /\ pc'[r] = "read" => pc[r] = "read" /\ cycle'[r] = cycle[r]
                                 /\ pc'[r] = "anchored" => pc[r] = "anchored" /\ cycle'[r] = cycle[r]
      PROVE  OneAnchor'
  BY <1>1 DEF OneAnchor
<1>2. ASSUME NEW r \in Requests, Request(r) PROVE OneAnchor'
  <2>0. CASE Enter(r) \/ Reject(r)
    BY <1>0, <1>1, <2>0 DEF Enter, Reject
  <2>1. CASE ReadAnchor(r)
    <3>1. CASE present
      <4>1. /\ cycle' = [cycle EXCEPT ![r] = row.weekStart] /\ pc' = [pc EXCEPT ![r] = "read"]
            /\ UNCHANGED <<row, job>>
        BY <2>1, <3>1 DEF ReadAnchor
      <4> QED
        BY <1>0, <4>1 DEF OneAnchor
    <3>2. CASE ~present
      BY <1>0, <1>1, <2>1, <3>2 DEF ReadAnchor
    <3> QED
      BY <3>1, <3>2
  <2>2. CASE AlignCycle(r)
    <3>1. /\ cycle' = [cycle EXCEPT ![r] = NewCycle(cycle[r], clock)] /\ pc[r] = "read"
          /\ pc' = [pc EXCEPT ![r] = "anchored"] /\ UNCHANGED <<row, job>>
      BY <2>2 DEF AlignCycle
    <3>2. cycle'[r] = NewCycle(Stamp(0, "utc"), clock)
      BY <1>0, <3>1 DEF OneAnchor
    <3> QED
      BY <1>0, <3>1, <3>2 DEF OneAnchor
  <2>3. CASE Charge(r)
    <3>1. /\ row' = Deduct(row, Calls[r], cycle[r], asOf[r]) /\ pc[r] = "anchored"
          /\ pc' = [pc EXCEPT ![r] = "charged"] /\ job' = job
          /\ \A q \in Requests : q # r => cycle'[q] = cycle[q]
      BY <1>0, <2>3 DEF Charge, Leave
    <3>2. row'.weekStart = row.weekStart /\ row'.weekCycle = cycle[r]
      BY <1>0, <3>1, AnchorKept
    <3>3. \E t \in Nat : cycle[r] = NewCycle(Stamp(0, "utc"), t)
      BY <3>1 DEF OneAnchor
    <3> QED
      BY <1>0, <3>1, <3>2, <3>3 DEF OneAnchor
  <2>3a. CASE Block(r)
    BY <1>0, <1>1, <2>3a DEF Block, Leave
  <2>4. CASE Answer(r)
    <3>1. PICK o \in Outcomes : pc' = [pc EXCEPT ![r] = AfterAnswer(Mode[r], o)]
      BY <2>4 DEF Answer
    <3>2. AfterAnswer(Mode[r], o) \notin {"read", "anchored"}
      BY DEF AfterAnswer
    <3> QED
      BY <1>0, <1>1, <2>4, <3>1, <3>2 DEF Answer
  <2>5. CASE GiveBack(r)
    <3>1. row'.weekStart = row.weekStart /\ row'.weekCycle = row.weekCycle
      BY <1>0, <2>5, AnchorKept DEF GiveBack
    <3>2. pc' = [pc EXCEPT ![r] = AfterRefund(Mode[r], answer[r])]
          /\ AfterRefund(Mode[r], answer[r]) \notin {"read", "anchored"} /\ UNCHANGED <<cycle, job>>
      BY <2>5 DEF GiveBack, AfterRefund
    <3> QED
      BY <1>0, <1>1, <3>1, <3>2
  <2>6. CASE Account(r)
    <3>1. row'.weekStart = row.weekStart /\ row'.weekCycle = row.weekCycle
      BY <1>0, <2>6, AnchorKept DEF Account
    <3> QED
      BY <1>0, <1>1, <2>6, <3>1 DEF Account
  <2> QED
    BY <1>2, <2>0, <2>1, <2>2, <2>3, <2>3a, <2>4, <2>5, <2>6 DEF Request, Serve
<1>3. CASE Time \/ Restart
  <2>1. row'.weekStart = row.weekStart /\ row'.weekCycle = row.weekCycle
    BY <1>0, <1>3, AnchorKept DEF Time, Tick, SchedulerReset, MinuteOver, Restart
  <2> QED
    BY <1>1, <1>3, <2>1 DEF Time, Tick, SchedulerReset, MinuteOver, Restart
<1>4. CASE Crash
  <2>1. /\ job' = [a \in Admins |-> NoJob] /\ row' = row
        /\ \A r \in Requests : pc'[r] \notin {"read", "anchored"}
    BY <1>0, <1>4 DEF Crash, Active
  <2> QED
    BY <2>1 DEF OneAnchor, NoJob
<1>5. ASSUME NEW a \in Admins, Admin(a) PROVE OneAnchor'
  <2>1. CASE AdminResetCalls(a) \/ AdminLimits(a)
    <3>1. row'.weekStart = row.weekStart /\ row'.weekCycle = row.weekCycle
      BY <1>0, <2>1, AnchorKept DEF AdminResetCalls, AdminLimits
    <3> QED
      BY <1>1, <2>1, <3>1 DEF AdminResetCalls, AdminLimits
  <2>2. CASE AdminDelete(a)
    BY <1>1, <2>2 DEF AdminDelete
  <2>3. ~(\/ AdminResetTokens(a) \/ AdminResetAll(a) \/ AdminResetAllTokens(a)
          \/ AdminReadAnchor(a) \/ AdminSetAnchor(a))
    BY DEF AdminResetTokens, AdminResetAll, AdminResetAllTokens, AdminReadAnchor, AdminSetAnchor,
           CanDo, MovesAnchor, OneAnchor
  <2> QED
    BY <1>5, <2>1, <2>2, <2>3 DEF Admin
<1>6. CASE UNCHANGED vars
  BY <1>1, <1>6 DEF vars, realVars
<1> QED
  BY <1>2, <1>3, <1>4, <1>5, <1>6 DEF Next, Process

LEMMA BucketStep ==
  ASSUME Shape, OneAnchor, [Next]_vars, NEW r \in Requests,
         pc[r] = "anchored", pc'[r] = "charged",
         CycleOf(cycle[r].at) = CycleOf(row.weekCycle.at)
  PROVE  row'.tokWeek = row.tokWeek
<1>0. /\ pc \in [Requests -> PCs] /\ row \in Rows
  BY DEF Shape, TypeOK
<1>1. Charge(r)
  <2>1. ASSUME NEW q \in Requests, Request(q), q # r PROVE FALSE
    BY <1>0, <2>1
       DEF Request, Serve, Enter, ReadAnchor, AlignCycle, Charge, Block, Reject, Answer, GiveBack,
           Account
  <2>2. Request(r) => Charge(r)
    BY <1>0
       DEF Request, Serve, Enter, ReadAnchor, AlignCycle, Block, Reject, Answer, GiveBack, Account
  <2>3. pc' # pc
    BY <1>0
  <2>4. ~Time /\ (\A a \in Admins : ~Admin(a)) /\ ~Restart /\ ~UNCHANGED vars
    BY <2>3 DEF Time, Tick, SchedulerReset, MinuteOver, Admin, AdminResetCalls, AdminResetTokens,
         AdminResetAll, AdminResetAllTokens, AdminReadAnchor, AdminSetAnchor, AdminLimits,
         AdminDelete, Restart, vars, realVars
  <2>5. ~Crash
    BY DEF Crash
  <2> QED
    BY <2>1, <2>2, <2>4, <2>5 DEF Next, Process
<1>2. PICK t \in Nat : row.weekCycle = NewCycle(Stamp(0, "utc"), t)
  BY DEF OneAnchor
<1>3. PICK u \in Nat : cycle[r] = NewCycle(Stamp(0, "utc"), u)
  BY DEF OneAnchor
<1>4. /\ row.weekCycle = Stamp((t \div WeekLen) * WeekLen, "utc")
      /\ ((t \div WeekLen) * WeekLen) \div WeekLen = t \div WeekLen
  BY <1>2, CycleIs
<1>5. /\ cycle[r] = Stamp((u \div WeekLen) * WeekLen, "utc")
      /\ ((u \div WeekLen) * WeekLen) \div WeekLen = u \div WeekLen
  BY <1>3, CycleIs
<1>6. u \div WeekLen = t \div WeekLen
  <2>1. /\ WeekLen \in Nat \ {0} /\ t \div WeekLen \in Int /\ u \div WeekLen \in Int
        /\ row.weekCycle.at = (t \div WeekLen) * WeekLen
        /\ cycle[r].at = (u \div WeekLen) * WeekLen
        /\ row.weekStart.at = 0
    BY <1>4, <1>5, TimeAssumption DEF Stamp, OneAnchor
  <2>2. row.weekCycle.at - 0 = row.weekCycle.at /\ cycle[r].at - 0 = cycle[r].at
    BY <2>1
  <2>3. CycleOf(cycle[r].at) = u \div WeekLen
    BY <1>5, <2>1, <2>2 DEF CycleOf
  <2>4. CycleOf(row.weekCycle.at) = t \div WeekLen
    BY <1>4, <2>1, <2>2 DEF CycleOf
  <2> QED
    BY <2>3, <2>4
<1>7. row' = Deduct(row, Calls[r], cycle[r], asOf[r])
  BY <1>1 DEF Charge
<1> QED
  BY <1>0, <1>4, <1>5, <1>6, <1>7, AnchorKept DEF WeekUsedIn

\* While the anchor is the one the user was created with, in UTC, a gate in the 7-day
\* cycle of the bucket leaves the bucket alone, however late after its read of the
\* anchor it charges.
THEOREM LedgerKeptWithinCycle ==
  AnchorZone = "utc" /\ MovesAnchor \cap AdminOps = {} /\ Spec => KeptWithinCycle
<1> SUFFICES ASSUME AnchorZone = "utc", MovesAnchor \cap AdminOps = {}
             PROVE  Spec => KeptWithinCycle
  OBVIOUS
<1>1. Init => OneAnchor
  BY OneAnchorInit
<1>2. Shape /\ OneAnchor /\ [Next]_vars => OneAnchor'
  BY OneAnchorStep
<1>3. Shape /\ OneAnchor /\ [Next]_vars =>
        [\A r \in Requests :
           /\ pc[r] = "anchored" /\ pc'[r] = "charged"
           /\ CycleOf(cycle[r].at) = CycleOf(row.weekCycle.at)
           => row'.tokWeek = row.tokWeek]_vars
  BY BucketStep
<1> QED
  BY <1>1, <1>2, <1>3, ShapeInit, ShapeStep, PTL DEF Spec, KeptWithinCycle

-----------------------------------------------------------------------------
(* The weekly bucket. *)

SameWeek(q) == q.weekCycle = row.weekCycle /\ q.tokWeek = row.tokWeek

LEMMA StatementsKeepWeek ==
  ASSUME row \in Rows
  PROVE  /\ \A n : SameWeek(Refund(row, n))
         /\ \A n : SameWeek(Reset5h(row, n)) /\ SameWeek(Compensate(row, n))
         /\ \A n : SameWeek(ResetCallCount(row, n))
         /\ \A l, m : SameWeek(SetCallLimits(row, l, m)) /\ SameWeek(SetTokenWindowLimits(row, l, m))
         /\ \A l : SameWeek(SetTokenTotalLimit(row, l))
<1>1. \A n : SameWeek(Refund(row, n)) /\ SameWeek(Reset5h(row, n)) /\ SameWeek(Compensate(row, n))
  BY DEF SameWeek, Rows, Refund, Reset5h, Compensate
<1>2. /\ \A n : SameWeek(ResetCallCount(row, n))
      /\ \A l, m : SameWeek(SetCallLimits(row, l, m)) /\ SameWeek(SetTokenWindowLimits(row, l, m))
      /\ \A l : SameWeek(SetTokenTotalLimit(row, l))
  BY DEF SameWeek, Rows, ResetCallCount, SetCallLimits, SetTokenWindowLimits, SetTokenTotalLimit
<1> QED
  BY <1>1, <1>2

LEMMA WeekStep == Shape /\ WeeklyUsageKept /\ [Next]_vars => WeeklyUsageKept'
<1> SUFFICES ASSUME Shape, WeeklyUsageKept, [Next]_vars PROVE WeeklyUsageKept'
  OBVIOUS
<1>0. /\ row \in Rows /\ week \in [cycle : Stamps, tokens : Nat, kept : BOOLEAN]
      /\ \A r \in Requests : tok[r] \in Nat
  <2>1. TokenCounts \cup {0} \subseteq Nat
    BY LedgerAssumption
  <2> QED
    BY <2>1 DEF Shape, TypeOK
\* A step that leaves the weekly bucket alone.
<1>1. ASSUME row' = row \/ SameWeek(row'), week' = week PROVE WeeklyUsageKept'
  BY <1>1 DEF WeeklyUsageKept, SameWeek
\* A statement that opens a new week.
<1>2. ASSUME row'.tokWeek = 0, week' = NewWeek(row'.weekCycle) PROVE WeeklyUsageKept'
  BY <1>2 DEF WeeklyUsageKept, NewWeek
\* A statement that acts on what the row was.
<1>3. ASSUME week' = [week EXCEPT !.kept = FALSE] PROVE WeeklyUsageKept'
  BY <1>0, <1>3 DEF WeeklyUsageKept
<1>4. ASSUME NEW r \in Requests, Charge(r) PROVE WeeklyUsageKept'
  <2>1. row' = Deduct(row, Calls[r], cycle[r], asOf[r])
    BY <1>4 DEF Charge
  <2>2. row'.weekCycle = cycle[r]
        /\ row'.tokWeek = IF row.weekCycle # cycle[r] THEN 0 ELSE row.tokWeek
    BY <1>0, <2>1 DEF Deduct, WeekUsedIn, Rows
  <2>3. CASE cycle[r] = row.weekCycle
    <3>1. week' = week
      BY <1>4, <2>3 DEF Charge
    <3> QED
      BY <2>2, <2>3, <3>1 DEF WeeklyUsageKept
  <2>4. CASE cycle[r] # row.weekCycle /\ cycle[r] # TrueCycle
    BY <1>3, <1>4, <2>4 DEF Charge
  <2>5. CASE cycle[r] # row.weekCycle /\ cycle[r] = TrueCycle /\ cycle[r] # week.cycle
    BY <1>2, <1>4, <2>2, <2>5 DEF Charge
  \* the week has begun already, and the bucket has left it since
  <2>6. CASE cycle[r] # row.weekCycle /\ cycle[r] = TrueCycle /\ cycle[r] = week.cycle
    <3>1. week' = week
      BY <1>4, <2>6 DEF Charge
    <3> QED
      BY <2>6, <3>1 DEF WeeklyUsageKept
  <2> QED
    BY <2>3, <2>4, <2>5, <2>6
<1>5. ASSUME NEW r \in Requests, Account(r) PROVE WeeklyUsageKept'
  <2>1. CASE present
    <3>1. row' = AddTokens(row, tok[r]) /\ week' = [week EXCEPT !.tokens = @ + tok[r]]
      BY <1>5, <2>1 DEF Account
    <3>2. row'.weekCycle = row.weekCycle /\ row'.tokWeek = row.tokWeek + tok[r]
      BY <1>0, <3>1 DEF AddTokens, Rows
    <3> QED
      BY <1>0, <3>1, <3>2 DEF WeeklyUsageKept
  <2>2. CASE ~present
    BY <1>1, <1>5, <2>2 DEF Account
  <2> QED
    BY <2>1, <2>2
<1>6. ASSUME NEW r \in Requests,
             \/ Enter(r) \/ ReadAnchor(r) \/ AlignCycle(r) \/ Block(r) \/ Reject(r) \/ Answer(r)
             \/ GiveBack(r)
      PROVE  WeeklyUsageKept'
  <2>1. (row' = row \/ SameWeek(row')) /\ week' = week
    BY <1>0, <1>6, StatementsKeepWeek
       DEF Enter, ReadAnchor, AlignCycle, Block, Reject, Answer, GiveBack, ghosts
  <2> QED
    BY <1>1, <2>1
<1>7. CASE Time \/ Process
  <2>1. (row' = row \/ SameWeek(row')) /\ week' = week
    BY <1>0, <1>7, StatementsKeepWeek
       DEF Time, Process, Tick, SchedulerReset, MinuteOver, Crash, Restart, ghosts
  <2> QED
    BY <1>1, <2>1
<1>8. ASSUME NEW a \in Admins, AdminResetTokens(a) PROVE WeeklyUsageKept'
  BY <1>0, <1>2, <1>8 DEF AdminResetTokens, ResetTokenStats, Rows
<1>9. ASSUME NEW a \in Admins, AdminResetAllTokens(a) PROVE WeeklyUsageKept'
  <2>1. CASE present
    BY <1>0, <1>2, <1>9, <2>1 DEF AdminResetAllTokens, ResetTokenStats, Rows
  <2>2. CASE ~present
    BY <1>1, <1>9, <2>2 DEF AdminResetAllTokens
  <2> QED
    BY <2>1, <2>2
<1>10. ASSUME NEW a \in Admins, AdminSetAnchor(a) PROVE WeeklyUsageKept'
  <2> DEFINE new == SetWeekStart(row, job[a], job[a].anchor, job[a].now)
             c == AlignedCycle(job[a].anchor, job[a].now)
  <2>1. CASE ~present
    BY <1>1, <1>10, <2>1 DEF AdminSetAnchor
  <2>2. CASE present
    <3>1. /\ row' = new
          /\ week' = IF new.weekCycle # row.weekCycle THEN NewWeek(new.weekCycle)
                     ELSE IF job[a].weekCycle # row.weekCycle THEN [week EXCEPT !.kept = FALSE] ELSE week
      BY <1>10, <2>2 DEF AdminSetAnchor
    <3>2. \/ c # job[a].weekCycle /\ new.weekCycle = c /\ new.tokWeek = 0
          \/ c = job[a].weekCycle /\ SameWeek(new)
      BY <1>0 DEF SetWeekStart, SameWeek, Rows
    <3> HIDE DEF new, c
    <3>3. CASE new.weekCycle # row.weekCycle
      BY <1>2, <3>1, <3>2, <3>3 DEF SameWeek
    <3>4. CASE new.weekCycle = row.weekCycle /\ job[a].weekCycle # row.weekCycle
      BY <1>3, <3>1, <3>4
    <3>5. CASE new.weekCycle = row.weekCycle /\ job[a].weekCycle = row.weekCycle
      BY <1>1, <3>1, <3>2, <3>5
    <3> QED
      BY <3>3, <3>4, <3>5
  <2> QED
    BY <2>1, <2>2
<1>11. ASSUME NEW a \in Admins,
              \/ AdminResetCalls(a) \/ AdminResetAll(a) \/ AdminReadAnchor(a)
              \/ AdminLimits(a) \/ AdminDelete(a)
       PROVE  WeeklyUsageKept'
  <2>1. (row' = row \/ SameWeek(row')) /\ week' = week
    BY <1>0, <1>11, StatementsKeepWeek
       DEF AdminResetCalls, AdminResetAll, AdminReadAnchor, AdminLimits, AdminDelete, ghosts
  <2> QED
    BY <1>1, <2>1
<1>12. CASE UNCHANGED vars
  BY <1>1, <1>12 DEF vars, realVars, ghosts
<1> QED
  BY <1>4, <1>5, <1>6, <1>7, <1>8, <1>9, <1>10, <1>11, <1>12 DEF Next, Request, Serve, Admin

\* The weekly bucket is what was billed since its cycle began, for any number of
\* requests in flight, every rollover, reset, crash and edit of the anchor, except
\* under a statement that acts on a row it had read before the bucket moved on.
THEOREM LedgerWeeklyUsageKept == Spec => []WeeklyUsageKept
<1>1. Init => WeeklyUsageKept
  BY DEF Init, NewRow, WeeklyUsageKept
<1>2. QED
  BY <1>1, WeekStep, ShapeInit, ShapeStep, PTL DEF Spec
-----------------------------------------------------------------------------
(* The slots bound the requests in flight: RequestPath implements this ledger. *)

\* The requests that hold a slot.
Running == {q \in Requests : stage[q] = "running"}

\* While the ledger bounds the requests in flight, max_concurrency stays in that bound.
CapsBounded == MaxInFlight # 0 => Caps \subseteq 1..MaxInFlight

\* A request between its gate and its end holds a slot; the slots in use are within
\* the bound, because every request that asked did so under some cap of the user.
SlotsInv ==
  /\ stage \in [Requests -> Slots!Stages]
  /\ \A r \in Requests : stage[r] # "away" => limit[r] \in Caps
  /\ limit \in [Requests -> Caps \cup {0}]
  /\ InFlight \subseteq Running
  /\ MaxInFlight # 0 => Cardinality(Running) <= MaxInFlight

LEMMA SlotCardinality == ASSUME NEW S PROVE Slots!Cardinality(S) = Cardinality(S)
BY DEF Slots!Cardinality, Cardinality, Slots!IsFiniteSet, IsFiniteSet

LEMMA RunningFinite == IsFiniteSet(Running) /\ Cardinality(Running) \in Nat
<1>1. Running \subseteq Requests /\ IsFiniteSet(Requests)
  BY CallsAssumption DEF Running
<1> QED
  BY <1>1, FS_Subset, FS_CardinalityType

LEMMA SlotsInit == PathInit => SlotsInv
<1> SUFFICES ASSUME PathInit PROVE SlotsInv
  OBVIOUS
<1>1. InFlight = {} /\ Running = {}
  BY DEF PathInit, Init, Slots!Init, InFlight, Active, Running
<1>2. Cardinality(Running) = 0
  BY <1>1, FS_EmptySet
<1> QED
  BY <1>1, <1>2, LedgerAssumption DEF PathInit, Slots!Init, SlotsInv, Slots!Stages

\* A request that holds a slot and has not passed its gate finds the ledger's guard true.
LEMMA HolderIsFree ==
  ASSUME SlotsInv, NEW r \in Requests, stage[r] = "running", pc[r] = "new"
  PROVE  SlotFree
<1>1. r \in Running /\ r \notin InFlight
  BY DEF Running, InFlight, Active
<1>2. InFlight \subseteq Running \ {r}
  BY <1>1 DEF SlotsInv
<1>3. Cardinality(Running \ {r}) = Cardinality(Running) - 1 /\ IsFiniteSet(Running \ {r})
  BY <1>1, RunningFinite, FS_RemoveElement
<1>4. Cardinality(InFlight) <= Cardinality(Running) - 1
  BY <1>2, <1>3, FS_Subset
<1>5. MaxInFlight \in Nat
  BY LedgerAssumption
<1> QED
  BY <1>4, <1>5, RunningFinite, FlightFinite DEF SlotFree, SlotsInv

\* Every step of the path is a step of the ledger, or none.
LEMMA PathStepIsLedgerStep == SlotsInv /\ [PathNext]_pathVars => [Next]_vars
<1> SUFFICES ASSUME SlotsInv, [PathNext]_pathVars PROVE [Next]_vars
  OBVIOUS
<1>1. ASSUME NEW r \in Requests, Arrive(r) \/ Release(r) PROVE UNCHANGED vars
  BY <1>1 DEF Arrive, Release
<1>2. ASSUME NEW r \in Requests, Hold(r) PROVE Next
  <2>1. CASE Enter(r)
    <3>1. SlotFree
      BY <1>2, <2>1, HolderIsFree DEF Hold, Enter
    <3> QED
      BY <2>1, <3>1 DEF Next, Request
  <2>2. CASE Serve(r)
    BY <2>2 DEF Next, Request
  <2> QED
    BY <1>2, <2>1, <2>2 DEF Hold
<1>3. CASE Elsewhere
  BY <1>3 DEF Elsewhere, Next, Process
<1>4. CASE Die
  BY <1>4 DEF Die, Next, Process
<1>5. CASE UNCHANGED pathVars
  BY <1>5 DEF pathVars
<1> QED
  BY <1>1, <1>2, <1>3, <1>4, <1>5 DEF PathNext

LEMMA SlotsStep ==
  ASSUME CapsBounded, Shape, SlotsInv, [PathNext]_pathVars
  PROVE  SlotsInv'
<1>0. pc \in [Requests -> PCs] /\ MaxInFlight \in Nat
  BY LedgerAssumption DEF Shape, TypeOK
\* The slots are left alone, and who was not in flight before holds one now.
<1>1. ASSUME UNCHANGED slotVars, InFlight' \subseteq Running PROVE SlotsInv'
  BY <1>1 DEF SlotsInv, slotVars, Running
\* A slot is let go, or none is taken, by a request that is not in flight.
<1>2. ASSUME NEW r \in Requests, NEW s \in Slots!Stages \ {"away", "running"},
             r \notin InFlight, stage' = [stage EXCEPT ![r] = s],
             limit' \in [Requests -> Caps \cup {0}], UNCHANGED pc,
             \A q \in Requests \ {r} : limit'[q] = limit[q],
             limit'[r] \in Caps
      PROVE  SlotsInv'
  <2>1. Running' = Running \ {r} /\ InFlight' = InFlight
    BY <1>2 DEF Running, InFlight, SlotsInv
  <2>2. MaxInFlight # 0 => Cardinality(Running') <= MaxInFlight
    <3>1. Cardinality(Running') <= Cardinality(Running) /\ Cardinality(Running') \in Nat
      BY <2>1, RunningFinite, FS_Subset, FS_CardinalityType
    <3> QED
      BY <1>0, <3>1, RunningFinite DEF SlotsInv
  <2>3. InFlight' \subseteq Running'
    BY <1>2, <2>1 DEF SlotsInv
  <2>4. stage' \in [Requests -> Slots!Stages]
    BY <1>2 DEF SlotsInv
  <2>5. \A q \in Requests : stage'[q] # "away" => limit'[q] \in Caps
    BY <1>2 DEF SlotsInv
  <2> QED
    BY <1>2, <2>2, <2>3, <2>4, <2>5 DEF SlotsInv
<1>3. ASSUME NEW r \in Requests, Arrive(r) PROVE SlotsInv'
  <2>0. UNCHANGED pc
    BY <1>3 DEF Arrive, vars, realVars
  <2>1. stage[r] # "running" => r \notin InFlight
    BY DEF SlotsInv, Running
  <2>2. CASE Slots!Ask(r)
    <3>1. PICK n \in Caps : limit' = [limit EXCEPT ![r] = n]
      BY <2>2 DEF Slots!Ask
    <3>2. stage[r] = "away" /\ stage' = [stage EXCEPT ![r] = "asking"]
      BY <2>2 DEF Slots!Ask
    <3> QED
      BY <1>2, <2>0, <2>1, <3>1, <3>2 DEF SlotsInv, Slots!Stages
  <2>3. CASE Slots!Admit(r)
    <3>1. /\ stage[r] = "asking" /\ stage' = [stage EXCEPT ![r] = "running"] /\ limit' = limit
          /\ limit[r] = 0 \/ Cardinality(Slots!OthersIn(r, {"running"})) < limit[r]
      BY <2>3, SlotCardinality DEF Slots!Admit
    <3>2. Slots!OthersIn(r, {"running"}) = Running /\ r \notin Running
      BY <3>1 DEF Slots!OthersIn, Running
    <3>3. Running' = Running \cup {r} /\ InFlight' = InFlight
      BY <2>0, <3>1 DEF Running, InFlight, SlotsInv
    <3>4. MaxInFlight # 0 => Cardinality(Running') <= MaxInFlight
      <4> SUFFICES ASSUME MaxInFlight # 0 PROVE Cardinality(Running') <= MaxInFlight
        OBVIOUS
      <4>1. limit[r] \in 1..MaxInFlight
        BY <3>1 DEF CapsBounded, SlotsInv
      <4>2. Cardinality(Running') = Cardinality(Running) + 1
        BY <3>2, <3>3, RunningFinite, FS_AddElement
      <4> QED
        BY <1>0, <3>1, <3>2, <4>1, <4>2, RunningFinite
    <3>5. stage' \in [Requests -> Slots!Stages]
      BY <3>1 DEF SlotsInv, Slots!Stages
    <3>6. \A q \in Requests : stage'[q] # "away" => limit'[q] \in Caps
      BY <3>1 DEF SlotsInv
    <3> QED
      BY <3>1, <3>3, <3>4, <3>5, <3>6 DEF SlotsInv
  <2>4. CASE Slots!TurnAway(r)
    <3>1. stage[r] = "asking" /\ stage' = [stage EXCEPT ![r] = "refusing"] /\ limit' = limit
      BY <2>4 DEF Slots!TurnAway
    <3> QED
      BY <1>2, <2>0, <2>1, <3>1 DEF SlotsInv, Slots!Stages
  <2>5. CASE Slots!Refuse(r)
    <3>1. stage[r] = "refusing" /\ stage' = [stage EXCEPT ![r] = "refused"] /\ limit' = limit
      BY <2>5 DEF Slots!Refuse
    <3> QED
      BY <1>2, <2>0, <2>1, <3>1 DEF SlotsInv, Slots!Stages
  <2> QED
    BY <1>3, <2>2, <2>3, <2>4, <2>5 DEF Arrive
<1>4. ASSUME NEW r \in Requests, Hold(r) PROVE SlotsInv'
  <2>1. InFlight' \subseteq InFlight \cup {r}
    BY <1>0, <1>4 DEF Hold, Serve, Enter, ReadAnchor, AlignCycle, Charge, Block, Reject, Answer,
                      GiveBack, Account, InFlight
  <2>2. r \in Running /\ UNCHANGED slotVars
    BY <1>4 DEF Hold, Running
  <2> QED
    BY <1>1, <2>1, <2>2 DEF SlotsInv
<1>5. ASSUME NEW r \in Requests, Release(r) PROVE SlotsInv'
  <2>1. r \notin InFlight /\ UNCHANGED pc
    BY <1>5 DEF Release, MayRelease, InFlight, Active, vars, realVars
  <2>2. stage[r] = "running" /\ stage' = [stage EXCEPT ![r] = "finished"] /\ limit' = limit
    BY <1>5 DEF Release, Slots!Finish
  <2> QED
    BY <1>2, <2>1, <2>2 DEF SlotsInv, Slots!Stages
<1>6. CASE Elsewhere
  <2>1. UNCHANGED pc
    BY <1>6 DEF Elsewhere, Time, Tick, SchedulerReset, MinuteOver, Restart, Admin,
                AdminResetCalls, AdminResetTokens, AdminResetAll, AdminResetAllTokens,
                AdminReadAnchor, AdminSetAnchor, AdminLimits, AdminDelete
  <2>2. InFlight' = InFlight /\ UNCHANGED slotVars
    BY <1>6, <2>1 DEF Elsewhere, InFlight
  <2> QED
    BY <1>1, <2>2 DEF SlotsInv
<1>7. CASE Die
  <2>1. InFlight' = {} /\ Running' = {}
    BY <1>0, <1>7 DEF Die, Crash, Slots!Crash, InFlight, Active, Running
  <2>2. Cardinality(Running') = 0
    BY <2>1, FS_EmptySet
  <2>3. limit' = limit
    BY <1>7 DEF Die, Slots!Crash
  <2>4. stage' \in [Requests -> Slots!Stages]
    BY <1>7 DEF Die, Slots!Crash, SlotsInv, Slots!Stages
  <2>5. \A q \in Requests : stage'[q] # "away" => limit'[q] \in Caps
    BY <1>7, <2>3 DEF Die, Slots!Crash, SlotsInv
  <2> QED
    BY <1>0, <2>1, <2>2, <2>3, <2>4, <2>5 DEF SlotsInv
<1>8. CASE UNCHANGED pathVars
  <2>1. InFlight' = InFlight /\ UNCHANGED slotVars
    BY <1>8 DEF pathVars, vars, realVars, InFlight
  <2> QED
    BY <1>1, <2>1 DEF SlotsInv
<1> QED
  BY <1>3, <1>4, <1>5, <1>6, <1>7, <1>8 DEF PathNext

\* A handler that acquires its slot before the gate and releases it only when it has
\* returned keeps the number of the user's requests in flight within the cap: every
\* behaviour of the path is one of the ledger, whose guard nothing in the code states.
THEOREM SlotsBoundTheLedger == CapsBounded /\ PathSpec => Spec
<1> SUFFICES ASSUME CapsBounded PROVE PathSpec => Spec
  OBVIOUS
<1>1. PathInit => Init /\ Shape /\ SlotsInv
  BY ShapeInit, SlotsInit DEF PathInit
<1>2. Shape /\ SlotsInv /\ [PathNext]_pathVars => [Next]_vars /\ Shape' /\ SlotsInv'
  BY PathStepIsLedgerStep, ShapeStep, SlotsStep
<1> QED
  BY <1>1, <1>2, PTL DEF PathSpec, Spec

\* With slots instead of the ledger's guard: while nobody edits the limits, a token
\* bucket stays below its limit plus the largest bill for every slot of the user,
\* across crashes, which forget the slots and the requests that held them together.
THEOREM PathOverageBounded ==
  CapsBounded /\ "limits" \notin AdminOps /\ PathSpec => []TokenOverageBounded
BY SlotsBoundTheLedger, LedgerOverageBounded

\* And the weekly bucket holds what was billed since its cycle began.
THEOREM PathWeeklyUsageKept == CapsBounded /\ PathSpec => []WeeklyUsageKept
BY SlotsBoundTheLedger, LedgerWeeklyUsageKept
=============================================================================
