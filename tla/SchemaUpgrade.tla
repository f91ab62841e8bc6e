--------------------------- MODULE SchemaUpgrade ---------------------------
(***************************************************************************)
(* RunMigrations (internal/db/migrations.go): what a start of the gateway  *)
(* does to the database an older build left.  A column that is missing is  *)
(* added, and only then filled for the rows that exist; the two are        *)
(* separate statements, and nothing holds them together when the process   *)
(* dies in between.                                                        *)
(*                                                                         *)
(* Of the database the model keeps the log of calls (which calls, and the  *)
(* raw_total_tokens of each row) and one quotas row: its counter of billed *)
(* tokens and which of its three anchors hold a text.                      *)
(***************************************************************************)
EXTENDS Naturals, Sequences, FiniteSetsExt

CONSTANTS
  Calls,   \* the calls the user may make
  Tokens,  \* Tokens[c]: prompt_tokens + completion_tokens
  Product, \* Product[c]: Tokens[c] * multiplier_used, as a float64
  Builds,  \* the sets of columns older builds left
  MaxCuts  \* bound of the model: the fills that crashes prevent

\* Of a float64: its whole part, and whether nothing is left, less than a millionth
\* ("dust", such as 110 * 1.1 = 121.00000000000001 leaves) or more.
Products == [whole : Nat, rest : {"none", "dust", "more"}]

ASSUME UpgradeAssumption ==
  /\ IsFiniteSet(Calls)
  /\ Tokens \in [Calls -> Nat]
  /\ Product \in [Calls -> Products]
  \* the builds added their columns in order
  /\ \A b \in Builds : "quota_token_total_mult_v1" \in b => "quota_token_total_limit" \in b

VARIABLES
  columns,   \* the columns added so far
  todo,      \* the statements RunMigrations has yet to run, by their place
  logged,    \* the rows of call_logs
  raw,       \* raw[c]: raw_total_tokens of the row of call c
  pending,   \* the calls in the log whose AddTokenUsage has not run
  used,      \* quota_token_total_used
  anchored   \* the anchors of the quotas row that hold a text

(* History variables, for the properties only. *)
VARIABLES
  known,     \* used has been computed from the log
  recomputed,\* the calls in the log when it was: their bills were computed in SQL
  forgiven,  \* the calls in the log that used rightly leaves out
  cut        \* the columns whose fill a crash has prevented

database == <<columns, logged, raw, used, anchored>>
upgradeVars == <<database, todo, pending, known, recomputed, forgiven, cut>>

-----------------------------------------------------------------------------
(* The statements, in order. *)

Alter(col) == [do |-> "alter", col |-> col]
Fill(col) == [do |-> "fill", col |-> col]
Refill(col) == [do |-> "refill", col |-> col]

Added(col) == <<Alter(col)>>
AddedAndFilled(col) == <<Alter(col), Fill(col)>>

CallLogSteps ==
  Added("provider_id") \o Added("raw_total_tokens") \o <<Refill("raw_total_tokens")>>

UserSteps ==
  Added("expires_at") \o Added("route_mode") \o Added("fixed_provider")
    \o Added("max_body_size") \o Added("max_concurrency")

QuotaSteps ==
  Added("fixed_multiplier") \o Added("quota_token_total_used") \o Added("priority")
    \o AddedAndFilled("quota_token_total_limit") \o AddedAndFilled("quota_token_total_mult_v1")

\* A mutant of WindowSteps: the cycle is filled from an anchor that is not there yet.
WindowStepsSwapped ==
  AddedAndFilled("week_cycle_start") \o AddedAndFilled("week_start") \o AddedAndFilled("month_start")

WindowSteps ==
  Added("quota_token_5h_limit") \o Added("quota_token_5h_used")
    \o Added("quota_token_week_limit") \o Added("quota_token_week_used")
    \o AddedAndFilled("week_start") \o AddedAndFilled("week_cycle_start")
    \o AddedAndFilled("month_start")

ProviderSteps ==
  Added("allow_passthrough") \o Added("auth_header") \o Added("auth_scheme")
    \o Added("extra_headers") \o Added("monthly_token_limit") \o Added("monthly_call_limit")
    \o Added("monthly_token_low_ratio") \o Added("monthly_call_low_ratio")
    \o AddedAndFilled("cycle_start_date")

Statements == CallLogSteps \o UserSteps \o QuotaSteps \o WindowSteps \o ProviderSteps

Anchors == {"week_start", "week_cycle_start", "month_start"}
BilledColumns == {"quota_token_total_limit", "quota_token_total_mult_v1"}

\* Mutants of Due: the totals are recomputed at every start; the log is filled only by
\* the start that adds the column.
DueWithTotals(s, cols) == s.col \notin cols \/ s.do = "refill" \/ s = Fill("quota_token_total_limit")
DueOnce(s, cols) == s.col \notin cols

\* columnExists guards an ALTER and the fill that follows it; one UPDATE has no guard.
Due(s, cols) == s.col \notin cols \/ s.do = "refill"

\* What a start finds to do.
Plan(cols) == {i \in DOMAIN Statements : Due(Statements[i], cols)}

\* The statement at hand.
Current == Statements[Min(todo)]

-----------------------------------------------------------------------------
\* billedTokens: math.Ceil of the product.
billedTokens == [c \in Calls |-> Product[c].whole + IF Product[c].rest = "none" THEN 0 ELSE 1]

\* CAST(product + 0.999999 AS INTEGER): the idiom of the migrations for the same.
castTokens == [c \in Calls |-> Product[c].whole + IF Product[c].rest = "more" THEN 1 ELSE 0]

\* The calls of S whose bill the two compute differently.
Dusty(S) == {c \in S : Product[c].rest = "dust"}

\* What the calls of S come to when call c is billed b[c].
Total(b, S) == MapThenSumSet(LAMBDA c : b[c], S)

\* The database as an older build may have left it.  Before the totals were computed
\* with the multiplier, the counter may hold the raw sum, or anything in between.
UpgradeInit ==
  /\ columns \in Builds
  /\ todo = {} /\ pending = {} /\ cut = {}
  /\ logged \in SUBSET Calls
  /\ raw = [c \in Calls |-> IF c \in logged /\ "raw_total_tokens" \in columns THEN Tokens[c] ELSE 0]
  /\ anchored = columns \cap Anchors
  /\ known = ("quota_token_total_mult_v1" \in columns)
  /\ forgiven \in SUBSET logged
  /\ recomputed \in IF known THEN SUBSET logged ELSE {{}}
  /\ used = IF known THEN Total(castTokens, (logged \ forgiven) \cap recomputed)
                            + Total(billedTokens, (logged \ forgiven) \ recomputed)
            ELSE IF "quota_token_total_used" \in columns
                 THEN Total(Tokens, logged \ forgiven) ELSE 0

\* The next statement is done.
StatementDone == todo' = todo \ {Min(todo)}

\* ALTER TABLE ... ADD COLUMN, with a constant default.
AddColumn ==
  /\ todo # {} /\ Current.do = "alter"
  /\ columns' = columns \cup {Current.col}
  /\ StatementDone
  /\ UNCHANGED <<logged, raw, pending, used, anchored, known, recomputed, forgiven, cut>>

\* backfillRawTotalTokensSQL: only the rows that still hold the default.
FillRaw ==
  /\ todo # {} /\ Current.col = "raw_total_tokens" /\ Current.do # "alter"
  /\ raw' = [c \in Calls |-> IF c \in logged /\ raw[c] = 0 THEN Tokens[c] ELSE raw[c]]
  /\ StatementDone
  /\ UNCHANGED <<columns, logged, pending, used, anchored, known, recomputed, forgiven, cut>>

\* A mutant of Recomputed: the sum forgets the multiplier.
RecomputedRaw(S) == Total(Tokens, S)

\* backfillQuotaTokenTotalUsed: the whole log, multiplier included.
Recomputed(S) == Total(castTokens, S)

FillTotals ==
  /\ todo # {} /\ Current.do = "fill" /\ Current.col \in BilledColumns
  /\ used' = Recomputed(logged)
  /\ known' = TRUE /\ recomputed' = logged /\ forgiven' = {}
  /\ StatementDone
  /\ UNCHANGED <<columns, logged, raw, pending, anchored, cut>>

\* week_start and month_start become now; week_cycle_start becomes week_start.
FillAnchor ==
  /\ todo # {} /\ Current.do = "fill" /\ Current.col \in Anchors
  /\ anchored' = IF Current.col = "week_cycle_start" /\ "week_start" \notin anchored
                 THEN anchored ELSE anchored \cup {Current.col}
  /\ StatementDone
  /\ UNCHANGED <<columns, logged, raw, pending, used, known, recomputed, forgiven, cut>>

Migrate == AddColumn \/ FillRaw \/ FillTotals \/ FillAnchor

\* The process dies: a fill that was next will not run again, and the calls not yet
\* added to the counter never are.
Interrupted ==
  /\ todo' = {}
  /\ pending' = {} /\ forgiven' = forgiven \cup pending
  /\ cut' = IF todo # {} /\ Current.do = "fill" THEN cut \cup {Current.col} ELSE cut
  /\ Cardinality(cut') <= MaxCuts
  /\ UNCHANGED <<database, known, recomputed>>

-----------------------------------------------------------------------------
(* The running gateway writes to the same rows. *)

\* A mutant of RawOf: what the upstream reported is billed tokens.
RawOfBilled(c) == billedTokens[c]

\* raw_total_tokens of a new row: prompt + completion.
RawOf(c) == Tokens[c]

\* InsertCallLog.
LogCall(c) ==
  /\ c \notin logged
  /\ logged' = logged \cup {c}
  /\ raw' = [raw EXCEPT ![c] = RawOf(c)]
  /\ pending' = pending \cup {c}
  /\ UNCHANGED <<columns, todo, used, anchored, known, recomputed, forgiven, cut>>

\* AddTokenUsage, after it.
BillCall(c) ==
  /\ c \in pending
  /\ used' = used + billedTokens[c]
  /\ pending' = pending \ {c}
  /\ UNCHANGED <<columns, todo, logged, raw, anchored, known, recomputed, forgiven, cut>>

\* ResetTokenStats.
ResetTokens ==
  /\ used' = 0 /\ forgiven' = logged \ pending
  /\ anchored' = Anchors
  /\ UNCHANGED <<columns, todo, logged, raw, pending, known, recomputed, cut>>

\* AtomicDeductQuota stamps the cycle, and clears the counter when the month is over or
\* month_start is empty.
Gate ==
  /\ \E over \in BOOLEAN :
       /\ "month_start" \notin anchored => over
       /\ IF over THEN used' = 0 /\ forgiven' = logged \ pending ELSE UNCHANGED <<used, forgiven>>
       /\ anchored' = anchored \cup {"week_cycle_start"} \cup (IF over THEN {"month_start"} ELSE {})
  /\ UNCHANGED <<columns, todo, logged, raw, pending, known, recomputed, cut>>
=============================================================================
