--------------------------- MODULE MCGatewayStart ---------------------------
(* The instance of GatewayStart for TLC: the databases of four builds.      *)
EXTENDS GatewayStart, TLC

All == {s.col : s \in Range(Statements)}

\* The first build, the one before the recompute, the one without a month anchor,
\* and the present one.
SomeBuilds ==
  {{},
   All \ {"quota_token_total_mult_v1", "week_cycle_start", "month_start", "cycle_start_date"},
   All \ {"quota_token_total_limit", "quota_token_total_mult_v1", "week_start", "week_cycle_start",
          "month_start", "cycle_start_date", "raw_total_tokens"},
   All}

\* One token at 1.5, and 110 at 1.1, where float64 leaves dust.
SomeTokens == [c \in Calls |-> IF c = "c1" THEN 1 ELSE 110]
SomeProducts ==
  [c \in Calls |-> IF c = "c1" THEN [whole |-> 1, rest |-> "more"]
                               ELSE [whole |-> 121, rest |-> "dust"]]
SomeVia == [c \in Calls |-> "p1"]
SomeConfig == <<"p1", "p2">>
SomeDates == {2}

\* The two key-encryption keys are alike.
Alike == Permutations(Keks)
=============================================================================
