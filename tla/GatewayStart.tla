---------------------------- MODULE GatewayStart ----------------------------
(***************************************************************************)
(* The gateway from one start to the next (main.go): the migrations, the   *)
(* seeding of the providers, the first load of the router, and then the    *)
(* traffic and the edits of the admin, until the process dies at any of    *)
(* these points.  Composes SchemaUpgrade and ProviderSeed, which share the *)
(* provider rows (cycle_start_date is filled by a migration) and the log   *)
(* (the usage of a provider is read from it).                              *)
(***************************************************************************)
EXTENDS SchemaUpgrade, ProviderSeed, Functions

CONSTANTS
  Via,     \* Via[c]: the provider that serves call c
  Dates,   \* what an admin may write as cycle_start_date
  Created, \* the day the rows of older builds were created
  MaxDay   \* bound of the model: the last day

ASSUME StartAssumption ==
  /\ Via \in [Calls -> Slugs]
  /\ Dates \subseteq Nat \cup {NoDate} /\ Created \in Nat \ {0} /\ MaxDay \in Nat
  /\ Created <= MaxDay

VARIABLES
  phase,  \* "down", "migrating", "seeding" or "serving"
  today,  \* the day in Asia/Shanghai
  day     \* day[c]: the day call c was logged

vars == <<upgradeVars, seedVars, phase, today, day>>

Init ==
  /\ UpgradeInit /\ SeedInit
  /\ phase = "down" /\ today = Created /\ day = [c \in Calls |-> Created]

-----------------------------------------------------------------------------
(* A start. *)

\* The process starts with the key-encryption key it finds; RunMigrations begins.
Boot ==
  /\ phase = "down" /\ phase' = "migrating"
  /\ kek' \in Keks
  /\ todo' = Plan(columns)
  /\ UNCHANGED <<database, pending, known, recomputed, forgiven, cut, providers, toSeed, table,
                 removed, seedCut, today, day>>

\* The fill of cycle_start_date.  DATE(created_at) is the day in UTC.
FillDates ==
  /\ todo # {} /\ Current = Fill("cycle_start_date")
  /\ \E d \in {Created - 1, Created} :
       date' = [s \in Slugs |-> IF s \in Rows /\ date[s] = NoDate THEN d ELSE date[s]]
  /\ StatementDone
  /\ UNCHANGED <<database, pending, known, recomputed, forgiven, cut, status, sealed>>

\* RunMigrations, one statement at a time.
RunMigrations ==
  /\ phase = "migrating"
  /\ (Migrate /\ UNCHANGED providers) \/ FillDates
  /\ UNCHANGED <<kek, toSeed, table, removed, seedCut, phase, today, day>>

\* SeedFromConfig, one INSERT at a time.
SeedFromConfig ==
  /\ \/ /\ phase = "migrating" /\ todo = {} /\ phase' = "seeding"
        /\ toSeed' = SeedPlan
        /\ UNCHANGED <<providers, kek, table, removed, seedCut>>
     \/ phase = "seeding" /\ InsertSeed(today) /\ UNCHANGED phase
  /\ UNCHANGED <<upgradeVars, today, day>>

NewRouter ==
  /\ phase = "seeding" /\ phase' = "serving"
  /\ FirstLoad
  /\ UNCHANGED <<upgradeVars, today, day>>

\* The process dies, or a statement of the start fails.
Crash ==
  /\ phase # "down" /\ phase' = "down"
  /\ Interrupted
  /\ toSeed' = <<>> /\ table' = {}
  /\ seedCut' = (seedCut \/ toSeed # <<>>)
  /\ UNCHANGED <<providers, kek, removed, today, day>>

-----------------------------------------------------------------------------
(* The running gateway. *)

\* A call is logged with its day and provider, and billed after that.
Serve(c) ==
  /\ phase = "serving"
  /\ \/ LogCall(c) /\ day' = [day EXCEPT ![c] = today]
     \/ BillCall(c) /\ UNCHANGED day
  /\ UNCHANGED <<seedVars, phase, today>>

Quota ==
  /\ phase = "serving"
  /\ ResetTokens \/ Gate
  /\ UNCHANGED <<seedVars, phase, today, day>>

AdminProviders(s) ==
  /\ phase = "serving"
  /\ \/ \E d \in Dates \cup {today} : CreateProvider(s, d)
     \/ \E d \in Dates : UpdateProvider(s, d)
     \/ DeleteProvider(s)
  /\ UNCHANGED <<upgradeVars, phase, today, day>>

\* No start lasts over midnight.
NextDay ==
  /\ phase \in {"down", "serving"}
  /\ today < MaxDay /\ today' = today + 1
  /\ UNCHANGED <<upgradeVars, seedVars, phase, day>>

\* GetProviderUsage: the calls a usage view adds up.
Counted(s) == {c \in logged : Via[c] = s /\ day[c] >= CycleStart(date[s], today)}

Next ==
  \/ Boot \/ RunMigrations \/ SeedFromConfig \/ NewRouter \/ Crash
  \/ (\E c \in Calls : Serve(c)) \/ Quota
  \/ (\E s \in Slugs : AdminProviders(s))
  \/ NextDay

Spec == Init /\ [][Next]_vars

-----------------------------------------------------------------------------
(* Properties. *)

\* What a finished start has repaired, whatever the older build left and however
\* many starts died on the way: every row of the log has its raw_total_tokens, the
\* counter has been recomputed with the multiplier, and every anchor holds a text,
\* unless the crash that fell between an ALTER and its UPDATE prevented that for
\* good (columnExists then skips both).
Upgraded ==
  phase = "serving" =>
    /\ \A c \in logged : raw[c] = Tokens[c]
    /\ known \/ "quota_token_total_mult_v1" \in cut
    /\ \A a \in Anchors \ anchored :
         a \in cut \/ (a = "week_cycle_start" /\ "week_start" \in cut)

\* Once recomputed, the counter of billed tokens is the bills of the logged calls,
\* without those a reset or the end of a month has cleared and those a crash kept from
\* AddTokenUsage; and, for each call whose bill was recomputed in SQL, one token less
\* if its product is less than a millionth above a whole number.
CountsWhatWasLogged ==
  LET counted == logged \ (forgiven \cup pending)
  IN  known => used + Cardinality(Dusty(counted \cap recomputed)) = Total(billedTokens, counted)

\* A start never brings back tokens that were cleared after the recompute.
ResetsStay == [][known => forgiven \subseteq forgiven']_vars

\* While every enabled provider can be decrypted the table holds exactly the enabled
\* ones: however long edits failed to reach the router because of one bad key, the
\* edit that repairs it brings them all.
Published ==
  phase = "serving" /\ (\A s \in Enabled : Readable(s)) => table = Enabled

\* A start seeds an empty catalog only, and then all of it: no provider an admin has
\* deleted comes back, and none of config.yaml is missing unless an admin deleted it
\* or a crash cut the seeding.
SeededOnce ==
  /\ removed \cap Rows = {}
  /\ phase = "serving" /\ ~seedCut => Range(Config) \subseteq Rows \cup removed

\* The cycle of a day: how many whole cycles after the anchor.
Cycle(s, d) == (d - date[s]) \div CycleLen

\* A provider's usage view adds up the calls logged in the cycle of today, counted
\* from its cycle_start_date, whenever that date is not in the future.
UsedIsThisCycle ==
  \A s \in Rows : date[s] \in 0..today =>
    Counted(s) = {c \in logged : /\ Via[c] = s /\ day[c] >= date[s]
                                /\ Cycle(s, day[c]) = Cycle(s, today)}
=============================================================================
