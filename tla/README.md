# Shimiaocheng LLM gateway: TLA+ models

The repository is a Go gateway in front of LLM providers: users call it with sub-keys, it limits
concurrent requests, charges calls and tokens against quotas, chooses a provider by time window,
forwards the request, and gives the calls back when the provider fails. An admin panel edits users,
quotas, providers, mappings and routing rules while requests are in flight. All state is in one SQLite
database (one connection, `db.SetMaxOpenConns(1)`) and in two in-process structures: the concurrency
counters (`sync.Map`) and the router's snapshot (`atomic.Value`).

The models are about what several goroutines do to that state between their statements. Each action is
one SQL statement, one transaction or one atomic memory access; everything between two of them may
interleave.

## The system

| Component | State | Operations | Hard behaviour | What makes it correct |
|---|---|---|---|---|
| Concurrency cap (`proxy/handler.go`, `passthrough.go`) | `userConcurrency`: user id → `*int64` | acquire, roll back, release, `ForgetConcurrency` | increment-then-compare, second lookup at release, cap copied at authentication, cap edited or user deleted in flight | counter = slots held; cap honoured; no slot leaked |
| Quota row (`models/quota.go`) | one row per user: counters, limits, anchors | gate, refund, token accounting, resets, edits of limits and anchors | time, anchor and cycle taken before the UPDATE, texts compared as times, lazy weekly and monthly rollover | limits honoured, nothing billed that is not owed |
| Proxy paths (`proxy/handler.go`, `stream.go`, `passthrough.go`) | locals of a request | gate → upstream → refund or accounting | each path has its own error exits; a crash loses the rest | the failures a path refunds are given back once; every request ends |
| 5h scheduler (`quota/scheduler.go`) | nothing of its own | tick at minute 0 of a boundary hour, compensation at start | gateway down at a boundary | no stale window; windows roll over |
| Provider catalog (`provider/store.go`, `admin/providers.go`, `mappings.go`, `routing.go`) | tables `providers`, `model_mappings`, `routing_rules` | create, update, delete, seed | check-then-delete, default moved in a transaction, restart | one default, nothing referenced deleted, the last provider kept |
| Router (`router/selector.go`, `timeutil`) | snapshot | `Reload`, `ResolveProvider`, `RewriteModel` | three reads per reload, overlapping reloads, map order, overnight windows | precedence of rules, no other provider than the chosen one (but see "Where code and comments disagree"), snapshot current |
| User accounts (`admin/users.go`, `models/user.go`) | table `users` | create, update, extend, delete | row read at the start and written much later, empty placeholder key, ids | keys belong to their user, replaced keys stay dead, edits do what they promise |
| Sub-key authentication (`auth/middleware.go`) | request context | lookup by hash, status and expiry | copies that grow stale | nobody is billed as somebody else |
| Multiplier engine (`quota/multiplier.go`) | table `time_multipliers` | largest open window, fixed multiplier, rounding | overnight windows, overlapping windows, fractions | the largest counts, rounded up, never free |
| Migrations (`db/migrations.go`) | columns of an older build, the rows in them | some thirty ALTERs, each fill a statement of its own | a crash between an ALTER and its fill; a recompute that must run once | every row repaired, the recomputed total that of the log, cleared tokens stay cleared |
| Seeding (`provider/store.go`) | tables `providers`, `model_mappings` | count, one INSERT per provider of config.yaml, first load | crash in the middle; a key this run cannot decrypt | seeded once, published when readable |
| Provider usage (`models/provider_usage.go`) | call log, `cycle_start_date` | cycle arithmetic, usage of the current cycle | anchors in the future, edited or not filled | one cycle, the current one |
| Process start (`main.go`) | nothing of its own | migrate, seed, compensate, load, serve | every prefix may be cut and run again | what holds when it serves |
| Sessions and login, statistics, panel, crypto, configuration | | | see "Not modelled" | |

They interact so: `SubKeyAuth` reads the user's row and puts identity, route and cap into the context;
the handler acquires a slot (ConcurrencyCap), asks the router for a provider (RouteSelection, over the
snapshot ProviderCatalog publishes), passes the gate on the quota row, calls the provider, and refunds or
accounts (QuotaLedger); the scheduler and the admin handlers write the same rows meanwhile (QuotaLedger,
UserAccounts), and every catalog edit ends in `Router.Reload` (ProviderCatalog). Before any of it a start
runs the migrations and the seeding, which write the same provider rows, quota rows and log (GatewayStart).

## The modules

**RequestLimit** is the abstract promise of the concurrency cap: a request asks under a cap its user was given
(`Caps`), passes only while fewer than that are running, and a crash ends them all. **ConcurrencyCap** is the code: `LoadOrStore`, `AddInt64`, the comparison, the roll-back,
and at release the second `Load` and `AddInt64` are separate actions of each request. `entry` is the
`sync.Map`, `value` the counters, `ptr` and `own` the counter a request loaded last and the one it
incremented, `lim` the cap copied by `SubKeyAuth`. Users have at most two counters in their life (before
and after `ForgetConcurrency`), because ids are never reused. `Crash` takes map, counters and handlers
together; the database keeps the caps. With `Stage` as the mapping it implements RequestLimit.

**QuotaRow** has one operator per statement of `models/quota.go`, on a record. Time is in hours. A weekly
anchor is an instant with the zone its text was written in, because the code compares the texts;
`window_start` and `month_start` are only compared with `<`, so they are what that comparison takes them
for. **CallTickets** says what a set of requests is worth in calls, **CallMeter** what one call counter
promises: charged only while it fits, credited at most once and only after a charge, cleared at any time.
**QuotaLedger** is the life of one user's requests. `AtomicDeductQuota` is four steps, because it takes the time
twice: `Enter` (the time for the month), `ReadAnchor` (the SELECT), `AlignCycle` (the time for the week, and the
cycle) and `Charge` or `Block` (the UPDATE), after which its variables are dead (`Leave`). Then `Reject`, `Answer`, `GiveBack` (`RefundQuotaUsage`), `Account`
(`AddTokenUsage`), for the sync, the streaming and the passthrough path; with it the clock, the scheduler,
`Crash` and `Restart` (which compensates), and the admin's resets, anchor edits, limit edits and deletion,
those of two statements as two actions; each of `Admins` is one request to the admin API, and `job` what it is in
the middle of. The time such a request takes is merged with its first statement. `charged`, `credited`, `owed5h`, `owedTotal`, `week` and `late` are
history variables: no guard reads them. Both counters implement CallMeter. How a request gets its slot is not
in this module: `SlotFree` guards its first step, as if the ledger knew how many requests are in flight.

**RequestPath** puts RequestLimit and QuotaLedger together for the requests of one user, without that guard.
A request acquires a slot (`Arrive`), does every step of the ledger while it holds the slot (`Hold`), and gives it
back when `ServeHTTP` has returned (`Release`, `MayRelease`), whether it passed the gate or stopped before it; the
rest of the ledger goes on beside it (`Elsewhere`), and a crash ends both sides at once (`Die`).

**TimeWindows** is `IsInRange`, `parseHHMM` and `windowMinutes`; an endpoint is the place of its text among
the times of the day, as `IsInRange` compares it, and the minute `parseHHMM` reads, if any: the two differ for "24:00",
which does not parse, and for texts such as "0;:00", which parse although they are no times. **RouteSelection** is what `ResolveProvider`, the pinned route,
both handlers and `RewriteModel` choose, as the *set* of results the map iterations allow, over every
snapshot and every minute. `ChatTarget` ends every error of the router at `LegacyProvider`, whose endpoint `main.go`
gives the legacy getter: the default provider of config.yaml, be it in the snapshot or not.

**ProviderCatalog** is the catalog tables, the handlers that edit them and the snapshot, statement by
statement: `DeleteProvider` is four checks and a DELETE, `Reload` three SELECTs and a `Store`.

**UserAccounts** is the `users` table and its handlers. `CreateUser` inserts the row with the empty key
(`NoKey`), looks at the token caps, then writes them and the key; `UpdateUser` applies the fields of its
body one after another and may be refused after some; the route is computed from the row read first, the
token-window caps from a row read just before. Of the single-column fields the model keeps the status and
whether a later one is refused; the counts and the concurrency cap are in the other modules. `alone` in
this module and in ProviderCatalog is a history variable: the handler at work has overlapped no other.

**MultiplierEngine** is `GetEffectiveMultiplier` and the resolution of a fixed multiplier, over the windows
of TimeWindows; RouteSelection holds its table next to the rules, and the run fills both with the same
windows, since neither decides anything for the other. Its result is the `Calls[r]` of QuotaLedger.

**SchemaUpgrade** is `RunMigrations`: `Statements` is the list of its ALTERs and fills in the order of the
code, `todo` the places a start has yet to run, and an action runs the one at hand. What the fills do is
kept for the log (`raw`), one quotas row (`used`, and which anchors hold a text) and, in GatewayStart, the
provider rows. A bill starts from `Product[c]`, a float64 of which the model keeps the whole part and whether
nothing, "dust" (less than a millionth) or more is left: `billedTokens` is Go's `math.Ceil` of it, `castTokens` what
the SQL of the migration makes of it, and the two differ on dust. `known`, `recomputed`, `forgiven` and `cut` are
history variables. **ProviderUsage** is the cycle of a
provider. **ProviderSeed** is `SeedFromConfig`, the first load of the router, and an edit with its reload
when some keys cannot be decrypted; one handler is at work at a time there, its write and its reload one step, because
ProviderCatalog is about their interleavings; the key that cannot be decrypted is in turn only in ProviderSeed. **GatewayStart** composes the three: `Boot`, the migrations, the seeding, the first load,
then calls, resets, gates and provider edits, and a crash anywhere. Days pass while the gateway is down or
serves; no start lasts over midnight. Users are not deleted there: that would take rows out of the log.

A row of an older build also changes what the gate does: in QuotaRow a `Stamp` may be written "bare", as
SQLite's `datetime('now')` writes it, which `time.Parse` refuses; `NewCycle` is what the code makes of it, and
`AnchorZone` says how the anchors of the row were first written.

The `MC*` modules only give the constants their values. The `*Proofs` modules hold the theorems.

PROJECT.json's `map` names for each definition the lines it translates. Definitions called "A mutant of X"
state a plausible bug of X; putting one in X's place makes the property it is listed with fail.

## The runs

| Run | Question | Bounds |
|---|---|---|
| `cap` | is the counter exact, the cap honoured and RequestLimit implemented for a user whose cap stays limited, while another one's goes to and from unlimited and he is deleted; does anybody lose a slot? | three requests of the first user (caps 1 and 2 accepted, -1 and 3 refused), two of the second (caps 0 and 1), crashes |
| `cap_flip` (fails) | is the cap honoured across a change from unlimited? | three requests of one user, caps 0 and 1 |
| `ledger_calls` | do the call counters stay within limits, agree with what is owed, and give back the failures each path refunds? | a sync call, a stream and a passthrough call worth 1, 2, 1, each with all six outcomes (not built, not reached, not readable, redirect, error status, success); limits 2 per window and 3 in total; one boundary; crashes; the three admin resets |
| `path` | do slots that are held from before the gate to the end bound the overage of a token bucket; does the weekly bucket hold the bills of its week and no others? | three requests, a cap of two, bills of 2; limits 3, 3, 2; token resets and edits of the anchor, two admin requests at once; crashes; a weekly and a monthly rollover; server zone one hour ahead of UTC |
| `ledger_restart` | does every window roll over, no gate clear the bucket of its own cycle, every request end? | a sync request and a stream, one in flight, five hours, windows of two; crashes; edits of the limits and the anchor; deletion |
| `ledger_migrated` (fails) | does a gate leave the weekly bucket of its own cycle alone when the anchor was written by the migration? | three requests one after the other, one week |
| `stream_refund` (fails) | is a streaming call given back when the provider cannot be reached? | three requests |
| `route_precedence` | does the documented precedence decide, which provider replaces one that has left the snapshot and on which path, is a mapping found; does a request cost what the largest open window says? | every pair of rules over every window of a three-minute day, two days, two priorities |
| `catalog` | can the snapshot always route; does a handler that overlaps no other do what it promises? | two handlers at once (any number one after the other), two providers, one rule, restarts |
| `accounts` | do keys stay with their user, replaced keys dead, ids unambiguous; do updates and extensions apply? | four admin requests, two at once; ids up to 3, three keys; one client; two days; crashes |
| `accounts_conflict` (fails) | is a 409 "username already exists" true? | the same |
| `start` | what has a finished start repaired; by how much does the recomputed counter differ from the bills of the log, does it stay cleared after a reset; are providers seeded once, published when readable, accounted by cycle? | databases of four builds, two calls (one with a product of 121 and dust), two providers, two encryption keys, two days, cycles of two days, any number of starts of which two lose a fill |

Why the bounds are enough. A race in this code is between two requests, or between a request and an admin
or the scheduler, on one row; three requests and two handlers leave room for a bystander whose state a race
could spoil. Limits are chosen so that not all requests fit and each bucket closes while one is in flight.
The clock crosses at least one boundary of every window the run is about (`WeekLen`, `MonthLen` = 100 keeps
the other windows out). Three minutes are the smallest day with overnight windows of different width, two
days the least for day masks, and two spellings the least for the case-insensitive scan. Three ids allow a
user to be deleted and another created while a handler still holds the old id. `MaxServed`, `MaxId`,
`MaxKeys`, `MaxDay`, `MaxExpiry` and `MaxClock` bound counters that grow for ever. The four builds of `start` are
the first one, two in the middle that lack what the fills need, and the present one; `MaxCuts` bounds how
many fills crashes prevent (a start may die any number of times elsewhere): two allow the fills of an anchor
and of the cycle computed from it to be lost together.

Deadlock is checked except where the system really stops: every request of the run is over and the clock
at its bound (`cap`, `path`, the ledger runs).

Fairness (`FairSpec` of QuotaLedger, for `ledger_restart` only). A handler that has begun goes on: statements
end and the HTTP clients have timeouts (300 s sync, 10 min streams and passthrough). The hour passes.
The scheduler's ticker runs every 30 seconds, so one of its ticks falls into minute 0 of a boundary hour
while the gateway runs: this is assumed (in the guard of `MinuteOver`), not shown; the runs show that one such tick
is enough. A gateway that crashed is restarted. Nobody has to send a request, and neither a
crash nor an admin action is fair.

## What is proved

TLAPS checks the theorems for every value of the constants: any number of users, requests, handlers,
providers and rules. From the assumptions at the head of each module, and:

* **ConcurrencyCap.** `NoSlotLeaked` is unconditional. Its invariant adds to the types that references
  match control (`PointersMatchPC`) and which of its two counters each stage of a user can hold
  (`CellHistory`). `CounterIsExact`, `CapIsHonoured` and the refinement `CountersImplementLimit` are about
  the steady users (`SteadyUsers`): those whose caps are all limited or all unlimited and who are not
  deleted, whatever happens to the others. `cap_flip` shows why it must be so.
  A crash keeps all of it, because counters and holders go together (`HoldersDie`).
  The argument: a limited request increments before it compares, so the last of those in flight under a cap
  of n or less saw a counter of at most n, and the counter is the number of holders.
* **QuotaLedger.** `LedgerNeverOverbills`, `LedgerTotalIsExact` and both refinements of CallMeter are
  unconditional. Every step does one of five things to the two counters (`CallsEffect`), and all theorems
  about calls follow from that lemma and from `CallsInv`: a request that owes was charged and not credited,
  and a counter is at most what is owed. `LedgerHonoursCallLimits` and `LedgerOverageBounded` assume that
  no limit is edited. For the tokens the invariant counts the bills still to come: used plus
  `MaxTokens` per unbilled request stays below the limit plus `MaxTokens` per slot, which the gate
  re-establishes because it lets a request in only below the limit. `LedgerNoStaleWindow` is unconditional
  and rests on one fact about the clock (`SameWindow`): an hour that is no boundary is in the window of the
  hour before, whether or not the window length divides the day. `LedgerKeptWithinCycle` assumes one anchor in
  UTC: then every cycle a request holds was counted from it (`OneAnchor`), and equal quotients give equal
  texts. `LedgerFailuresGivenBack` has no assumption: it is about all three paths and all six outcomes, and names in
  the property which failures come off the bill of a user that exists, and that a success is never refunded. The
  invariant follows a finished or refunding request back to its answer (`AnswersSorted`, `GivesBack`). What the
  comment of `RefundQuotaUsage` promises beyond it is not so; `stream_refund` shows one case.
  `LedgerWeeklyUsageKept` is unconditional: the history variable `week` counts the bills since the bucket last
  changed its cycle, and `kept` turns false at the one kind of step that spoils it, a statement that acts on a
  row read before the bucket moved on; every other step keeps bucket and history together (`WeekStep`).
* **RequestPath.** `SlotsBoundTheLedger`: as long as `max_concurrency` takes no value above `MaxInFlight`, and
  not 0 (`CapsBounded`; nothing is assumed when the ledger is unbounded), every behaviour of RequestPath is one of
  QuotaLedger. The guard of the ledger follows from `SlotsInv`: whoever is between gate and end holds a slot, and a
  request that holds one and has not passed the gate is one of at most `MaxInFlight` holders (`HolderIsFree`). All
  theorems about the ledger hold of the composition; `PathOverageBounded` and `PathWeeklyUsageKept` state two.
  The proofs are in QuotaLedgerProofs.
* **RouteSelection.** `WidthCountsMinutes`: for endpoints that parse, `windowMinutes` is the number of
  minutes the window covers. `PrecedenceIsTotal`: the order of the rules is irreflexive, transitive and
  total on rules with different ids, so that the sort has at most one result; `SortExists` shows that it has one: of a smallest
  set of rules that cannot be sorted, take the last rule away, sort the rest and append it. From there
  `PrecedenceDecides` and `ReplacementIsLegacy`: the first hit of the sorted scan outranks every other rule that
  hits, for any rules whose endpoints parse (`EndpointsParse`; under "24:00" the two orders differ, see below). The
  second says who serves exactly: chat the provider of that rule, or the config's default provider when it has
  left the snapshot; the passthrough path that of the rule or nobody.
  `HitsAreServed` is what holds for any endpoints: once a window is hit, the provider is that of a window that
  is hit, or none, never the default. `MappingsAreFound`: a mapping for the provider that serves is found
  however the name is spelt, whatever order the map is read in, with one exception that `MappingFound` states: a
  name that is not itself mapped for that provider, and is mapped under some other spelling for other providers
  only, may be passed on unchanged. It never becomes the real model of another provider. `LargestWindowDecides` holds for
  every table of windows: the recursion of the fold has a solution (`LoopExists`), and of the sets of rows for
  which it misses the largest open window there is no smallest (`LoopHoldsLargest`).
* **ProviderCatalog.** Types, `NoSecondDefault`, and `SnapshotDefaultServes` (every draft on its way to the
  snapshot already serves, `TablesServe`), for any interleaving. The three theorems about a handler that
  overlapped no other rest on `AloneInv`: while it is alone, everything it has checked or read is still so.
* **UserAccounts.** `KeysStayWithTheirUser`, `ActsOnTheUserRead` and `RevokedKeysStayDead`, for any
  interleaving. The inductive invariant `IInv` says that every id a handler or client holds is below
  `nextId`, that rows from `nextId` on do not exist, and that the row under an id that is held has the name
  that was read: AUTOINCREMENT never gives an id twice, and no handler changes a name. A step that only
  rewrites other columns of one row (`Kept`) therefore preserves it. A write never carries a key over from
  an earlier read, so a key in the table was there one step ago or is fresh. `UpdatesApplyAlone` and
  `ExtensionsAddAlone` rest on `AloneInv`: `Progress` says for every stage of an update what of its body is
  in the row already, and a step of a handler that is alone takes the row from one such form to the next.
* **GatewayStart.** `IInv` is a conjunction of one invariant per subject. `SeedingHappensOnce` from `SeedInv`:
  what the seeding has yet to insert is in config.yaml, and what it has inserted is there.
  `EditsArePublished` is inductive with the types. `UsageIsOfOneCycle` from `NoFutureCalls` and the arithmetic
  of quotients (`CyclesAreIntervals`). `ResetsAreNotUndone` from `UpgradeInv`: a fill of the billed totals is
  due only while one of its two columns is missing, and then the counter is not known yet; and `NeverBoth`: a
  call that is cleared is not also still to be billed. `StartRepairsLog` from `RawInv`: the statement that
  repairs the log is among those every start plans, so that the log is repaired when none is left.
  `StartsRepair` adds the totals and the anchors: `StatementsPlaced` gives each fill its place in the list right
  after the ALTER it belongs to, and `FillsInv` says of each column that it is missing, or its fill is still ahead
  in this start, or it is filled, or a crash has cut the fill; `week_start` is filled before the
  `week_cycle_start` that is computed from it. `CounterIsTheLog` says that the counter is the sum of the bills, less one token for each call that was recomputed in
  SQL with dust in its product. It is about sums over sets: that every finite set
  of calls has one sum, whatever order it is added up in (`SumExists`, `SumIsUnique`, `SumTakesAny`), is shown on
  a smallest set for which it fails, and then each step adds to the counter what it adds to the sum
  (`CountsStep`).

Every safety property of the passing runs is stated by one of these theorems. Only model-checked are the two
liveness properties, `WindowsRollOver` and `RequestsEnd`: fairness speaks of ENABLED, which the prover does not
reason about. Where a proof would naturally go by induction over sequences or finite sets, it takes the least
counterexample instead, because the induction theorems of the library cannot be instantiated.

## Where code and comments disagree

Shown by a run (`findings` in PROJECT.json): a change of the cap from unlimited spoils the counter
(`cap_flip`); an unreachable provider keeps the calls of a stream (`stream_refund`; a redirect of a sync call,
`handler.go:575`, and a request that cannot be built, `handler.go:503-507`, keep theirs too); a
weekly anchor the migration wrote makes every gate of another second begin a new week
(`ledger_migrated`); a 409 for a name that is free (`accounts_conflict`).

The chat path does fall back. `selector.go:5-9` says "The router NEVER falls back to provider A", `selector.go:199-205`
that a hit rule whose provider is not configured must be surfaced as an error, and `handler_nofallback_test.go` and
`selector_boundary_test.go:213-246` test for it. The router does return the error; but `handler.go:373-380` answers
every error of `ResolveProvider`, not only that of an empty table, with the legacy endpoint, which
`main.go:94-100,139-140` make the endpoint of the config's default provider, provider A. The tests call the router
alone, or a provider that is configured and unreachable. `route_precedence` shows it without a counterexample:
`ReplacedOnlyByLegacy` is an equation, and with the provider of the rule outside the snapshot it says that the
default provider serves.

`migrations.go:605-612` and the comment of `token_total_recalc_test.go` say that `CAST(x + 0.999999 AS INTEGER)` equals
the ceiling of every bill. It does not where x is less than a millionth above a whole number: 110 × 1.1 is
121.00000000000001, for which `math.Ceil` bills 122 and the migration 121. `CountsWhatWasLogged` counts these calls.

Noticed while modelling, present in the models, without a run of their own:

* `handler.go:61-63` says requests in flight still hold their counter after `ForgetConcurrency`; the release
  looks it up again. `handler.go:68-69` says a request is refused when it "would exceed max"; an attempt about to be
  rolled back counts too.
* `quota.go:103-104` speaks of an overage of one increment; it is one per concurrent request, which is what
  `TokenOverageBounded` states.
* An error answer of a sync call that reports usage is billed tokens (`handler.go:615`).
* `quota.go:220-222` denies a race between reading the anchor and the UPDATE and says that "a stale read simply
  self-heals on the next request". A gate that read in a week that has ended, and writes after one of the new
  week, clears the bucket of the new week, and the next gate clears it again: the bills in between are lost to
  the weekly limit. `WeeklyUsageKept` excludes the time from such a step to the next rollover. The same anchor submitted in another zone is another text (`quota.go:163-164`). The
  batch endpoint keeps the usage when the cycle stays the same (`users.go:829-830`).
* The older of two overlapping reloads may be stored last (`store.go`), and the router then serves an older
  table until the next edit: `AloneReloads` is therefore about a handler that is alone.
* The recompute of the billed totals (`migrations.go`) brings back tokens that an admin had cleared under an
  older build: the total of such a user becomes the sum of his life. `ResetsStay` is about what was cleared
  since. A crash between an ALTER and its UPDATE leaves the column empty for good, since `columnExists` then
  skips both: an empty `week_start` makes every gate clear the weekly bucket, an empty `cycle_start_date`
  makes the usage that of today. This is `cut` in SchemaUpgrade.
* One key that cannot be decrypted fails every reload: edits are answered with success and not published, and
  after a restart the table is empty (`FirstLoad`).
* `CreateUser` accepts any positive fixed multiplier, `UpdateUser` only 0.1 to 100.
* Deleting a user deletes his rows of the log (ON DELETE CASCADE), so the usage of a provider shrinks; a user
  who went back to automatic routing and kept a pinned provider is counted for two providers when a shared
  quota is attributed (`provider_usage.go`).
* A 429 may blame the weekly tokens of a cycle that has ended (`handler.go:444-446`).
* "24:00" is the end of the day for `IsInRange` but unparseable for `windowMinutes`, which then takes the
  window for a whole day (`selector.go:336`): `route_precedence` uses endpoints that parse to the minute they stand for, and
  `WidthCountsMinutes` assumes it.
* The scan of the mappings stops at a spelling that lacks the provider
  (`selector.go:299`), which is the exception of `MappingFound`; an empty real model counts as none.
* Making an unknown provider the default clears the old one (`store.go:254-257`); without a default the first
  key of a map iteration serves (`store.go:845`). Two overlapping handlers may delete a provider that has just
  been referenced, or both of the last two.
* `users.go:353-355` says a partial update of the token caps preserves the other one; two updates at once
  lose one, and the same goes for the route and for extensions, which are computed from what was read.
  `UpdateUser` may answer 400 after earlier fields were written.

## Not modelled

* Request compaction and body limits (pure functions of a body), header filtering, stream copying, building
  of upstream requests: no state. The outcome of the upstream call is an input of QuotaLedger.
* Sessions and login: a session is a row that one INSERT makes, one DELETE removes and each request looks up
  with its expiry; no two of these statements depend on each other.
* The thresholds of the low-balance view and the attribution of shared quotas: arithmetic on what
  `GetProviderUsage` returned, without state.
* The rows of `time_multipliers` and `model_mappings` that are seeded, and the edits of the former: single
  statements without a condition.
* Call logs, statistics, overview, settings, audit, the quota page, web panel, nginx: read-only or static.
* Encryption and hashing: a key stands for its hash, and fresh keys are assumed distinct.
* Which overlaps are in which module: any number of handlers overlap in ProviderCatalog and UserAccounts, two admin
  requests in `path`, one at a time in `ledger_calls` and `ledger_restart` (the theorems are for any number);
  `ForgetConcurrency` happens once per user, although two deletions of one user might both call it.
* What a handler answers when the row it just read about is gone: `GetQuota` returns nil and `UpdateUser` then ends
  in a 500 of the recovery middleware (`users.go:376-380`), as does the wording of a 429.
* Errors of the database itself: a statement is assumed to succeed, or to fail on a constraint.
* The drain at shutdown: a crash may follow any prefix of the requests' steps, so it is subsumed.

## Assumptions about the environment

One database connection, so statements and transactions are atomic and in one order. The server's zone is
`UtcOffset` hours ahead of UTC (Asia/Shanghai in production). Go's `sync.Map` and `atomic` are
sequentially consistent. The HTTP clients follow redirects and give up at their timeouts.

## What could follow

RequestPath is for a user whose cap is never 0 while the bound is to hold, and who is not deleted. For the others
`cap_flip` shows that the cap falls, and with it the bound on the overage of tokens; how far it falls, as a function
of the number of changes from unlimited, could be stated. RequestPath takes RequestLimit for the counters, which
`CountersImplementLimit` proves for every steady user; one specification of all users and their rows, with the
counters in it, would make that a single refinement.
