--------------------------- MODULE RouteSelection ---------------------------
(***************************************************************************)
(* Which upstream serves a request and what it costs (internal/router,     *)
(* internal/timeutil, internal/quota/multiplier.go and the parts of        *)
(* internal/proxy that call them).  The state is the router's snapshot,    *)
(* the multiplier windows and the wall clock of Asia/Shanghai; what a      *)
(* request gets is a pure function of them, except where Go iterates over  *)
(* a map: there the operators return the set of possible results.          *)
(***************************************************************************)
EXTENDS TimeWindows, Sequences, SequencesExt

CONSTANTS
  Weekdays,   \* number of days in a week
  Slugs,      \* provider slugs
  Passable,   \* the providers with allow_passthrough
  LegacyProvider,  \* the provider whose endpoint the legacy getter holds: the config's default
  RuleIds,    \* ids of the routing rules
  Endpoints,  \* the window endpoints an admin may type
  Priorities, \* the priorities an admin may set
  DayMasks,   \* the days_of_week an admin may set, as sets of weekdays
  Spellings,  \* model names; Fold[x] is x in lower case
  Fold,
  Catalogs,   \* the model mappings in play: [spelling -> [provider -> real model]]
  Fixed,      \* the fixed multipliers a user may have, in halves
  WindowTables(_)  \* WindowTables(f): the multiplier windows in play beside the rules f

None == "none"       \* no provider: ResolveProvider's or GetProviderBySlug's error
NoModel == ""        \* a mapping with an empty real model

Rules == [id : RuleIds, provider : Slugs, start : Endpoints, end : Endpoints,
          days : DayMasks, priority : Priorities, enabled : BOOLEAN]

VARIABLES
  rules,      \* rules[i]: routing rule i of the snapshot
  available,  \* the providers of the snapshot (the enabled ones)
  default,    \* the snapshot's Default, or None
  mappings,   \* the snapshot's model mappings
  windows,    \* the rows of time_multipliers, by id
  minute,     \* the time of day
  weekday     \* the day of the week

vars == <<rules, available, default, mappings, windows, minute, weekday>>

Engine == INSTANCE MultiplierEngine WITH table <- windows

ASSUME RouteAssumption ==
  /\ Weekdays \in Nat \ {0}
  /\ RuleIds \subseteq Nat /\ IsFiniteSet(RuleIds) /\ Priorities \subseteq Int
  /\ None \notin Slugs /\ Passable \subseteq Slugs /\ LegacyProvider \in Slugs
  /\ Endpoints \subseteq EndpointRecords
  /\ \A d \in DayMasks : d \subseteq 0..(Weekdays - 1)
  /\ Fixed \subseteq Nat \ {0}
  /\ \A f \in [RuleIds -> Rules] : WindowTables(f) \subseteq Seq(Engine!WindowRows)

-----------------------------------------------------------------------------
(* The provider of a window. *)

\* sortRoutingRules: priority DESC, narrower window first, id ASC.
Precedes(a, b) ==
  LET da == windowMinutes(a.start, a.end)
      db == windowMinutes(b.start, b.end)
  IN  IF a.priority # b.priority THEN a.priority > b.priority
      ELSE IF da # db THEN da < db ELSE a.id < b.id

sortRoutingRules ==
  CHOOSE s \in SetToSeqs({rules[i] : i \in RuleIds}) :
    \A i, j \in DOMAIN s : i < j => Precedes(s[i], s[j])

Hits(r) == r.enabled /\ IsInRange(r.start, r.end, minute) /\ weekday \in r.days

\* defaultProvider: the default of the snapshot; any provider if it has none.
defaultProvider ==
  IF available = {} THEN {None} ELSE IF default \in available THEN {default} ELSE available

\* A mutant of Chosen: a rule whose provider is unavailable falls to the default.
ChosenOrDefault(p) == IF p \in available THEN {p} ELSE defaultProvider

\* GetProviderBySlug, and the provider of a window that was hit: that one or none.
Chosen(p) == IF p \in available THEN {p} ELSE {None}

\* The first rule in order that is hit, never one further down.
ResolveProvider ==
  LET sorted == sortRoutingRules
      first == SelectInSeq(sorted, Hits)
  IN  IF first = 0 THEN defaultProvider ELSE Chosen(sorted[first].provider)

-----------------------------------------------------------------------------
(* The handlers.  A user's route is [mode, fixed], as auth put it in the      *)
(* context; fixed = None stands for the empty fixed_provider.                 *)

Routes == [mode : {"auto", "fixed"}, fixed : Slugs \cup {None}]

Pinned(u) == u.mode = "fixed" /\ u.fixed # None

\* Handler.ServeHTTP: when ResolveProvider fails, for whatever reason, the endpoint of
\* the legacy getter, be that provider in the snapshot or not.
ChatTarget(u) ==
  IF Pinned(u) THEN Chosen(u.fixed)
  ELSE {IF p = None THEN LegacyProvider ELSE p : p \in ResolveProvider}

\* PassthroughHandler.ServeHTTP: no legacy endpoint, and a per-provider gate.
PassthroughTarget(u) ==
  {IF p \in Passable THEN p ELSE None :
     p \in IF Pinned(u) THEN Chosen(u.fixed) ELSE ResolveProvider}

\* The mapping of name k has a real model for p.
Maps(k, p) == p \in DOMAIN mappings[k] /\ mappings[k][p] # NoModel

\* A mutant of RewriteModel: the case-insensitive scan is missing.
RewriteExactOnly(x, p) ==
  IF x \in DOMAIN mappings /\ Maps(x, p) THEN {mappings[x][p]} ELSE {x}

\* RewriteModel.  A map entry matched by its exact name but not for p goes on to
\* the case-insensitive scan; the scan stops at the first name that folds alike.
RewriteModel(x, p) ==
  LET alike == {k \in DOMAIN mappings : Fold[k] = Fold[x]}
      under(k) == IF Maps(k, p) THEN mappings[k][p] ELSE x
  IN  IF x \in alike /\ Maps(x, p) THEN {mappings[x][p]}
      ELSE IF alike = {} THEN {x} ELSE {under(k) : k \in alike}

-----------------------------------------------------------------------------
\* A mutant of DefaultOf: the default may be a provider the snapshot leaves out.
DefaultOfAnyRow(S) == Slugs

\* The Default of a snapshot is one of its providers, if it has any.
DefaultOf(S) == IF S = {} THEN {None} ELSE S

Init ==
  /\ rules \in {f \in [RuleIds -> Rules] : \A i \in RuleIds : f[i].id = i}
  /\ available \in SUBSET Slugs
  /\ default \in DefaultOf(available)
  /\ mappings \in Catalogs
  /\ windows \in WindowTables(rules)
  /\ minute = 0 /\ weekday = 0

\* The clock moves on.
NextMinute ==
  /\ minute' = (minute + 1) % Day
  /\ weekday' = IF minute' = 0 THEN (weekday + 1) % Weekdays ELSE weekday
  /\ UNCHANGED <<rules, available, default, mappings, windows>>

\* A new snapshot with other providers is published; the rules still name the old ones.
SwapProviders ==
  /\ available' \in SUBSET Slugs
  /\ default' \in DefaultOf(available')
  /\ UNCHANGED <<rules, mappings, windows, minute, weekday>>

Next == NextMinute \/ SwapProviders

Spec == Init /\ [][Next]_vars

-----------------------------------------------------------------------------
(* Properties. *)

\* Types; and the default is never a provider that has left the snapshot.
TypeOK ==
  /\ rules \in [RuleIds -> Rules]
  /\ available \subseteq Slugs
  /\ default \in available \cup {None}
  /\ windows \in Seq(Engine!WindowRows)
  /\ minute \in 0..(Day - 1) /\ weekday \in 0..(Weekdays - 1)

Minutes(r) == Cardinality(Covers(r.start, r.end))

Covering == {rules[i] : i \in {j \in RuleIds : Hits(rules[j])}}

\* The comment on ResolveProvider: of two rules in force, the one with the higher
\* priority, then the one that covers fewer minutes, then the older one.
Outranks(a, b) ==
  \/ a.priority > b.priority
  \/ a.priority = b.priority /\ Minutes(a) < Minutes(b)
  \/ a.priority = b.priority /\ Minutes(a) = Minutes(b) /\ a.id < b.id

InForce == {r \in Covering : \A q \in Covering \ {r} : Outranks(r, q)}

\* The precedence of ResolveProvider's comment decides every request: the
\* provider is that of the rule in force, or none at all; the default serves only
\* while no window is hit.
PrecedenceHonoured ==
  IF Covering = {} THEN ResolveProvider = defaultProvider
  ELSE \E r \in InForce : ResolveProvider \subseteq {r.provider, None}

\* A pinned provider is never replaced by another one, on either path, and the
\* provider of the window in force never on the passthrough path, whichever
\* providers have left the snapshot.  On the chat path it serves while it is in the
\* snapshot; when it has left, the request goes to the config's default provider
\* (which the header of selector.go says never happens), and to no third one.
ReplacedOnlyByLegacy ==
  \A u \in Routes :
    IF Pinned(u)
    THEN ChatTarget(u) \cup PassthroughTarget(u) \subseteq {u.fixed, None}
    ELSE \A r \in InForce :
           /\ ChatTarget(u) = {IF r.provider \in available THEN r.provider ELSE LegacyProvider}
           /\ PassthroughTarget(u) \subseteq {r.provider, None}

\* A mapping for the provider that serves is found however the client spells the
\* name: spelt as in the catalog, or spelt otherwise as long as no other spelling
\* of the name is mapped for other providers only.  In that case the name may stay
\* as it was, but is never rewritten to the real model of another provider.
MappingFound ==
  \A x \in Spellings, p \in available :
    LET alike == {k \in DOMAIN mappings : Fold[k] = Fold[x]}
        forP  == {k \in alike : Maps(k, p)}
        found == {mappings[k][p] : k \in forP}
    IN  RewriteModel(x, p) \subseteq
          IF x \in forP \/ (forP = alike /\ alike # {}) THEN found ELSE found \cup {x}

\* GetEffectiveMultiplier: a request costs the largest multiplier of the windows that
\* are open, rounded up.
CostsTheLargest == Engine!CostsTheLargest
=============================================================================
