-------------------------- MODULE ProviderCatalog --------------------------
(***************************************************************************)
(* The provider catalog (internal/provider/store.go), the admin handlers   *)
(* that edit it (internal/admin: providers, routing, mappings) and the     *)
(* router's in-memory snapshot of it (internal/router/selector.go).        *)
(*                                                                         *)
(* Every handler writes to the database and then calls Router.Reload,      *)
(* which reads providers, mappings and rules with three statements and     *)
(* stores the table it built.  Nothing serialises two handlers; a          *)
(* transaction or a statement is atomic.  Of a provider the model keeps    *)
(* whether it is enabled and whether it is the default, of a rule the      *)
(* provider it names, of a mapping the provider it is for.                 *)
(***************************************************************************)
EXTENDS Naturals, FiniteSets

CONSTANTS
  Slugs,    \* provider slugs
  RuleIds,  \* ids of routing rules
  Admins,   \* the admin requests that may be handled at once
  Seed,     \* the providers of config.yaml
  Ops,      \* the operations in play
  NoSlug    \* no provider

AllOps == {"createProvider", "updateProvider", "updateUnknown", "deleteProvider",
           "mappings", "rules", "pin"}

ASSUME CatalogAssumption ==
  /\ IsFiniteSet(Slugs) /\ NoSlug \notin Slugs
  /\ Seed \subseteq Slugs /\ Seed # {}
  /\ Ops \subseteq AllOps

VARIABLES
  status,    \* status[s]: the row of provider s is "absent", "on" (enabled) or "off"
  defaults,  \* the rows with is_default = 1
  mapped,    \* the providers some model mapping is for
  rules,     \* rules[i]: the provider rule i names, or NoSlug: no such rule
  pin,       \* the fixed_provider of a user, or NoSlug
  table,     \* the router's snapshot
  pc,        \* pc[a]: the next statement of admin handler a
  slug,      \* slug[a]: the provider handler a is about
  draft      \* draft[a]: the table handler a is building

(* A history variable, for the properties only: the handler at work, if any, has *)
(* been the only one since it began.                                             *)
VARIABLE alone

catalog == <<status, defaults, mapped, rules, pin>>
vars == <<catalog, table, pc, slug, draft, alone>>

Rows == {s \in Slugs : status[s] # "absent"}
Enabled == {s \in Slugs : status[s] = "on"}

\* A mutant of Cleared: the old default is not cleared.
NotCleared(becomes) == defaults

\* UPDATE providers SET is_default = 0, in the transaction that sets a new one.
Cleared(becomes) == IF becomes THEN {} ELSE defaults

-----------------------------------------------------------------------------
(* BuildProviderTable. *)

EmptyTable == [providers |-> {}, default |-> NoSlug, mapped |-> {},
               rules |-> [i \in RuleIds |-> NoSlug]]

\* A mutant of DefaultChoices: a disabled default counts.
DefaultOfAnyRow ==
  IF defaults # {} THEN defaults ELSE IF Enabled # {} THEN Enabled ELSE {NoSlug}

\* Default: a default row among the enabled ones (the last one scanned); failing
\* that, whichever provider the map iteration yields first.
DefaultChoices ==
  IF defaults \cap Enabled # {} THEN defaults \cap Enabled
  ELSE IF Enabled # {} THEN Enabled ELSE {NoSlug}

\* What a reload that nothing interferes with may build.
Tables == {[providers |-> Enabled, default |-> d, mapped |-> mapped, rules |-> rules] :
             d \in DefaultChoices}

Init ==
  /\ status = [s \in Slugs |-> IF s \in Seed THEN "on" ELSE "absent"]
  /\ defaults \in SUBSET Seed
  /\ mapped \in SUBSET Seed
  /\ rules = [i \in RuleIds |-> NoSlug]
  /\ pin = NoSlug
  /\ table \in Tables
  /\ pc = [a \in Admins |-> "idle"]
  /\ slug = [a \in Admins |-> NoSlug]
  /\ draft = [a \in Admins |-> EmptyTable]
  /\ alone = TRUE

\* Handler a begins with a request of the kind op.
Begins(a, op) ==
  /\ pc[a] = "idle" /\ op \in Ops
  /\ alone' = (\A b \in Admins : pc[b] = "idle")

Goto(a, l) == pc' = [pc EXCEPT ![a] = l]

\* The handler has answered; its locals are gone.
Finish(a) ==
  /\ pc' = [pc EXCEPT ![a] = "idle"]
  /\ slug' = [slug EXCEPT ![a] = NoSlug]
  /\ draft' = [draft EXCEPT ![a] = EmptyTable]

\* One of the checks: it refuses the request, or the handler goes on at l.
Check(a, refuses, l) ==
  /\ IF refuses THEN Finish(a) ELSE Goto(a, l) /\ UNCHANGED <<slug, draft>>
  /\ UNCHANGED <<catalog, table, alone>>

-----------------------------------------------------------------------------
(* HandleCreateProvider, HandleUpdateProvider. *)

\* CreateProvider: one transaction; a slug that is taken violates UNIQUE.
CreateProvider(a, s) ==
  /\ Begins(a, "createProvider")
  /\ status[s] = "absent"
  /\ status' = [status EXCEPT ![s] = "on"]
  /\ \E d \in BOOLEAN : defaults' = Cleared(d) \cup (IF d THEN {s} ELSE {})
  /\ Goto(a, "providers")
  /\ UNCHANGED <<mapped, rules, pin, table, slug, draft>>

\* UpdateProvider, for a row that exists: is_default and enabled are optional.
UpdateProvider(a, s) ==
  /\ Begins(a, "updateProvider")
  /\ status[s] # "absent"
  /\ \/ UNCHANGED defaults
     \/ defaults' = Cleared(TRUE) \cup {s}
     \/ defaults' = Cleared(FALSE) \ {s}
  /\ \E v \in {"on", "off"} : status' = [status EXCEPT ![s] = v]
  /\ slug' = [slug EXCEPT ![a] = s]
  /\ Goto(a, "reread")
  /\ UNCHANGED <<mapped, rules, pin, table, draft>>

\* UpdateProvider, for a slug that is not there: the UPDATE of the row changes
\* nothing, but the old default has been cleared.
UpdateUnknown(a, s) ==
  /\ Begins(a, "updateUnknown")
  /\ status[s] = "absent"
  /\ \E d \in BOOLEAN : defaults' = Cleared(d)
  /\ slug' = [slug EXCEPT ![a] = s]
  /\ Goto(a, "reread")
  /\ UNCHANGED <<status, mapped, rules, pin, table, draft>>

\* UpdateProvider returns GetProvider: no row, a 404 and no reload.
Reread(a) ==
  /\ pc[a] = "reread"
  /\ Goto(a, IF status[slug[a]] = "absent" THEN "idle" ELSE "providers")
  /\ slug' = [slug EXCEPT ![a] = NoSlug]
  /\ UNCHANGED <<catalog, table, draft, alone>>

-----------------------------------------------------------------------------
(* HandleDeleteProvider: four checks, one statement each, then the DELETE. *)

RuleNames(s) == \E i \in RuleIds : rules[i] = s

\* A mutant of PinnedTo: the users are not asked.
PinnedToNobody(s) == FALSE

\* GetUsersByFixedProvider finds someone.
PinnedTo(s) == pin = s

CheckRules(a, s) ==
  /\ Begins(a, "deleteProvider")
  /\ ~RuleNames(s)
  /\ slug' = [slug EXCEPT ![a] = s]
  /\ Goto(a, "checkMappings")
  /\ UNCHANGED <<catalog, table, draft>>

CheckMappings(a) == pc[a] = "checkMappings" /\ Check(a, slug[a] \in mapped, "checkPins")

CheckPins(a) == pc[a] = "checkPins" /\ Check(a, PinnedTo(slug[a]), "checkLast")

\* A mutant of IsLast: the provider being deleted is not counted.
IsLastOffByOne == Cardinality(Rows) < 1

IsLast == Cardinality(Rows) <= 1

CheckLast(a) == pc[a] = "checkLast" /\ Check(a, IsLast, "delete")

\* DELETE FROM providers; its mappings go with it (ON DELETE CASCADE).
DeleteProvider(a) ==
  /\ pc[a] = "delete"
  /\ status' = [status EXCEPT ![slug[a]] = "absent"]
  /\ defaults' = defaults \ {slug[a]}
  /\ mapped' = mapped \ {slug[a]}
  /\ slug' = [slug EXCEPT ![a] = NoSlug]
  /\ Goto(a, "providers")
  /\ UNCHANGED <<rules, pin, table, draft, alone>>

-----------------------------------------------------------------------------
(* Mappings, rules, and the fixed_provider of a user. *)

\* A mutant of Mappable: no foreign key.
AlwaysMappable == Slugs

\* model_mappings.provider_id references providers.slug.
Mappable == Rows

\* CreateMapping, which a foreign key may refuse (409, no reload), and DeleteMapping,
\* which reloads whether or not there was such a mapping.
EditMappings(a, s) ==
  /\ Begins(a, "mappings")
  /\ (s \in Mappable /\ mapped' = mapped \cup {s}) \/ mapped' = mapped \ {s}
  /\ Goto(a, "providers")
  /\ UNCHANGED <<status, defaults, rules, pin, table, slug, draft>>

\* A mutant of AfterRuleEdit: a rule edit builds a table from the rules only.
AfterRuleEditRulesOnly == "rules"

\* Every routing handler ends with Router.Reload.
AfterRuleEdit == "providers"

\* CreateRoutingRule, UpdateRoutingRule, DeleteRoutingRule: nothing is checked.
EditRules(a, i) ==
  /\ Begins(a, "rules")
  /\ \E s \in Slugs \cup {NoSlug} : rules' = [rules EXCEPT ![i] = s]
  /\ Goto(a, AfterRuleEdit)
  /\ UNCHANGED <<status, defaults, mapped, pin, table, slug, draft>>

\* UpdateUserRoute: any fixed_provider is taken; the router has no part in it.
PinUser(a) ==
  /\ Begins(a, "pin")
  /\ pin' \in Slugs \cup {NoSlug}
  /\ UNCHANGED <<status, defaults, mapped, rules, table, pc, slug, draft>>

-----------------------------------------------------------------------------
(* Router.Reload: the three SELECTs of BuildProviderTable, then table.Store. *)

ReadProviders(a) ==
  /\ pc[a] = "providers"
  /\ \E d \in DefaultChoices :
       draft' = [draft EXCEPT ![a] = [EmptyTable EXCEPT !.providers = Enabled, !.default = d]]
  /\ Goto(a, "mappings")
  /\ UNCHANGED <<catalog, table, slug, alone>>

ReadMappings(a) ==
  /\ pc[a] = "mappings"
  /\ draft' = [draft EXCEPT ![a].mapped = mapped]
  /\ Goto(a, "rules")
  /\ UNCHANGED <<catalog, table, slug, alone>>

ReadRules(a) ==
  /\ pc[a] = "rules"
  /\ draft' = [draft EXCEPT ![a].rules = rules]
  /\ Goto(a, "store")
  /\ UNCHANGED <<catalog, table, slug, alone>>

Store(a) ==
  /\ pc[a] = "store"
  /\ table' = draft[a]
  /\ Finish(a)
  /\ UNCHANGED <<catalog, alone>>

\* The process dies and is restarted: NewRouter loads the table before the server
\* listens.
Restart ==
  /\ table' \in Tables
  /\ pc' = [a \in Admins |-> "idle"]
  /\ slug' = [a \in Admins |-> NoSlug]
  /\ draft' = [a \in Admins |-> EmptyTable]
  /\ UNCHANGED <<catalog, alone>>

-----------------------------------------------------------------------------
Edit(a) ==
  \/ \E s \in Slugs : CreateProvider(a, s) \/ UpdateProvider(a, s) \/ UpdateUnknown(a, s)
                      \/ CheckRules(a, s) \/ EditMappings(a, s)
  \/ \E i \in RuleIds : EditRules(a, i)
  \/ PinUser(a)

Continue(a) ==
  \/ Reread(a) \/ CheckMappings(a) \/ CheckPins(a) \/ CheckLast(a) \/ DeleteProvider(a)
  \/ ReadProviders(a) \/ ReadMappings(a) \/ ReadRules(a) \/ Store(a)

Next == (\E a \in Admins : Edit(a) \/ Continue(a)) \/ Restart

Spec == Init /\ [][Next]_vars

-----------------------------------------------------------------------------
(* Properties. *)

PCs == {"idle", "reread", "checkMappings", "checkPins", "checkLast", "delete",
        "providers", "mappings", "rules", "store"}

TableType == [providers : SUBSET Slugs, default : Slugs \cup {NoSlug},
              mapped : SUBSET Slugs, rules : [RuleIds -> Slugs \cup {NoSlug}]]

\* Types; and only rows that exist are defaults or have mappings.
TypeOK ==
  /\ status \in [Slugs -> {"absent", "on", "off"}]
  /\ defaults \subseteq Rows /\ mapped \subseteq Rows
  /\ rules \in [RuleIds -> Slugs \cup {NoSlug}]
  /\ pin \in Slugs \cup {NoSlug}
  /\ table \in TableType
  /\ pc \in [Admins -> PCs]
  /\ slug \in [Admins -> Slugs \cup {NoSlug}]
  /\ draft \in [Admins -> TableType]
  /\ alone \in BOOLEAN

\* The snapshot can always route: its default is one of its providers, unless it
\* has none, whatever handlers interleave between the reads.
Serves(t) == IF t.providers = {} THEN t.default = NoSlug ELSE t.default \in t.providers
DefaultServes == Serves(table)

\* No handler adds a second default: config.yaml may mark several, the panel none.
AddsNoSecondDefault ==
  [][Cardinality(defaults') <= 1 \/ defaults' \subseteq defaults]_vars

\* The comment on Router.Reload: it is "called after every Admin CRUD operation to
\* ensure routing picks up changes immediately".  A handler that is alone from its
\* first statement to the last publishes what the database then holds, whatever
\* stale snapshot earlier handlers left behind.  Two reloads that overlap may store
\* their tables in the opposite order of their reads; the older one then stays.
AloneReloads ==
  [][\A a \in Admins : alone /\ pc[a] = "store" /\ pc'[a] = "idle" => table' \in Tables]_vars

\* The comment on DeleteProvider: a provider "referenced by routing rules, model
\* mappings, or user fixed_provider settings" is not deleted, by a handler alone.
AloneDeletesUnreferenced ==
  [][alone => \A s \in Rows : status'[s] = "absent" =>
                s \notin mapped /\ pin # s /\ ~RuleNames(s)]_vars

\* The comment in DeleteProvider: "check if it's the last provider - refuse if
\* it's the only one"; a handler alone keeps it.
AloneKeepsLast == [][alone /\ Rows # {} => Rows' # {}]_vars
=============================================================================
