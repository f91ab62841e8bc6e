----------------------- MODULE ProviderCatalogProofs -----------------------
(***************************************************************************)
(* What the catalog and the router's snapshot of it keep.  For any number  *)
(* of concurrent handlers: the types, a single default once there is one,  *)
(* and a snapshot that can serve its default.  For a handler that has been *)
(* alone since it began, whatever others did before: it publishes what the *)
(* database holds, and deletes neither the last provider nor one that is   *)
(* referred to.                                                            *)
(***************************************************************************)
EXTENDS ProviderCatalog, FiniteSetTheorems, TLAPS

USE DEF Rows, Enabled

LEMMA TablesAreTyped ==
  ASSUME TypeOK
  PROVE  /\ DefaultChoices \subseteq Slugs \cup {NoSlug}
         /\ Tables \subseteq TableType
         /\ EmptyTable \in TableType
<1>1. DefaultChoices \subseteq Slugs \cup {NoSlug}
  BY DEF TypeOK, DefaultChoices
<1>2. Enabled \in SUBSET Slugs /\ mapped \in SUBSET Slugs
      /\ rules \in [RuleIds -> Slugs \cup {NoSlug}]
  BY DEF TypeOK
<1>3. Tables \subseteq TableType
  BY <1>1, <1>2 DEF Tables, TableType
<1>4. EmptyTable \in TableType
  BY DEF EmptyTable, TableType
<1> QED
  BY <1>1, <1>3, <1>4

LEMMA InitTypes == Init => TypeOK
<1> SUFFICES ASSUME Init PROVE TypeOK
  OBVIOUS
<1>1. /\ status \in [Slugs -> {"absent", "on", "off"}]
      /\ Seed \subseteq Rows
  BY CatalogAssumption DEF Init
<1>2. defaults \subseteq Rows /\ mapped \subseteq Rows
  BY <1>1 DEF Init
<1>3. /\ rules \in [RuleIds -> Slugs \cup {NoSlug}]
      /\ pin \in Slugs \cup {NoSlug}
      /\ slug \in [Admins -> Slugs \cup {NoSlug}]
  BY DEF Init
<1>4. pc \in [Admins -> PCs]
  BY DEF Init, PCs
<1>5. draft \in [Admins -> TableType]
  BY DEF Init, EmptyTable, TableType
<1>6. table \in TableType
  <2>1. DefaultChoices \subseteq Slugs \cup {NoSlug}
    BY <1>2 DEF DefaultChoices
  <2> QED
    BY <1>1, <1>2, <1>3, <2>1 DEF Init, Tables, TableType
<1> QED
  BY <1>1, <1>2, <1>3, <1>4, <1>5, <1>6 DEF Init, TypeOK

LEMMA TypesStep == TypeOK /\ [Next]_vars => TypeOK'
<1> SUFFICES ASSUME TypeOK, [Next]_vars PROVE TypeOK'
  OBVIOUS
<1>0. /\ EmptyTable \in TableType /\ Tables \subseteq TableType
      /\ DefaultChoices \subseteq Slugs \cup {NoSlug}
  BY TablesAreTyped
<1>1. ASSUME NEW a \in Admins, Edit(a) PROVE TypeOK'
  <2>1. ASSUME NEW s \in Slugs, CreateProvider(a, s) PROVE TypeOK'
    BY <2>1 DEF CreateProvider, TypeOK, Begins, Goto, PCs, Cleared
  <2>2. ASSUME NEW s \in Slugs, UpdateProvider(a, s) PROVE TypeOK'
    BY <2>2 DEF UpdateProvider, TypeOK, Begins, Goto, PCs, Cleared
  <2>3. ASSUME NEW s \in Slugs, UpdateUnknown(a, s) PROVE TypeOK'
    BY <2>3 DEF UpdateUnknown, TypeOK, Begins, Goto, PCs, Cleared
  <2>4. ASSUME NEW s \in Slugs, CheckRules(a, s) PROVE TypeOK'
    BY <2>4 DEF CheckRules, catalog, TypeOK, Begins, Goto, PCs
  <2>5. ASSUME NEW s \in Slugs, EditMappings(a, s) PROVE TypeOK'
    BY <2>5 DEF EditMappings, Mappable, TypeOK, Begins, Goto, PCs
  <2>6. ASSUME NEW i \in RuleIds, EditRules(a, i) PROVE TypeOK'
    BY <2>6 DEF EditRules, AfterRuleEdit, TypeOK, Begins, Goto, PCs
  <2>7. CASE PinUser(a)
    BY <2>7 DEF PinUser, TypeOK, Begins
  <2> QED
    BY <1>1, <2>1, <2>2, <2>3, <2>4, <2>5, <2>6, <2>7 DEF Edit
<1>2. ASSUME NEW a \in Admins, Continue(a) PROVE TypeOK'
  <2>1. ASSUME NEW refuses, NEW l \in PCs, Check(a, refuses, l) PROVE TypeOK'
    BY <1>0, <2>1 DEF Check, Finish, Goto, catalog, TypeOK, PCs
  <2>2. CASE Reread(a)
    BY <1>0, <2>2 DEF Reread, Goto, catalog, TypeOK, PCs
  <2>3. CASE CheckMappings(a)
    BY <2>1, <2>3 DEF CheckMappings, PCs
  <2>4. CASE CheckPins(a)
    BY <2>1, <2>4 DEF CheckPins, PCs
  <2>5. CASE CheckLast(a)
    BY <2>1, <2>5 DEF CheckLast, PCs
  <2>6. CASE DeleteProvider(a)
    BY <2>6 DEF DeleteProvider, Goto, TypeOK, PCs
  <2>7. CASE ReadProviders(a)
    <3>1. PICK d \in DefaultChoices :
            draft' = [draft EXCEPT ![a] = [EmptyTable EXCEPT !.providers = Enabled, !.default = d]]
      BY <2>7 DEF ReadProviders
    <3>2. [EmptyTable EXCEPT !.providers = Enabled, !.default = d] \in TableType
      BY <1>0 DEF EmptyTable, TableType
    <3> QED
      BY <2>7, <3>1, <3>2 DEF ReadProviders, Goto, catalog, TypeOK, PCs
  <2>8. CASE ReadMappings(a)
    BY <2>8 DEF ReadMappings, Goto, catalog, TypeOK, PCs, TableType
  <2>9. CASE ReadRules(a)
    BY <2>9 DEF ReadRules, Goto, catalog, TypeOK, PCs, TableType
  <2>10. CASE Store(a)
    BY <1>0, <2>10 DEF Store, Finish, catalog, TypeOK, PCs
  <2> QED
    BY <1>2, <2>2, <2>3, <2>4, <2>5, <2>6, <2>7, <2>8, <2>9, <2>10 DEF Continue
<1>3. CASE Restart
  BY <1>0, <1>3 DEF Restart, catalog, TypeOK, PCs
<1>4. CASE UNCHANGED vars
  BY <1>4 DEF vars, catalog, TypeOK
<1> QED
  BY <1>1, <1>2, <1>3, <1>4 DEF Next

\* The catalog and the snapshot stay well formed under any interleaving of handlers.
THEOREM CatalogTypes == Spec => []TypeOK
<1> QED
  BY InitTypes, TypesStep, PTL DEF Spec

-----------------------------------------------------------------------------
(* Any number of handlers: defaults. *)

\* No step adds a second default row: an edit that sets one clears the others in
\* the same transaction.
THEOREM NoSecondDefault == Spec => AddsNoSecondDefault
<1> DEFINE OneOrFewer == Cardinality(defaults') <= 1 \/ defaults' \subseteq defaults
<1>1. ASSUME [Next]_vars PROVE OneOrFewer
  <2>1. \A s : Cardinality({s}) = 1
    BY FS_Singleton
  <2>2. ASSUME NEW a \in Admins, NEW s \in Slugs, CreateProvider(a, s) PROVE OneOrFewer
    <3>1. defaults' = {s} \/ defaults' = defaults
      BY <2>2 DEF CreateProvider, Cleared
    <3>2. Cardinality({s}) = 1
      BY <2>1
    <3> QED
      BY <3>1, <3>2
  <2>3. ASSUME NEW a \in Admins, NEW s \in Slugs, UpdateProvider(a, s) PROVE OneOrFewer
    <3>1. defaults' = {s} \/ defaults' \subseteq defaults
      BY <2>3 DEF UpdateProvider, Cleared
    <3>2. Cardinality({s}) = 1
      BY <2>1
    <3> QED
      BY <3>1, <3>2
  <2>4. ASSUME NEW a \in Admins, NEW s \in Slugs, UpdateUnknown(a, s) PROVE OneOrFewer
    BY <2>4 DEF UpdateUnknown, Cleared
  <2>5. ASSUME NEW a \in Admins, Edit(a) PROVE OneOrFewer
    BY <2>2, <2>3, <2>4, <2>5
       DEF Edit, CheckRules, EditMappings, EditRules, PinUser, catalog
  <2>6. ASSUME NEW a \in Admins, Continue(a) PROVE OneOrFewer
    BY <2>6 DEF Continue, Reread, CheckMappings, CheckPins, CheckLast, Check, DeleteProvider,
                ReadProviders, ReadMappings, ReadRules, Store, catalog
  <2>7. CASE Restart \/ UNCHANGED vars
    BY <2>7 DEF Restart, vars, catalog
  <2> QED
    BY <1>1, <2>5, <2>6, <2>7 DEF Next
<1> QED
  BY <1>1, PTL DEF Spec, AddsNoSecondDefault

\* Every table that is stored, or on its way to be, has a default it can serve.
TablesServe ==
  /\ Serves(table)
  /\ \A a \in Admins : pc[a] \in {"mappings", "rules", "store"} => Serves(draft[a])

LEMMA ChoicesServe ==
  ASSUME TypeOK, NEW t, t.providers = Enabled, t.default \in DefaultChoices
  PROVE  Serves(t)
BY DEF Serves, DefaultChoices, TypeOK

LEMMA TablesChoose ==
  ASSUME NEW t \in Tables
  PROVE  t.providers = Enabled /\ t.default \in DefaultChoices
BY DEF Tables

LEMMA ServeStep == TypeOK /\ TablesServe /\ [Next]_vars => TablesServe'
<1> SUFFICES ASSUME TypeOK, TablesServe, [Next]_vars PROVE TablesServe'
  OBVIOUS
<1> USE DEF TablesServe, TypeOK
<1>1. ASSUME NEW a \in Admins, Edit(a) PROVE TablesServe'
  <2>1. /\ table' = table /\ draft' = draft
        /\ \A b \in Admins : pc'[b] \in {"mappings", "rules", "store"} => pc'[b] = pc[b]
    BY <1>1 DEF Edit, CreateProvider, UpdateProvider, UpdateUnknown, CheckRules, EditMappings,
                EditRules, AfterRuleEdit, PinUser, catalog, Begins, Goto
  <2> QED
    BY <2>1 DEF Serves
<1>2. ASSUME NEW a \in Admins, Continue(a) PROVE TablesServe'
  <2>1. CASE Reread(a) \/ CheckMappings(a) \/ CheckPins(a) \/ CheckLast(a) \/ DeleteProvider(a)
    <3>1. table' = table /\ pc'[a] \notin {"mappings", "rules", "store"}
      BY <2>1 DEF Reread, CheckMappings, CheckPins, CheckLast, Check, Finish, Goto, DeleteProvider
    <3>2. \A b \in Admins \ {a} : pc'[b] = pc[b] /\ draft'[b] = draft[b]
      BY <2>1 DEF Reread, CheckMappings, CheckPins, CheckLast, Check, Finish, Goto, DeleteProvider
    <3> QED
      BY <3>1, <3>2 DEF Serves
  <2>2. CASE ReadProviders(a)
    <3>1. PICK d \in DefaultChoices :
            draft' = [draft EXCEPT ![a] = [EmptyTable EXCEPT !.providers = Enabled, !.default = d]]
      BY <2>2 DEF ReadProviders
    <3>2. draft'[a].providers = Enabled /\ draft'[a].default = d
      BY <3>1 DEF EmptyTable
    <3>3. Serves(draft'[a])
      BY <3>2, ChoicesServe
    <3> QED
      BY <2>2, <3>1, <3>3 DEF ReadProviders, Goto, Serves
  <2>3. CASE ReadMappings(a) \/ ReadRules(a)
    <3>1. /\ Serves(draft[a]) /\ table' = table
          /\ draft'[a].providers = draft[a].providers /\ draft'[a].default = draft[a].default
      BY <2>3 DEF ReadMappings, ReadRules, TableType
    <3>2. \A b \in Admins \ {a} : pc'[b] = pc[b] /\ draft'[b] = draft[b]
      BY <2>3 DEF ReadMappings, ReadRules, Goto
    <3> QED
      BY <3>1, <3>2 DEF Serves
  <2>4. CASE Store(a)
    <3>1. Serves(draft[a]) /\ table' = draft[a] /\ pc'[a] = "idle"
      BY <2>4 DEF Store, Finish
    <3>2. \A b \in Admins \ {a} : pc'[b] = pc[b] /\ draft'[b] = draft[b]
      BY <2>4 DEF Store, Finish
    <3> QED
      BY <3>1, <3>2 DEF Serves
  <2> QED
    BY <1>2, <2>1, <2>2, <2>3, <2>4 DEF Continue
<1>3. CASE Restart
  <2>1. Serves(table')
    BY <1>3, TablesChoose, ChoicesServe DEF Restart
  <2> QED
    BY <1>3, <2>1 DEF Restart, Serves
<1>4. CASE UNCHANGED vars
  BY <1>4 DEF vars, Serves
<1> QED
  BY <1>1, <1>2, <1>3, <1>4 DEF Next

\* Under any interleaving of handlers, crashes included, the snapshot's default is
\* one of its own providers.
THEOREM SnapshotDefaultServes == Spec => []DefaultServes
<1>1. Init => TablesServe
  <2> SUFFICES ASSUME Init PROVE TablesServe
    OBVIOUS
  <2>1. Serves(table)
    BY InitTypes, TablesChoose, ChoicesServe DEF Init
  <2> QED
    BY <2>1 DEF Init, TablesServe
<1>2. TablesServe => DefaultServes
  BY DEF TablesServe, DefaultServes
<1> QED
  BY <1>1, <1>2, CatalogTypes, ServeStep, PTL DEF Spec

-----------------------------------------------------------------------------
(* A handler that has been alone since it began. *)

\* What the checks of DeleteProvider have found is still so.
CheckedSoFar ==
  \A a \in Admins :
    /\ pc[a] \in {"checkMappings", "checkPins", "checkLast", "delete"} =>
         slug[a] \in Slugs /\ ~RuleNames(slug[a])
    /\ pc[a] \in {"checkPins", "checkLast", "delete"} => slug[a] \notin mapped
    /\ pc[a] \in {"checkLast", "delete"} => ~PinnedTo(slug[a])
    /\ pc[a] = "delete" => ~IsLast

\* What Reload has read is still so.
ReadSoFar ==
  \A a \in Admins :
    /\ pc[a] \in {"mappings", "rules", "store"} =>
         draft[a].providers = Enabled /\ draft[a].default \in DefaultChoices
    /\ pc[a] \in {"rules", "store"} => draft[a].mapped = mapped
    /\ pc[a] = "store" => draft[a].rules = rules

OneAtWork == \A a, b \in Admins : pc[a] # "idle" /\ pc[b] # "idle" => a = b

AloneInv == TypeOK /\ (alone => OneAtWork /\ CheckedSoFar /\ ReadSoFar)

LEMMA IsATable ==
  ASSUME NEW t \in TableType,
         t.providers = Enabled, t.default \in DefaultChoices, t.mapped = mapped, t.rules = rules
  PROVE  t \in Tables
<1>1. t = [providers |-> t.providers, default |-> t.default, mapped |-> t.mapped, rules |-> t.rules]
  BY DEF TableType
<1> QED
  BY <1>1 DEF Tables

\* A step that leaves the catalog alone leaves every check and every read valid.
LEMMA SameCatalog ==
  ASSUME UNCHANGED catalog
  PROVE  /\ DefaultChoices' = DefaultChoices /\ Enabled' = Enabled /\ (IsLast' <=> IsLast)
         /\ mapped' = mapped /\ rules' = rules /\ pin' = pin
BY DEF catalog, DefaultChoices, IsLast

LEMMA AloneInit == Init => AloneInv
BY InitTypes DEF Init, AloneInv, OneAtWork, CheckedSoFar, ReadSoFar

\* A handler that begins while the others are idle is the only one at work, and
\* has neither checked more than the rules nor read anything.
LEMMA BeginStep ==
  ASSUME AloneInv, TypeOK', NEW h \in Admins, Edit(h)
  PROVE  AloneInv'
<1> SUFFICES ASSUME alone' PROVE OneAtWork' /\ CheckedSoFar' /\ ReadSoFar'
  BY DEF AloneInv
<1>1. /\ pc \in [Admins -> PCs] /\ slug \in [Admins -> Slugs \cup {NoSlug}]
  BY DEF AloneInv, TypeOK
<1>2. \A b \in Admins : pc[b] = "idle"
  BY DEF Edit, CreateProvider, UpdateProvider, UpdateUnknown, CheckRules, EditMappings,
         EditRules, PinUser, Begins
<1>3. \A b \in Admins \ {h} : pc'[b] = "idle"
  BY <1>1, <1>2 DEF Edit, CreateProvider, UpdateProvider, UpdateUnknown, CheckRules, EditMappings,
         EditRules, PinUser, Goto
<1>4. \/ pc'[h] \in {"idle", "reread", "providers"}
      \/ /\ pc'[h] = "checkMappings" /\ slug'[h] \in Slugs
         /\ ~RuleNames(slug'[h]) /\ rules' = rules
  <2>1. ASSUME NEW s \in Slugs, CheckRules(h, s)
        PROVE  /\ pc'[h] = "checkMappings" /\ slug'[h] \in Slugs
               /\ ~RuleNames(slug'[h]) /\ rules' = rules
    BY <1>1, <2>1 DEF CheckRules, Goto, catalog
  <2>2. ASSUME NEW s \in Slugs,
               CreateProvider(h, s) \/ UpdateProvider(h, s) \/ UpdateUnknown(h, s) \/ EditMappings(h, s)
        PROVE  pc'[h] \in {"idle", "reread", "providers"}
    BY <1>1, <2>2 DEF CreateProvider, UpdateProvider, UpdateUnknown, EditMappings, Goto
  <2>3. ASSUME NEW i \in RuleIds, EditRules(h, i) PROVE pc'[h] = "providers"
    BY <1>1, <2>3 DEF EditRules, AfterRuleEdit, Goto
  <2>4. CASE PinUser(h)
    BY <1>2, <2>4 DEF PinUser
  <2> QED
    BY <2>1, <2>2, <2>3, <2>4 DEF Edit
<1>5. OneAtWork'
  BY <1>3 DEF OneAtWork
<1>6. CheckedSoFar'
  BY <1>3, <1>4 DEF CheckedSoFar, RuleNames
<1>7. ReadSoFar'
  BY <1>3, <1>4 DEF ReadSoFar
<1> QED
  BY <1>5, <1>6, <1>7

\* A step of the handler that is alone keeps what it has checked and read.
LEMMA ContinueStep ==
  ASSUME AloneInv, TypeOK', NEW h \in Admins, Continue(h)
  PROVE  AloneInv'
<1> SUFFICES ASSUME alone' PROVE OneAtWork' /\ CheckedSoFar' /\ ReadSoFar'
  BY DEF AloneInv
<1>1. alone /\ pc[h] # "idle"
  BY DEF Continue, Reread, CheckMappings, CheckPins, CheckLast, Check, DeleteProvider,
         ReadProviders, ReadMappings, ReadRules, Store
<1>2. /\ OneAtWork /\ CheckedSoFar /\ ReadSoFar
      /\ pc \in [Admins -> PCs] /\ slug \in [Admins -> Slugs \cup {NoSlug}]
      /\ draft \in [Admins -> TableType]
  BY <1>1 DEF AloneInv, TypeOK
<1>3. \A b \in Admins \ {h} : pc'[b] = "idle"
  <2>1. \A b \in Admins \ {h} : pc[b] = "idle"
    BY <1>1, <1>2 DEF OneAtWork
  <2> QED
    BY <1>2, <2>1 DEF Continue, Reread, CheckMappings, CheckPins, CheckLast, Check, Finish, Goto,
       DeleteProvider, ReadProviders, ReadMappings, ReadRules, Store
<1>4. OneAtWork'
  BY <1>3 DEF OneAtWork
<1>5. CASE Reread(h) \/ Store(h) \/ DeleteProvider(h)
  <2>1. pc'[h] \in {"idle", "providers"}
    BY <1>2, <1>5 DEF Reread, Store, DeleteProvider, Finish, Goto
  <2> QED
    BY <1>3, <1>4, <2>1 DEF CheckedSoFar, ReadSoFar
<1>6. CASE CheckMappings(h) \/ CheckPins(h) \/ CheckLast(h)
  <2>1. /\ UNCHANGED catalog
        /\ \/ pc'[h] = "idle"
           \/ slug' = slug /\ pc[h] = "checkMappings" /\ pc'[h] = "checkPins" /\ slug[h] \notin mapped
           \/ slug' = slug /\ pc[h] = "checkPins" /\ pc'[h] = "checkLast" /\ ~PinnedTo(slug[h])
           \/ slug' = slug /\ pc[h] = "checkLast" /\ pc'[h] = "delete" /\ ~IsLast
    BY <1>2, <1>6 DEF CheckMappings, CheckPins, CheckLast, Check, Finish, Goto
  <2>2. mapped' = mapped /\ pin' = pin /\ rules' = rules /\ (IsLast' <=> IsLast)
    BY <2>1, SameCatalog
  <2>3. CheckedSoFar'
    BY <1>2, <1>3, <2>1, <2>2 DEF CheckedSoFar, RuleNames, PinnedTo
  <2>4. ReadSoFar'
    BY <1>3, <2>1 DEF ReadSoFar
  <2> QED
    BY <1>4, <2>3, <2>4
<1>7. CASE ReadProviders(h)
  <2>1. PICK d \in DefaultChoices :
          draft' = [draft EXCEPT ![h] = [EmptyTable EXCEPT !.providers = Enabled, !.default = d]]
    BY <1>7 DEF ReadProviders
  <2>2. draft'[h].providers = Enabled /\ draft'[h].default = d
    BY <1>2, <2>1 DEF EmptyTable
  <2>3. pc'[h] = "mappings" /\ UNCHANGED catalog
    BY <1>2, <1>7 DEF ReadProviders, Goto
  <2>4. Enabled' = Enabled /\ DefaultChoices' = DefaultChoices
    BY <2>3, SameCatalog
  <2> QED
    BY <1>3, <1>4, <2>1, <2>2, <2>3, <2>4 DEF CheckedSoFar, ReadSoFar
<1>8. CASE ReadMappings(h)
  <2>1. /\ pc[h] = "mappings" /\ pc'[h] = "rules" /\ UNCHANGED catalog /\ draft'[h].mapped = mapped
        /\ draft'[h].providers = draft[h].providers /\ draft'[h].default = draft[h].default
    BY <1>2, <1>8 DEF ReadMappings, Goto, TableType
  <2>2. Enabled' = Enabled /\ DefaultChoices' = DefaultChoices /\ mapped' = mapped
    BY <2>1, SameCatalog
  <2> QED
    BY <1>2, <1>3, <1>4, <2>1, <2>2 DEF CheckedSoFar, ReadSoFar
<1>9. CASE ReadRules(h)
  <2>1. /\ pc[h] = "rules" /\ pc'[h] = "store" /\ UNCHANGED catalog
        /\ draft'[h].rules = rules /\ draft'[h].mapped = draft[h].mapped
        /\ draft'[h].providers = draft[h].providers /\ draft'[h].default = draft[h].default
    BY <1>2, <1>9 DEF ReadRules, Goto, TableType
  <2>2. Enabled' = Enabled /\ DefaultChoices' = DefaultChoices /\ mapped' = mapped /\ rules' = rules
    BY <2>1, SameCatalog
  <2> QED
    BY <1>2, <1>3, <1>4, <2>1, <2>2 DEF CheckedSoFar, ReadSoFar
<1> QED
  BY <1>5, <1>6, <1>7, <1>8, <1>9 DEF Continue

LEMMA AloneStep == AloneInv /\ [Next]_vars => AloneInv'
<1> SUFFICES ASSUME AloneInv, [Next]_vars PROVE AloneInv'
  OBVIOUS
<1>0. TypeOK'
  BY TypesStep DEF AloneInv
<1>1. CASE Restart
  BY <1>0, <1>1 DEF Restart, AloneInv, OneAtWork, CheckedSoFar, ReadSoFar
<1>2. CASE UNCHANGED vars
  <2>1. UNCHANGED catalog /\ UNCHANGED <<pc, slug, draft, alone>>
    BY <1>2 DEF vars
  <2>2. /\ DefaultChoices' = DefaultChoices /\ Enabled' = Enabled /\ (IsLast' <=> IsLast)
        /\ mapped' = mapped /\ rules' = rules /\ pin' = pin
    BY <2>1, SameCatalog
  <2> QED
    BY <1>0, <2>1, <2>2 DEF AloneInv, OneAtWork, CheckedSoFar, ReadSoFar, RuleNames, PinnedTo
<1> QED
  BY <1>0, <1>1, <1>2, BeginStep, ContinueStep DEF Next

\* A handler that has been alone since it began publishes what the database holds.
THEOREM AloneHandlerReloads == Spec => AloneReloads
<1> DEFINE Current ==
      \A a \in Admins : alone /\ pc[a] = "store" /\ pc'[a] = "idle" => table' \in Tables
<1>1. AloneInv /\ [Next]_vars => Current
  <2> SUFFICES ASSUME AloneInv, [Next]_vars, NEW a \in Admins,
                      alone, pc[a] = "store", pc'[a] = "idle"
               PROVE  table' \in Tables
    OBVIOUS
  <2>0. /\ pc \in [Admins -> PCs] /\ draft \in [Admins -> TableType]
        /\ OneAtWork /\ ReadSoFar
    BY DEF AloneInv, TypeOK
  <2>1. CASE Restart
    BY <2>1 DEF Restart
  <2>2. ASSUME NEW b \in Admins, Edit(b) PROVE FALSE
    <3>1. pc[b] = "idle" /\ b # a
      BY <2>2 DEF Edit, CreateProvider, UpdateProvider, UpdateUnknown, CheckRules, EditMappings,
                  EditRules, PinUser, Begins
    <3>2. pc'[a] = pc[a]
      BY <2>0, <2>2, <3>1 DEF Edit, CreateProvider, UpdateProvider, UpdateUnknown, CheckRules,
                  EditMappings, EditRules, PinUser, Goto
    <3> QED
      BY <3>2
  <2>3. ASSUME NEW b \in Admins, Continue(b) PROVE table' \in Tables
    <3>1. pc[b] # "idle"
      BY <2>3 DEF Continue, Reread, CheckMappings, CheckPins, CheckLast, DeleteProvider,
                  ReadProviders, ReadMappings, ReadRules, Store
    <3>2. b = a
      BY <2>0, <3>1 DEF OneAtWork
    <3>3. Store(a)
      BY <2>3, <3>2 DEF Continue, Reread, CheckMappings, CheckPins, CheckLast, DeleteProvider,
                  ReadProviders, ReadMappings, ReadRules
    <3>4. draft[a] \in Tables
      BY <2>0, IsATable DEF ReadSoFar
    <3> QED
      BY <3>3, <3>4 DEF Store
  <2>4. CASE UNCHANGED vars
    BY <2>4 DEF vars
  <2> QED
    BY <2>1, <2>2, <2>3, <2>4 DEF Next
<1> QED
  BY <1>1, AloneInit, AloneStep, PTL DEF Spec, AloneReloads

\* Only DeleteProvider takes a row out of the table.
LEMMA OnlyDeleteRemoves ==
  ASSUME TypeOK, [Next]_vars, NEW s \in Rows, status'[s] = "absent"
  PROVE  \E a \in Admins : DeleteProvider(a) /\ s = slug[a]
<1> USE DEF TypeOK
<1>1. ASSUME NEW a \in Admins, Edit(a) PROVE FALSE
  BY <1>1 DEF Edit, CreateProvider, UpdateProvider, UpdateUnknown, CheckRules,
              EditMappings, EditRules, PinUser, catalog
<1>2. ASSUME NEW a \in Admins, Continue(a) PROVE DeleteProvider(a) /\ s = slug[a]
  <2>1. CASE DeleteProvider(a)
    BY <2>1 DEF DeleteProvider
  <2>2. CASE ~DeleteProvider(a)
    BY <1>2, <2>2 DEF Continue, Reread, CheckMappings, CheckPins, CheckLast, Check,
                ReadProviders, ReadMappings, ReadRules, Store, catalog
  <2> QED
    BY <2>1, <2>2
<1>3. ASSUME Restart \/ UNCHANGED vars PROVE FALSE
  BY <1>3 DEF Restart, vars, catalog
<1> QED
  BY <1>1, <1>2, <1>3 DEF Next

\* A handler that has been alone since it began deletes no provider that a rule, a
\* mapping or a user still refers to: what its checks saw is what the DELETE finds.
THEOREM AloneHandlerDeletesUnreferenced == Spec => AloneDeletesUnreferenced
<1> DEFINE Unreferenced ==
      alone => \A s \in Rows : status'[s] = "absent" => s \notin mapped /\ pin # s /\ ~RuleNames(s)
<1>1. AloneInv /\ [Next]_vars => Unreferenced
  <2> SUFFICES ASSUME AloneInv, [Next]_vars, alone, NEW s \in Rows, status'[s] = "absent"
               PROVE  s \notin mapped /\ pin # s /\ ~RuleNames(s)
    OBVIOUS
  <2>1. PICK a \in Admins : DeleteProvider(a) /\ s = slug[a]
    BY OnlyDeleteRemoves DEF AloneInv
  <2> QED
    BY <2>1 DEF DeleteProvider, AloneInv, CheckedSoFar, PinnedTo
<1> QED
  BY <1>1, AloneInit, AloneStep, PTL DEF Spec, AloneDeletesUnreferenced

\* A handler that has been alone since it began does not delete the last provider.
THEOREM AloneHandlerKeepsLast == Spec => AloneKeepsLast
<1> DEFINE Kept == alone /\ Rows # {} => Rows' # {}
<1>1. AloneInv /\ [Next]_vars => Kept
  <2> SUFFICES ASSUME AloneInv, [Next]_vars, alone, Rows # {}, Rows' = {}
               PROVE  FALSE
    OBVIOUS
  <2>1. \A s \in Rows : status'[s] = "absent"
    OBVIOUS
  <2>2. PICK s \in Rows : TRUE
    OBVIOUS
  <2>3. PICK a \in Admins : DeleteProvider(a)
    BY <2>1, OnlyDeleteRemoves DEF AloneInv
  <2>4. ~IsLast /\ status' = [status EXCEPT ![slug[a]] = "absent"]
    BY <2>3 DEF DeleteProvider, AloneInv, CheckedSoFar
  <2>5. Rows \subseteq {slug[a]}
    BY <2>1, <2>4 DEF AloneInv, TypeOK
  <2>6. IsFiniteSet({slug[a]}) /\ Cardinality({slug[a]}) = 1
    BY FS_Singleton
  <2>7. Cardinality(Rows) <= Cardinality({slug[a]}) /\ IsFiniteSet(Rows)
    BY ONLY <2>5, <2>6, FS_Subset
  <2>8. Cardinality(Rows) \in Nat
    BY <2>7, FS_CardinalityType
  <2> QED
    BY <2>4, <2>6, <2>7, <2>8 DEF IsLast
<1> QED
  BY <1>1, AloneInit, AloneStep, PTL DEF Spec, AloneKeepsLast
=============================================================================
