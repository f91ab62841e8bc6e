------------------------- MODULE UserAccountsProofs -------------------------
(***************************************************************************)
(* What the users table keeps, for any number of handlers and clients: the *)
(* types, one user per name, every key with the user it was made for, no   *)
(* handler and no request at work for another user than the one it read,   *)
(* and no key that comes back after it was replaced; and what an update or *)
(* an extension does if no other admin request overlaps it.                *)
(***************************************************************************)
EXTENDS UserAccounts, TLAPS

UpdateStages == {"readCaps", "writeCaps", "status", "route", "key"}
Stages == UpdateStages \cup {"newCaps", "newKey", "extend", "delete"}

\* The table; ids that AUTOINCREMENT has not given yet have no row.
Table ==
  /\ rows \in [Ids -> RowType \cup {NoRow}]
  /\ nextId \in 1..(MaxId + 1)
  /\ \A i, j \in Live : rows[i].name = rows[j].name => i = j
  /\ \A i \in Ids : i >= nextId => rows[i] = NoRow
  /\ KeysBelong

\* A handler: what its locals hold at each stage.
HandlerOK(h) ==
  /\ who[h] < nextId
  /\ pc[h] \in {"idle", "conflict"} => who[h] = 0
  /\ pc[h] \in Stages => who[h] \in Ids /\ seen[h] \in RowType
  /\ pc[h] \in UpdateStages => req[h] \in Updates
  /\ pc[h] = "status" => req[h].status # "keep"
  /\ pc[h] = "newCaps" => req[h] \in Creates /\ \A d \in CapFields : req[h].caps[d] >= 0

\* The inductive invariant.  An id that a handler or a request holds was given to the
\* user it read, and no id is given twice.
IInv ==
  /\ TypeOK
  /\ Table
  /\ \A h \in Handlers : HandlerOK(h)
  /\ \A c \in Clients : ctx[c].user < nextId
  /\ NeverAnotherUser

\* A step that changes no user's name and moves no key to another user.
Kept ==
  /\ rows' \in [Ids -> RowType \cup {NoRow}]
  /\ \A i \in Ids : rows'[i] # NoRow =>
       /\ rows[i] # NoRow
       /\ rows'[i].name = rows[i].name
       /\ rows'[i].key.user \in {0, i}

-----------------------------------------------------------------------------
LEMMA MergeType ==
  ASSUME NEW F, NEW V, NEW old \in [F -> V], NEW new, Partial(new, F, V)
  PROVE  Merge(old, new) \in [F -> V]
BY DEF Merge, Partial

LEMMA PutKeeps ==
  ASSUME Table, NEW w \in Ids, NEW r, Put(w, r),
         rows[w] # NoRow => /\ r \in RowType
                            /\ r.name = rows[w].name
                            /\ r.key.user \in {rows[w].key.user, w}
  PROVE  Kept
BY DEF Put, Table, Kept, KeysBelong, Live, Exists

LEMMA KeptTable ==
  ASSUME Table, Kept, nextId' = nextId
  PROVE  Table'
<1>1. \A i \in Live' : i \in Live /\ rows'[i].name = rows[i].name /\ rows'[i].key.user \in {0, i}
  BY DEF Kept, Live, Exists
<1>2. \A i \in Ids : i >= nextId' => rows'[i] = NoRow
  BY DEF Table, Kept
<1>3. \A i, j \in Live' : rows'[i].name = rows'[j].name => i = j
  BY <1>1 DEF Table
<1>4. KeysBelong'
  BY <1>1 DEF KeysBelong
<1> QED
  BY <1>2, <1>3, <1>4 DEF Table, Kept

\* One step of a handler that is under way.
LEMMA StageStep ==
  ASSUME IInv, NEW h \in Handlers, NEW l \in PCs, Kept,
         UNCHANGED <<nextId, now, who, req, due, ctx, served, alone>>,
         minted' \in 0..MaxKeys,
         pc' = [pc EXCEPT ![h] = l], pc[h] \in Stages,
         l \notin {"idle", "conflict", "newCaps"}, l \in UpdateStages => req[h] \in Updates,
         l = "status" => req[h].status # "keep",
         seen' \in [Handlers -> RowType \cup {NoRow}],
         \A g \in Handlers : g # h => seen'[g] = seen[g],
         seen'[h] \in RowType, seen'[h].name = seen[h].name
  PROVE  IInv'
<1>1. Table'
  BY KeptTable DEF IInv
<1>2. \A i \in Live' : i \in Live /\ rows'[i].name = rows[i].name
  BY DEF Kept, Live, Exists
<1>3. \A g \in Handlers : seen'[g].name = seen[g].name
  OBVIOUS
<1>4. NeverAnotherUser'
  BY <1>2, <1>3 DEF IInv, NeverAnotherUser
<1>5. TypeOK'
  BY <1>1 DEF IInv, TypeOK, Table
<1>6. ASSUME NEW g \in Handlers PROVE HandlerOK(g)'
  <2>1. HandlerOK(g) /\ HandlerOK(h)
    BY DEF IInv
  <2>2. CASE g = h
    BY <2>1, <2>2 DEF HandlerOK, IInv, TypeOK
  <2>3. CASE g # h
    BY <2>1, <2>3 DEF HandlerOK, IInv, TypeOK
  <2> QED
    BY <2>2, <2>3
<1> QED
  BY <1>1, <1>4, <1>5, <1>6 DEF IInv

\* The step that begins a request, or answers it: the rows are left alone.
LEMMA EdgeStep ==
  ASSUME IInv, NEW h \in Handlers, NEW l \in PCs, NEW w \in 0..MaxId, w < nextId,
         NEW q \in Creates \cup Updates \cup Extends \cup {NoReq},
         NEW s \in RowType \cup {NoRow}, NEW d \in Nat,
         UNCHANGED <<rows, nextId, minted, now, ctx>>,
         served' \in 0..MaxServed, alone' \in BOOLEAN,
         pc' = [pc EXCEPT ![h] = l], who' = [who EXCEPT ![h] = w],
         req' = [req EXCEPT ![h] = q], seen' = [seen EXCEPT ![h] = s],
         due' = [due EXCEPT ![h] = d],
         w \in Live => rows[w].name = s.name,
         l \in Stages => w \in Ids /\ s \in RowType,
         l \in UpdateStages => q \in Updates,
         l = "status" => q.status # "keep",
         l \in {"idle", "conflict"} => w = 0,
         l # "newCaps"
  PROVE  IInv'
<1>1. Table' /\ Live' = Live
  BY DEF IInv, Table, KeysBelong, Live, Exists
<1>2. TypeOK'
  BY <1>1 DEF IInv, TypeOK
<1>3. NeverAnotherUser'
  BY <1>1 DEF IInv, TypeOK, NeverAnotherUser
<1>4. \A g \in Handlers : HandlerOK(g)'
  BY DEF IInv, TypeOK, HandlerOK
<1> QED
  BY <1>1, <1>2, <1>3, <1>4 DEF IInv

LEMMA InitHolds == Init => IInv
<1> SUFFICES ASSUME Init PROVE IInv
  OBVIOUS
<1>1. rows[1] \in RowType /\ rows[1].key.user = 0 /\ \A i \in Ids : i # 1 => rows[i] = NoRow
  <2>1. 1 \in Ids /\ UnseenKey \in KeyType /\ UnseenKey.user = 0
    BY AccountsAssumption DEF Ids, UnseenKey, KeyType
  <2>2. NoCaps \in [CapFields -> Nat] /\ [f \in RouteFields |-> Default] \in [RouteFields -> Values]
    BY AccountsAssumption DEF NoCaps
  <2> QED
    BY <2>1, <2>2, AccountsAssumption DEF Init, RowType, Permanent
<1>2. Table
  BY <1>1, AccountsAssumption DEF Init, Table, Ids, Live, Exists, KeysBelong
<1>3. TypeOK
  BY <1>2, AccountsAssumption DEF Init, Table, TypeOK, PCs, NoCtx, Permanent
<1>4. NeverAnotherUser
  BY DEF Init, NeverAnotherUser, Live, Ids, NoCtx
<1> QED
  BY <1>2, <1>3, <1>4 DEF IInv, Init, HandlerOK, Stages, UpdateStages, NoCtx

-----------------------------------------------------------------------------
(* The handlers. *)

LEMMA NewRowType ==
  ASSUME NEW b \in Creates
  PROVE  NewRow(b) \in RowType /\ NewRow(b).name = b.name /\ NewRow(b).key.user = 0
<1>1. NoKey \in KeyType /\ NoKey.user = 0
  BY AccountsAssumption DEF NoKey, KeyType
<1>2. NoCaps \in [CapFields -> Nat] /\ [f \in RouteFields |-> Default] \in [RouteFields -> Values]
  BY AccountsAssumption DEF NoCaps
<1> QED
  BY <1>1, <1>2, AccountsAssumption DEF NewRow, RowType

LEMMA InsertStep ==
  ASSUME IInv, NEW h \in Handlers, NEW b \in Creates, InsertUser(h, b)
  PROVE  IInv'
<1>1. NewRow(b) \in RowType /\ NewRow(b).name = b.name /\ NewRow(b).key.user = 0
  BY NewRowType
<1>2. /\ nextId \in Ids /\ rows[nextId] = NoRow /\ nextId' = nextId + 1
      /\ rows' = [rows EXCEPT ![nextId] = NewRow(b)]
  BY DEF InsertUser, NewId, IInv, Table, Ids
<1>3. \A i \in Live : rows[i].name # b.name
  BY DEF InsertUser, Conflicts, NameTaken
<1>4. \A i \in Live' : \/ i = nextId /\ rows'[i] = NewRow(b)
                       \/ i \in Live /\ i # nextId /\ rows'[i] = rows[i]
  <2>1. \A i \in Ids : rows'[i] = IF i = nextId THEN NewRow(b) ELSE rows[i]
    BY <1>2 DEF IInv, Table
  <2> QED
    BY <1>2, <2>1 DEF Live, Exists
<1>5. Table'
  <2>1. rows' \in [Ids -> RowType \cup {NoRow}] /\ nextId' \in 1..(MaxId + 1)
    BY <1>1, <1>2, AccountsAssumption DEF IInv, Table, Ids
  <2>2. \A i, j \in Live' : rows'[i].name = rows'[j].name => i = j
    BY <1>1, <1>3, <1>4 DEF IInv, Table
  <2>3. \A i \in Ids : i >= nextId' => rows'[i] = NoRow
    BY <1>2, AccountsAssumption DEF IInv, Table, Ids
  <2>4. KeysBelong'
    BY <1>1, <1>4 DEF IInv, Table, KeysBelong
  <2> QED
    BY <2>1, <2>2, <2>3, <2>4 DEF Table
<1>6. PICK l \in {"refused", "newKey", "newCaps"} :
        /\ pc' = [pc EXCEPT ![h] = l]
        /\ l = "newCaps" => \A d \in CapFields : b.caps[d] >= 0
  <2>1. b.caps \in [CapFields -> Int]
    BY AccountsAssumption
  <2>2. CASE \E d \in CapFields : b.caps[d] < 0
    BY <2>2 DEF InsertUser, Goto
  <2>3. CASE ~(\E d \in CapFields : b.caps[d] < 0)
    <3>1. \A d \in CapFields : b.caps[d] >= 0
      BY <2>1, <2>3
    <3>2. pc' = [pc EXCEPT ![h] = IF b.caps = NoCaps THEN "newKey" ELSE "newCaps"]
      BY <2>3 DEF InsertUser, Goto
    <3> QED
      BY <3>1, <3>2
  <2> QED
    BY <2>2, <2>3
<1>7. /\ who' = [who EXCEPT ![h] = nextId] /\ req' = [req EXCEPT ![h] = b]
      /\ seen' = [seen EXCEPT ![h] = NewRow(b)] /\ UNCHANGED <<minted, now, due, ctx>>
      /\ served' \in 0..MaxServed /\ alone' \in BOOLEAN
  BY AccountsAssumption DEF InsertUser, NewId, Begins, IInv, TypeOK
<1>8. TypeOK'
  BY <1>1, <1>2, <1>5, <1>6, <1>7 DEF IInv, TypeOK, Table, PCs, Ids
<1>9. ASSUME NEW g \in Handlers PROVE HandlerOK(g)'
  <2>1. HandlerOK(g) /\ who[g] \in 0..MaxId
    BY DEF IInv, TypeOK
  <2>2. CASE g = h
    BY <1>1, <1>2, <1>6, <1>7, <2>2 DEF HandlerOK, IInv, TypeOK, Table, UpdateStages, Stages, Ids
  <2>3. CASE g # h
    BY <1>2, <1>6, <1>7, <2>1, <2>3 DEF HandlerOK, IInv, TypeOK, Ids
  <2> QED
    BY <2>2, <2>3
<1>10. NeverAnotherUser'
  <2>1. ASSUME NEW g \in Handlers, who'[g] \in Live' PROVE rows'[who'[g]].name = seen'[g].name
    <3>1. CASE g = h
      BY <1>2, <1>7, <3>1 DEF IInv, TypeOK
    <3>2. CASE g # h
      <4>1. who'[g] = who[g] /\ seen'[g] = seen[g] /\ who[g] # nextId
        BY <1>2, <1>7, <3>2 DEF IInv, TypeOK, HandlerOK, Ids
      <4> QED
        BY <1>4, <2>1, <4>1 DEF IInv, NeverAnotherUser
    <3> QED
      BY <3>1, <3>2
  <2>2. ASSUME NEW c \in Clients, ctx'[c].user \in Live' PROVE rows'[ctx'[c].user].name = ctx'[c].name
    <3>1. ctx'[c] = ctx[c] /\ ctx[c].user # nextId
      BY <1>2, <1>7 DEF IInv, TypeOK, Ids
    <3> QED
      BY <1>4, <2>2, <3>1 DEF IInv, NeverAnotherUser
  <2> QED
    BY <2>1, <2>2 DEF NeverAnotherUser
<1>11. \A c \in Clients : ctx'[c].user < nextId'
  BY <1>2, <1>7 DEF IInv, TypeOK, Ids
<1> QED
  BY <1>5, <1>8, <1>9, <1>10, <1>11 DEF IInv

LEMMA InstallKeeps ==
  ASSUME IInv, NEW h \in Handlers, who[h] \in Ids, InstallKey(h)
  PROVE  Kept /\ minted' \in 0..MaxKeys
<1>1. minted' = minted + 1 /\ minted' \in 0..MaxKeys
  BY AccountsAssumption DEF IInv, TypeOK, InstallKey
<1>2. FreshKey(who[h]) \in KeyType /\ FreshKey(who[h]).user = who[h]
  BY <1>1 DEF FreshKey, KeyType, Ids, IInv, TypeOK
<1>3. Put(who[h], [rows[who[h]] EXCEPT !.key = FreshKey(who[h])])
  BY DEF InstallKey, Target
<1>4. Kept
  <2> DEFINE r == [rows[who[h]] EXCEPT !.key = FreshKey(who[h])]
  <2>1. rows[who[h]] # NoRow => r \in RowType /\ r.name = rows[who[h]].name /\ r.key.user = who[h]
    BY <1>2 DEF IInv, Table, RowType
  <2> HIDE DEF r
  <2> QED
    BY <1>3, <2>1, PutKeeps DEF IInv, r
<1> QED
  BY <1>1, <1>4

\* A stage that writes row w as r, with the same name and the same key.
LEMMA WriteStep ==
  ASSUME IInv, NEW h \in Handlers, NEW l \in PCs, NEW r,
         UNCHANGED <<nextId, minted, now, locals, ctx, served, alone>>,
         Put(who[h], r),
         rows[who[h]] # NoRow => r \in RowType /\ r.name = rows[who[h]].name /\ r.key = rows[who[h]].key,
         pc' = [pc EXCEPT ![h] = l], pc[h] \in Stages,
         l \notin {"idle", "conflict", "newCaps"}, l \in UpdateStages => req[h] \in Updates,
         l = "status" => req[h].status # "keep"
  PROVE  IInv'
<1>1. who[h] \in Ids /\ seen[h] \in RowType /\ seen \in [Handlers -> RowType \cup {NoRow}]
      /\ minted \in 0..MaxKeys
  BY DEF IInv, HandlerOK, TypeOK
<1>2. Kept
  BY <1>1, PutKeeps DEF IInv
<1> QED
  BY <1>1, <1>2, StageStep DEF locals

LEMMA KeyStep ==
  ASSUME IInv, NEW h \in Handlers, InstallKey(h), pc[h] \in Stages,
         pc' = [pc EXCEPT ![h] = "answer"],
         UNCHANGED <<nextId, now, locals, ctx, served, alone>>
  PROVE  IInv'
<1>1. who[h] \in Ids /\ seen[h] \in RowType /\ seen \in [Handlers -> RowType \cup {NoRow}]
  BY DEF IInv, HandlerOK, TypeOK
<1>2. Kept /\ minted' \in 0..MaxKeys
  BY <1>1, InstallKeeps
<1>3. "answer" \in PCs /\ "answer" \notin UpdateStages
  BY DEF PCs, UpdateStages
<1> QED
  BY <1>1, <1>2, <1>3, StageStep DEF locals

LEMMA ReadUserStep ==
  ASSUME IInv, NEW h \in Handlers, NEW i \in Ids, NEW l \in PCs,
         NEW b \in Updates \cup Extends \cup {NoReq}, ReadUser(h, i, b, l),
         due' \in [Handlers -> Nat], due' = [due EXCEPT ![h] = due'[h]],
         l \in UpdateStages => b \in Updates, l \notin {"idle", "conflict", "newCaps"},
         l = "status" => b.status # "keep"
  PROVE  IInv'
<1>1. i \in 0..MaxId /\ i < nextId /\ rows[i] \in RowType /\ i \in Ids
  <2>1. rows[i] # NoRow
    BY DEF ReadUser, Exists
  <2>2. rows \in [Ids -> RowType \cup {NoRow}] /\ nextId \in 1..(MaxId + 1)
        /\ \A j \in Ids : j >= nextId => rows[j] = NoRow
    BY DEF IInv, Table
  <2> QED
    BY <2>1, <2>2, AccountsAssumption DEF Ids
<1>2. served' \in 0..MaxServed /\ alone' \in BOOLEAN
  BY AccountsAssumption DEF ReadUser, Begins, IInv, TypeOK
<1>3. /\ UNCHANGED <<rows, nextId, minted, now, ctx>>
      /\ pc' = [pc EXCEPT ![h] = l] /\ who' = [who EXCEPT ![h] = i]
      /\ req' = [req EXCEPT ![h] = b] /\ seen' = [seen EXCEPT ![h] = rows[i]]
  BY DEF ReadUser, Goto
<1>4. due'[h] \in Nat
  OBVIOUS
<1> QED
  BY <1>1, <1>2, <1>3, <1>4, EdgeStep

LEMMA WhereNext ==
  ASSUME NEW b \in Updates
  PROVE  /\ FromCaps(b) \in PCs \ {"idle", "conflict", "newCaps"}
         /\ FromStatus(b) \in PCs \ {"idle", "conflict", "newCaps"}
         /\ FromRoute(b) \in PCs \ {"idle", "conflict", "newCaps"}
         /\ FromRest(b) \in PCs \ {"idle", "conflict", "newCaps"}
         /\ "status" \in {FromCaps(b), FromStatus(b), FromRoute(b), FromRest(b)} => b.status # "keep"
BY DEF FromCaps, FromStatus, FromRoute, FromRest, FromKey, PCs

LEMMA CreateStep ==
  ASSUME IInv, NEW h \in Handlers, Create(h)
  PROVE  IInv'
<1>0. HandlerOK(h)
  BY DEF IInv
<1>1. ASSUME NEW b \in Creates, RefuseInsert(h, b) PROVE IInv'
  <2>1. NewRow(b) \in RowType
    BY NewRowType
  <2>2. pc[h] = "idle" /\ who[h] = 0
    BY <1>0, <1>1 DEF RefuseInsert, Begins, HandlerOK
  <2>3. /\ served' \in 0..MaxServed /\ alone' \in BOOLEAN
        /\ UNCHANGED <<rows, nextId, minted, now, ctx>>
        /\ pc' = [pc EXCEPT ![h] = "conflict"] /\ who' = [who EXCEPT ![h] = 0]
        /\ req' = [req EXCEPT ![h] = req[h]] /\ seen' = [seen EXCEPT ![h] = NewRow(b)]
        /\ due' = [due EXCEPT ![h] = due[h]]
    BY <1>1, <2>2, AccountsAssumption DEF RefuseInsert, Goto, Begins, IInv, TypeOK
  <2>4. /\ req[h] \in Creates \cup Updates \cup Extends \cup {NoReq} /\ due[h] \in Nat
        /\ 0 \in 0..MaxId /\ 0 < nextId /\ 0 \notin Live
    BY AccountsAssumption DEF IInv, TypeOK, Live, Ids
  <2>5. "conflict" \in PCs \ Stages /\ "conflict" \notin UpdateStages
    BY DEF PCs, Stages, UpdateStages
  <2> QED
    BY <2>1, <2>3, <2>4, <2>5, EdgeStep
<1>2. CASE SetNewCaps(h)
  <2>1. req[h].caps \in [CapFields -> Nat]
    <3>1. req[h] \in Creates /\ \A d \in CapFields : req[h].caps[d] >= 0
      BY <1>0, <1>2 DEF SetNewCaps, HandlerOK
    <3>2. req[h].caps \in [CapFields -> Int]
      BY <3>1, AccountsAssumption
    <3> QED
      BY <3>1, <3>2
  <2>2. rows[who[h]] # NoRow => rows[who[h]] \in RowType
    BY <1>0, <1>2 DEF SetNewCaps, HandlerOK, Stages, IInv, Table
  <2> DEFINE r == [rows[who[h]] EXCEPT !.caps = req[h].caps]
  <2>3. rows[who[h]] # NoRow => r \in RowType /\ r.name = rows[who[h]].name /\ r.key = rows[who[h]].key
    BY <2>1, <2>2 DEF RowType
  <2>4. /\ Put(who[h], r) /\ pc' = [pc EXCEPT ![h] = "newKey"] /\ pc[h] \in Stages
        /\ UNCHANGED <<nextId, minted, now, locals, ctx, served, alone>>
    BY <1>2 DEF SetNewCaps, Goto, Stages
  <2>5. "newKey" \in PCs \ UpdateStages
    BY DEF PCs, UpdateStages
  <2> HIDE DEF r
  <2> QED
    BY <2>3, <2>4, <2>5, WriteStep
<1>3. CASE SetNewKey(h)
  BY <1>3, KeyStep DEF SetNewKey, Goto, Stages
<1> QED
  BY <1>1, <1>2, <1>3, InsertStep DEF Create

LEMMA UpdateStep ==
  ASSUME IInv, NEW h \in Handlers, Update(h)
  PROVE  IInv'
<1>0. HandlerOK(h) /\ rows \in [Ids -> RowType \cup {NoRow}] /\ due \in [Handlers -> Nat]
  BY DEF IInv, TypeOK
<1>1. ASSUME NEW i \in Ids, NEW b \in Updates, BeginUpdate(h, i, b) PROVE IInv'
  <2>1. ReadUser(h, i, b, FromCaps(b)) /\ due' = due
    BY <1>1 DEF BeginUpdate
  <2>2. due' \in [Handlers -> Nat] /\ due' = [due EXCEPT ![h] = due'[h]]
    BY <1>0, <2>1
  <2> QED
    BY <2>1, <2>2, WhereNext, ReadUserStep
<1>2. ASSUME pc[h] \in UpdateStages
      PROVE  /\ req[h] \in Updates /\ pc[h] \in Stages /\ who[h] \in Ids /\ seen[h] \in RowType
             /\ rows[who[h]] # NoRow => rows[who[h]] \in RowType
  BY <1>0, <1>2 DEF HandlerOK, Stages
<1>3. CASE ReadCaps(h)
  <2>1. pc[h] = "readCaps" /\ pc[h] \in UpdateStages
    BY <1>3 DEF ReadCaps, UpdateStages
  <2> DEFINE c == IF Exists(who[h]) THEN rows[who[h]].caps ELSE NoCaps
  <2>2. c \in [CapFields -> Nat]
    BY <1>2, <2>1 DEF Exists, NoCaps, RowType
  <2>3. seen \in [Handlers -> RowType \cup {NoRow}] /\ minted \in 0..MaxKeys
    BY DEF IInv, TypeOK
  <2>4. seen' = [seen EXCEPT ![h].caps = c]
    BY <1>3 DEF ReadCaps
  <2>5. seen'[h] \in RowType /\ seen'[h].name = seen[h].name
    BY <1>2, <2>1, <2>2, <2>3, <2>4 DEF RowType
  <2>6. /\ seen' \in [Handlers -> RowType \cup {NoRow}]
        /\ \A g \in Handlers : g # h => seen'[g] = seen[g]
    BY <2>3, <2>4, <2>5
  <2>7. Kept
    BY <1>3 DEF ReadCaps, Kept, IInv, Table, KeysBelong, Live, Exists
  <2>8. "writeCaps" \in PCs /\ "writeCaps" \in UpdateStages
    BY DEF PCs, UpdateStages
  <2>9. /\ pc' = [pc EXCEPT ![h] = "writeCaps"] /\ minted' \in 0..MaxKeys
        /\ UNCHANGED <<nextId, now, who, req, due, ctx, served, alone>>
    BY <1>3, <2>3 DEF ReadCaps, Goto
  <2> QED
    BY <1>2, <2>1, <2>5, <2>6, <2>7, <2>8, <2>9, StageStep
<1>4. CASE WriteCaps(h)
  <2>1. pc[h] \in UpdateStages
    BY <1>4 DEF WriteCaps, UpdateStages
  <2>2. Merge(seen[h].caps, req[h].caps) \in [CapFields -> Nat]
    <3>1. seen[h].caps \in [CapFields -> Nat] /\ Partial(req[h].caps, CapFields, Nat)
      BY <1>2, <2>1, AccountsAssumption DEF RowType
    <3> QED
      BY ONLY <3>1, MergeType
  <2> DEFINE r == [rows[who[h]] EXCEPT !.caps = Merge(seen[h].caps, req[h].caps)]
  <2>3. rows[who[h]] # NoRow => r \in RowType /\ r.name = rows[who[h]].name /\ r.key = rows[who[h]].key
    BY <1>2, <2>1, <2>2 DEF RowType
  <2>4. /\ Put(who[h], r) /\ pc' = [pc EXCEPT ![h] = FromStatus(req[h])]
        /\ UNCHANGED <<nextId, minted, now, locals, ctx, served, alone>>
    BY <1>4 DEF WriteCaps, Goto
  <2> HIDE DEF r
  <2> QED
    BY <1>2, <2>1, <2>3, <2>4, WhereNext, WriteStep
<1>5. CASE WriteStatus(h)
  <2>1. pc[h] \in UpdateStages /\ req[h] \in Updates /\ req[h].status \in {"keep", "active", "disabled", "invalid"}
        /\ pc[h] = "status" /\ UNCHANGED <<nextId, minted, now, locals, ctx, served, alone>>
    BY <1>2, <1>5, AccountsAssumption DEF WriteStatus, UpdateStages
  <2>2. CASE req[h].status = "invalid"
    <3>1. rows' = rows /\ pc' = [pc EXCEPT ![h] = "refused"]
      BY <1>5, <2>2 DEF WriteStatus, Goto
    <3>2. Put(who[h], rows[who[h]])
      BY <1>0, <1>2, <2>1, <3>1 DEF Put
    <3>3. "refused" \in PCs /\ "refused" \notin UpdateStages
      BY DEF PCs, UpdateStages
    <3> QED
      BY <1>2, <2>1, <3>1, <3>2, <3>3, WriteStep
  <2>3. CASE req[h].status # "invalid" /\ req[h].status # "keep"
    <3> DEFINE r == [rows[who[h]] EXCEPT !.status = req[h].status]
    <3>1. rows[who[h]] # NoRow => r \in RowType /\ r.name = rows[who[h]].name /\ r.key = rows[who[h]].key
      BY <1>2, <2>1, <2>3 DEF RowType
    <3>2. Put(who[h], r) /\ pc' = [pc EXCEPT ![h] = FromRoute(req[h])]
      BY <1>5, <2>3 DEF WriteStatus, Goto
    <3> HIDE DEF r
    <3> QED
      BY <1>2, <2>1, <3>1, <3>2, WhereNext, WriteStep
  <2>4. req[h].status # "keep"
    BY <1>0, <2>1 DEF HandlerOK
  <2> QED
    BY <2>2, <2>3, <2>4
<1>6. CASE WriteRoute(h)
  <2>1. pc[h] \in UpdateStages
    BY <1>6 DEF WriteRoute, UpdateStages
  <2>2. Merge(seen[h].route, req[h].route) \in [RouteFields -> Values]
    <3>1. seen[h].route \in [RouteFields -> Values] /\ Partial(req[h].route, RouteFields, Values)
      BY <1>2, <2>1, AccountsAssumption DEF RowType
    <3> QED
      BY ONLY <3>1, MergeType
  <2> DEFINE r == IF seen[h].role = "admin" THEN rows[who[h]]
                  ELSE Routed(rows[who[h]], seen[h], req[h])
  <2>3. rows[who[h]] # NoRow => r \in RowType /\ r.name = rows[who[h]].name /\ r.key = rows[who[h]].key
    BY <1>2, <2>1, <2>2 DEF RowType, Routed
  <2>4. Put(who[h], r)
    BY <1>0, <1>2, <1>6, <2>1 DEF WriteRoute, Put
  <2>5. /\ pc' = [pc EXCEPT ![h] = FromRest(req[h])]
        /\ UNCHANGED <<nextId, minted, now, locals, ctx, served, alone>>
    BY <1>6 DEF WriteRoute, Goto
  <2> HIDE DEF r
  <2> QED
    BY <1>2, <2>1, <2>3, <2>4, <2>5, WhereNext, WriteStep
<1>7. CASE RegenerateKey(h)
  BY <1>7, KeyStep DEF RegenerateKey, Goto, Stages, UpdateStages
<1> QED
  BY <1>1, <1>3, <1>4, <1>5, <1>6, <1>7 DEF Update

LEMMA ExtendStep ==
  ASSUME IInv, NEW h \in Handlers, Extend(h)
  PROVE  IInv'
<1>0. HandlerOK(h) /\ rows \in [Ids -> RowType \cup {NoRow}] /\ due \in [Handlers -> Nat]
      /\ now \in Nat
  BY DEF IInv, TypeOK
<1>1. ASSUME NEW i \in Ids, NEW b \in Extends, BeginExtend(h, i, b) PROVE IInv'
  <2>1. ReadUser(h, i, b, "extend") /\ rows[i] \in RowType
    BY <1>0, <1>1 DEF BeginExtend, ReadUser, Exists
  <2>2. b.until \in Nat /\ Base(rows[i]) + b.days \in Nat
    <3>1. b.until \in Nat /\ b.days \in Nat
      BY AccountsAssumption
    <3>2. Base(rows[i]) \in Nat
      BY <1>0, <2>1 DEF Base, RowType
    <3> QED
      BY <3>1, <3>2
  <2>3. due' = [due EXCEPT ![h] = IF b.until # 0 THEN b.until ELSE Base(rows[i]) + b.days]
    BY <1>1 DEF BeginExtend
  <2>4. due' \in [Handlers -> Nat] /\ due' = [due EXCEPT ![h] = due'[h]]
    BY <1>0, <2>2, <2>3
  <2>5. "extend" \in PCs /\ "extend" \notin UpdateStages
    BY DEF PCs, UpdateStages
  <2> QED
    BY <2>1, <2>4, <2>5, ReadUserStep
<1>2. CASE WriteExpiry(h)
  <2> DEFINE r == [rows[who[h]] EXCEPT !.expiry = due[h], !.status = "active"]
  <2>1. pc[h] \in Stages /\ who[h] \in Ids
    BY <1>0, <1>2 DEF WriteExpiry, HandlerOK, Stages
  <2>2. rows[who[h]] # NoRow => r \in RowType /\ r.name = rows[who[h]].name /\ r.key = rows[who[h]].key
    BY <1>0, <2>1 DEF RowType
  <2>3. /\ Put(who[h], r) /\ pc' = [pc EXCEPT ![h] = "answer"]
        /\ UNCHANGED <<nextId, minted, now, locals, ctx, served, alone>>
    BY <1>2 DEF WriteExpiry, Goto
  <2>4. "answer" \in PCs /\ "answer" \notin UpdateStages
    BY DEF PCs, UpdateStages
  <2> HIDE DEF r
  <2> QED
    BY <2>1, <2>2, <2>3, <2>4, WriteStep
<1> QED
  BY <1>1, <1>2 DEF Extend

LEMMA DeleteStep ==
  ASSUME IInv, NEW h \in Handlers, Delete(h)
  PROVE  IInv'
<1>0. HandlerOK(h) /\ rows \in [Ids -> RowType \cup {NoRow}] /\ due \in [Handlers -> Nat]
      /\ seen \in [Handlers -> RowType \cup {NoRow}] /\ minted \in 0..MaxKeys
  BY DEF IInv, TypeOK
<1>1. ASSUME NEW i \in Ids, BeginDelete(h, i) PROVE IInv'
  <2>1. ReadUser(h, i, NoReq, "delete") /\ due' = due
    BY <1>1 DEF BeginDelete
  <2>2. due' \in [Handlers -> Nat] /\ due' = [due EXCEPT ![h] = due'[h]]
    BY <1>0, <2>1
  <2>3. "delete" \in PCs /\ "delete" \notin UpdateStages
    BY DEF PCs, UpdateStages
  <2> QED
    BY <2>1, <2>2, <2>3, ReadUserStep
<1>2. CASE DeleteRow(h)
  <2>1. pc[h] \in Stages /\ who[h] \in Ids /\ seen[h] \in RowType
    BY <1>0, <1>2 DEF DeleteRow, HandlerOK, Stages
  <2>2. Kept
    BY <1>2, <2>1 DEF DeleteRow, Kept, IInv, Table, KeysBelong, Live, Exists
  <2>3. /\ pc' = [pc EXCEPT ![h] = "answer"] /\ minted' \in 0..MaxKeys
        /\ UNCHANGED <<nextId, now, who, req, seen, due, ctx, served, alone>>
    BY <1>0, <1>2 DEF DeleteRow, Goto, locals
  <2>4. "answer" \in PCs /\ "answer" \notin UpdateStages
    BY DEF PCs, UpdateStages
  <2> QED
    BY <1>0, <2>1, <2>2, <2>3, <2>4, StageStep
<1> QED
  BY <1>1, <1>2 DEF Delete

LEMMA AnswerStep ==
  ASSUME IInv, NEW h \in Handlers, Answer(h)
  PROVE  IInv'
<1>1. /\ UNCHANGED <<rows, nextId, minted, now, ctx, served, alone>>
      /\ pc' = [pc EXCEPT ![h] = "idle"] /\ who' = [who EXCEPT ![h] = 0]
      /\ req' = [req EXCEPT ![h] = NoReq] /\ seen' = [seen EXCEPT ![h] = NoRow]
      /\ due' = [due EXCEPT ![h] = 0]
  BY DEF Answer, Finish, Goto, Permanent
<1>2. served' \in 0..MaxServed /\ alone' \in BOOLEAN /\ 0 \in 0..MaxId /\ 0 < nextId /\ 0 \notin Live
  BY <1>1, AccountsAssumption DEF IInv, TypeOK, Live, Ids
<1>3. "idle" \in PCs /\ "idle" \notin Stages /\ "idle" \notin UpdateStages
  BY DEF PCs, Stages, UpdateStages
<1> QED
  BY <1>1, <1>2, <1>3, EdgeStep

-----------------------------------------------------------------------------
(* Clients, the clock, a crash. *)

\* A step that leaves the rows and the handlers alone.
LEMMA ClientStep ==
  ASSUME IInv, NEW c \in Clients, Client(c)
  PROVE  IInv'
<1>1. UNCHANGED <<rows, nextId, minted, now, pc, locals, served, alone>>
  BY DEF Client, SubKeyAuth, Respond
<1>2. Table' /\ Live' = Live /\ rows' = rows
  BY <1>1 DEF IInv, Table, KeysBelong, Live, Exists
<1>3. PICK x \in [user : 0..MaxId, name : Names] :
        /\ ctx' = [ctx EXCEPT ![c] = x]
        /\ x.user < nextId
        /\ x.user \in Live => rows[x.user].name = x.name
  <2>1. ASSUME NEW i \in Ids, SubKeyAuth(c, i)
        PROVE  /\ ctx' = [ctx EXCEPT ![c] = [user |-> i, name |-> rows[i].name]]
               /\ [user |-> i, name |-> rows[i].name] \in [user : 0..MaxId, name : Names]
               /\ i < nextId
    <3>1. rows[i] # NoRow
      BY <2>1 DEF SubKeyAuth, Exists
    <3>2. rows \in [Ids -> RowType \cup {NoRow}] /\ nextId \in 1..(MaxId + 1)
          /\ \A j \in Ids : j >= nextId => rows[j] = NoRow
      BY DEF IInv, Table
    <3>3. i < nextId /\ i \in 0..MaxId /\ rows[i].name \in Names
      BY <3>1, <3>2, AccountsAssumption DEF Ids, RowType
    <3> QED
      BY <2>1, <3>3 DEF SubKeyAuth
  <2>2. CASE Respond(c)
    <3>1. NoCtx \in [user : 0..MaxId, name : Names] /\ NoCtx.user = 0 /\ 0 < nextId /\ 0 \notin Live
      BY AccountsAssumption DEF NoCtx, IInv, Table, Live, Ids
    <3>2. ctx' = [ctx EXCEPT ![c] = NoCtx]
      BY <2>2 DEF Respond
    <3> QED
      BY <3>1, <3>2
  <2> QED
    BY <2>1, <2>2 DEF Client
<1>4. \A g \in Handlers : HandlerOK(g)'
  BY <1>1 DEF IInv, HandlerOK, locals
<1>5. TypeOK'
  BY <1>1, <1>2, <1>3 DEF IInv, TypeOK, locals
<1>6. /\ \A d \in Clients : ctx'[d].user < nextId'
      /\ \A d \in Clients : ctx'[d].user \in Live' => rows'[ctx'[d].user].name = ctx'[d].name
  <2> SUFFICES ASSUME NEW d \in Clients
               PROVE  /\ ctx'[d].user < nextId'
                      /\ ctx'[d].user \in Live' => rows'[ctx'[d].user].name = ctx'[d].name
    OBVIOUS
  <2>1. ctx \in [Clients -> [user : 0..MaxId, name : Names]] /\ nextId' = nextId
    BY <1>1 DEF IInv, TypeOK
  <2>2. CASE d = c
    BY <1>2, <1>3, <2>1, <2>2
  <2>3. CASE d # c
    BY <1>2, <1>3, <2>1, <2>3 DEF IInv, NeverAnotherUser
  <2> QED
    BY <2>2, <2>3
<1>7. NeverAnotherUser'
  BY <1>1, <1>2, <1>6 DEF IInv, NeverAnotherUser, locals
<1> QED
  BY <1>2, <1>4, <1>5, <1>6, <1>7 DEF IInv

LEMMA TickStep ==
  ASSUME IInv, Tick \/ UNCHANGED vars
  PROVE  IInv'
<1>1. UNCHANGED <<rows, nextId, minted, pc, locals, ctx, served, alone>>
      /\ now' \in 0..MaxDay
  BY AccountsAssumption DEF Tick, vars, IInv, TypeOK
<1>2. Table' /\ Live' = Live
  BY <1>1 DEF IInv, Table, KeysBelong, Live, Exists
<1> QED
  BY <1>1, <1>2 DEF IInv, TypeOK, HandlerOK, NeverAnotherUser, locals

LEMMA CrashStep ==
  ASSUME IInv, Crash
  PROVE  IInv'
<1>1. UNCHANGED <<rows, nextId, minted, now, served, alone>>
  BY DEF Crash
<1>2. Table' /\ Live' = Live
  BY <1>1 DEF IInv, Table, KeysBelong, Live, Exists
<1>3. 0 \notin Live /\ 0 < nextId /\ NoCtx \in [user : 0..MaxId, name : Names] /\ NoCtx.user = 0
  BY AccountsAssumption DEF Live, Ids, IInv, Table, NoCtx
<1>4. TypeOK'
  BY <1>1, <1>2, <1>3, AccountsAssumption DEF Crash, IInv, TypeOK, PCs, Permanent
<1>5. \A g \in Handlers : HandlerOK(g)'
  BY <1>1, <1>3 DEF Crash, HandlerOK, Stages, UpdateStages
<1>6. \A c \in Clients : ctx'[c].user < nextId'
  BY <1>1, <1>3 DEF Crash
<1>7. NeverAnotherUser'
  BY <1>2, <1>3 DEF Crash, NeverAnotherUser
<1> QED
  BY <1>2, <1>4, <1>5, <1>6, <1>7 DEF IInv

LEMMA InvStep == IInv /\ [Next]_vars => IInv'
<1> SUFFICES ASSUME IInv, [Next]_vars PROVE IInv'
  OBVIOUS
<1>1. ASSUME NEW h \in Handlers, Create(h) \/ Update(h) \/ Extend(h) \/ Delete(h) \/ Answer(h)
      PROVE  IInv'
  BY <1>1, CreateStep, UpdateStep, ExtendStep, DeleteStep, AnswerStep
<1> QED
  BY <1>1, ClientStep, TickStep, CrashStep DEF Next

-----------------------------------------------------------------------------
\* The table stays well formed, with one user per name, however requests interleave
\* and wherever the gateway crashes.
THEOREM AccountTypes == Spec => []TypeOK
<1>1. IInv => TypeOK
  BY DEF IInv
<1> QED
  BY <1>1, InitHolds, InvStep, PTL DEF Spec

\* A key that was given out authenticates the user it was made for, or nobody.
THEOREM KeysStayWithTheirUser == Spec => []KeysBelong
<1>1. IInv => KeysBelong
  BY DEF IInv, Table
<1> QED
  BY <1>1, InitHolds, InvStep, PTL DEF Spec

\* No handler and no request in flight ever acts on another user than the one it
\* read, whoever is deleted and created meanwhile.
THEOREM ActsOnTheUserRead == Spec => []NeverAnotherUser
<1>1. IInv => NeverAnotherUser
  BY DEF IInv
<1> QED
  BY <1>1, InitHolds, InvStep, PTL DEF Spec

-----------------------------------------------------------------------------
(* Keys that were replaced. *)

\* Row i shows a key it, or another row, had before, a key just made, or none.
KeyKnown(i) ==
  rows'[i] # NoRow /\ rows'[i].key # NoKey =>
    rows'[i].key.n > minted \/ \E j \in Live : rows[j].key = rows'[i].key

LEMMA SameRowsKnown ==
  ASSUME NEW i \in Ids, rows' = rows
  PROVE  KeyKnown(i)
BY DEF KeyKnown, Live, Exists

LEMMA WriteKnown ==
  ASSUME Table, NEW w \in Ids, NEW r, Put(w, r), NEW i \in Ids,
         rows[w] # NoRow => r.key = rows[w].key
  PROVE  KeyKnown(i)
BY DEF KeyKnown, Put, Table, Live, Exists

LEMMA InstallKnown ==
  ASSUME IInv, NEW h \in Handlers, who[h] \in Ids, InstallKey(h), NEW i \in Ids
  PROVE  KeyKnown(i)
<1>1. minted \in Nat /\ rows \in [Ids -> RowType \cup {NoRow}]
  BY DEF IInv, TypeOK
<1>2. Put(who[h], [rows[who[h]] EXCEPT !.key = FreshKey(who[h])])
  BY DEF InstallKey, Target
<1>3. FreshKey(who[h]).n > minted
  BY <1>1 DEF FreshKey
<1>4. CASE i = who[h] /\ rows[i] # NoRow
  <2>1. rows[i] \in RowType
    BY <1>1, <1>4
  <2>2. rows'[i] = [rows[i] EXCEPT !.key = FreshKey(who[h])]
    BY <1>1, <1>2, <1>4 DEF Put
  <2>3. rows'[i].key = FreshKey(who[h])
    BY <2>1, <2>2 DEF RowType
  <2> QED
    BY <1>3, <2>3 DEF KeyKnown
<1>5. CASE ~(i = who[h] /\ rows[i] # NoRow)
  <2>1. rows'[i] = rows[i]
    BY <1>1, <1>2, <1>5 DEF Put
  <2> QED
    BY <2>1 DEF KeyKnown, Live, Exists
<1> QED
  BY <1>4, <1>5

LEMMA StepKnown ==
  ASSUME IInv, [Next]_vars, NEW i \in Ids
  PROVE  KeyKnown(i)
<1>0. Table /\ rows \in [Ids -> RowType \cup {NoRow}]
  BY DEF IInv, TypeOK
<1>1. ASSUME NEW h \in Handlers, pc[h] \in Stages
      PROVE  /\ who[h] \in Ids
             /\ rows[who[h]] # NoRow => rows[who[h]] \in RowType
  BY <1>0, <1>1 DEF IInv, HandlerOK
<1>2. ASSUME NEW h \in Handlers, Create(h) PROVE KeyKnown(i)
  <2>1. ASSUME NEW b \in Creates, InsertUser(h, b) PROVE KeyKnown(i)
    <3>1. rows' = [rows EXCEPT ![nextId] = NewRow(b)] /\ NewRow(b).key = NoKey
      BY <2>1 DEF InsertUser, NewId, NewRow
    <3> QED
      BY <1>0, <3>1 DEF KeyKnown, Live, Exists
  <2>2. ASSUME NEW b \in Creates, RefuseInsert(h, b) PROVE KeyKnown(i)
    BY <2>2, SameRowsKnown DEF RefuseInsert
  <2>3. CASE SetNewCaps(h)
    <3>1. pc[h] \in Stages /\ Put(who[h], [rows[who[h]] EXCEPT !.caps = req[h].caps])
      BY <2>3 DEF SetNewCaps, Stages
    <3> QED
      BY <1>0, <1>1, <3>1, WriteKnown DEF RowType
  <2>4. CASE SetNewKey(h)
    BY <1>1, <2>4, InstallKnown DEF SetNewKey, Stages
  <2> QED
    BY <1>2, <2>1, <2>2, <2>3, <2>4 DEF Create
<1>3. ASSUME NEW h \in Handlers, Update(h) PROVE KeyKnown(i)
  <2>1. CASE rows' = rows
    BY <2>1, SameRowsKnown
  <2>2. CASE WriteCaps(h)
    <3>1. pc[h] \in Stages
          /\ Put(who[h], [rows[who[h]] EXCEPT !.caps = Merge(seen[h].caps, req[h].caps)])
      BY <2>2 DEF WriteCaps, Stages, UpdateStages
    <3> QED
      BY <1>0, <1>1, <3>1, WriteKnown DEF RowType
  <2>3. CASE WriteStatus(h) /\ rows' # rows
    <3>1. pc[h] \in Stages /\ Put(who[h], [rows[who[h]] EXCEPT !.status = req[h].status])
      BY <2>3 DEF WriteStatus, Stages, UpdateStages
    <3> QED
      BY <1>0, <1>1, <3>1, WriteKnown DEF RowType
  <2>4. CASE WriteRoute(h) /\ rows' # rows
    <3>1. pc[h] \in Stages /\ Put(who[h], Routed(rows[who[h]], seen[h], req[h]))
      BY <2>4 DEF WriteRoute, Stages, UpdateStages
    <3> QED
      BY <1>0, <1>1, <3>1, WriteKnown DEF RowType, Routed
  <2>5. CASE RegenerateKey(h)
    BY <1>1, <2>5, InstallKnown DEF RegenerateKey, Stages, UpdateStages
  <2>6. ASSUME NEW j \in Ids, NEW b \in Updates, BeginUpdate(h, j, b) PROVE rows' = rows
    BY <2>6 DEF BeginUpdate, ReadUser
  <2>7. ReadCaps(h) => rows' = rows
    BY DEF ReadCaps
  <2> QED
    BY <1>3, <2>1, <2>2, <2>3, <2>4, <2>5, <2>6, <2>7 DEF Update
<1>4. ASSUME NEW h \in Handlers, Extend(h) PROVE KeyKnown(i)
  <2>1. ASSUME NEW j \in Ids, NEW b \in Extends, BeginExtend(h, j, b) PROVE rows' = rows
    BY <2>1 DEF BeginExtend, ReadUser
  <2>2. CASE WriteExpiry(h)
    <3>1. pc[h] \in Stages
          /\ Put(who[h], [rows[who[h]] EXCEPT !.expiry = due[h], !.status = "active"])
      BY <2>2 DEF WriteExpiry, Stages
    <3>2. rows[who[h]] # NoRow =>
            [rows[who[h]] EXCEPT !.expiry = due[h], !.status = "active"].key = rows[who[h]].key
      BY <1>1, <3>1 DEF RowType
    <3>3. who[h] \in Ids
      BY <1>1, <3>1
    <3> QED
      BY <1>0, <3>1, <3>2, <3>3, WriteKnown
  <2> QED
    BY <1>4, <2>1, <2>2, SameRowsKnown DEF Extend
<1>5. ASSUME NEW h \in Handlers, Delete(h) PROVE KeyKnown(i)
  <2>1. ASSUME NEW j \in Ids, BeginDelete(h, j) PROVE rows' = rows
    BY <2>1 DEF BeginDelete, ReadUser
  <2>2. CASE DeleteRow(h)
    BY <1>0, <2>2 DEF DeleteRow, KeyKnown, Live, Exists
  <2> QED
    BY <1>5, <2>1, <2>2, SameRowsKnown DEF Delete
<1>6. ASSUME NEW h \in Handlers, Answer(h) PROVE rows' = rows
  BY <1>6 DEF Answer
<1>7. ASSUME NEW c \in Clients, Client(c) PROVE rows' = rows
  BY <1>7 DEF Client, SubKeyAuth, Respond
<1>8. ASSUME Tick \/ Crash \/ UNCHANGED vars PROVE rows' = rows
  BY <1>8 DEF Tick, Crash, vars
<1> QED
  BY <1>2, <1>3, <1>4, <1>5, <1>6, <1>7, <1>8, SameRowsKnown DEF Next

\* A key that was replaced, or lost with its user, never works again, whatever edits
\* that read the user before were still under way.
THEOREM RevokedKeysStayDead == Spec => RevokedStaysDead
<1>1. ASSUME IInv, [Next]_vars PROVE \A i \in Ids : KeyKnown(i)
  BY <1>1, StepKnown
<1>2. IInv /\ [Next]_vars =>
        [\A i \in Ids : rows'[i] # NoRow /\ rows'[i].key # NoKey =>
           \/ rows'[i].key.n > minted
           \/ \E j \in Live : rows[j].key = rows'[i].key]_vars
  BY <1>1 DEF KeyKnown
<1> QED
  BY <1>2, InitHolds, InvStep, PTL DEF Spec, RevokedStaysDead

-----------------------------------------------------------------------------
(* Updates and extensions that are alone. *)

CapsDone(s, b) == [s EXCEPT !.caps = Merge(s.caps, b.caps)]
StatusDone(s, b) ==
  [CapsDone(s, b) EXCEPT !.status = IF b.status = "keep" THEN s.status ELSE b.status]
AllDone(s, b) ==
  [StatusDone(s, b) EXCEPT !.route = IF s.role = "admin" THEN s.route ELSE Merge(s.route, b.route)]

\* What the row of an update is at each stage, if nobody else is at work: s is the row that
\* was read, b the body.
Progress(l, row, s, b, k) ==
  /\ l \in {"readCaps", "writeCaps"} => row = s
  /\ l = "status" => row = CapsDone(s, b) /\ b.status # "keep"
  /\ l = "route" => row = StatusDone(s, b) /\ b.status # "invalid"
  /\ l = "key" => row = AllDone(s, b) /\ b.status # "invalid" /\ b.regenerate
  /\ l = "refused" => row = IF b.status = "invalid" THEN CapsDone(s, b) ELSE AllDone(s, b)
  /\ l = "answer" => row = IF b.regenerate THEN [AllDone(s, b) EXCEPT !.key = k] ELSE AllDone(s, b)

LEMMA MergeNothing ==
  ASSUME NEW F, NEW V, NEW old \in [F -> V], NEW new, DOMAIN new = {}
  PROVE  Merge(old, new) = old
BY DEF Merge

LEMMA AfterRoute ==
  ASSUME NEW s \in RowType, NEW b \in Updates, NEW k, b.status # "invalid"
  PROVE  Progress(FromRest(b), AllDone(s, b), s, b, k)
BY DEF Progress, FromRest, FromKey

LEMMA AfterStatus ==
  ASSUME NEW s \in RowType, NEW b \in Updates, NEW k, b.status # "invalid"
  PROVE  Progress(FromRoute(b), StatusDone(s, b), s, b, k)
<1>1. CASE DOMAIN b.route # {}
  BY <1>1 DEF FromRoute, Progress
<1>2. CASE DOMAIN b.route = {}
  <2>1. s.route \in [RouteFields -> Values]
    BY DEF RowType
  <2>2. Merge(s.route, b.route) = s.route
    BY <1>2, <2>1, MergeNothing
  <2>3. StatusDone(s, b).route = s.route /\ StatusDone(s, b) = [StatusDone(s, b) EXCEPT !.route = s.route]
    BY DEF StatusDone, CapsDone, RowType
  <2>4. AllDone(s, b) = StatusDone(s, b)
    BY <2>2, <2>3 DEF AllDone
  <2> QED
    BY <1>2, <2>4, AfterRoute DEF FromRoute
<1> QED
  BY <1>1, <1>2

LEMMA AfterCaps ==
  ASSUME NEW s \in RowType, NEW b \in Updates, NEW k
  PROVE  Progress(FromStatus(b), CapsDone(s, b), s, b, k)
<1>1. CASE b.status # "keep"
  BY <1>1 DEF FromStatus, Progress
<1>2. CASE b.status = "keep"
  <2>1. CapsDone(s, b).status = s.status /\ CapsDone(s, b) = [CapsDone(s, b) EXCEPT !.status = s.status]
    BY DEF CapsDone, RowType
  <2>2. StatusDone(s, b) = CapsDone(s, b)
    BY <1>2, <2>1 DEF StatusDone
  <2> QED
    BY <1>2, <2>2, AfterStatus DEF FromStatus
<1> QED
  BY <1>1, <1>2

LEMMA AfterReading ==
  ASSUME NEW s \in RowType, NEW b \in Updates, NEW k
  PROVE  Progress(FromCaps(b), s, s, b, k)
<1>1. CASE DOMAIN b.caps # {}
  BY <1>1 DEF FromCaps, Progress
<1>2. CASE DOMAIN b.caps = {}
  <2>1. s.caps \in [CapFields -> Nat] /\ s = [s EXCEPT !.caps = s.caps]
    BY DEF RowType
  <2>2. CapsDone(s, b) = s
    BY <1>2, <2>1, MergeNothing DEF CapsDone
  <2> QED
    BY <1>2, <2>2, AfterCaps DEF FromCaps
<1> QED
  BY <1>1, <1>2

LEMMA StagesTyped ==
  ASSUME NEW s \in RowType, NEW b \in Updates
  PROVE  /\ CapsDone(s, b) \in RowType
         /\ b.status # "invalid" => StatusDone(s, b) \in RowType /\ AllDone(s, b) \in RowType
<1>1. Merge(s.caps, b.caps) \in [CapFields -> Nat]
  <2>1. s.caps \in [CapFields -> Nat] /\ Partial(b.caps, CapFields, Nat)
    BY AccountsAssumption DEF RowType
  <2> QED
    BY ONLY <2>1, MergeType
<1>2. Merge(s.route, b.route) \in [RouteFields -> Values]
  <2>1. s.route \in [RouteFields -> Values] /\ Partial(b.route, RouteFields, Values)
    BY AccountsAssumption DEF RowType
  <2> QED
    BY ONLY <2>1, MergeType
<1>3. CapsDone(s, b) \in RowType
  BY <1>1 DEF CapsDone, RowType
<1>4. ASSUME b.status # "invalid" PROVE StatusDone(s, b) \in RowType /\ AllDone(s, b) \in RowType
  <2>1. b.status \in {"keep", "active", "disabled"}
    BY <1>4, AccountsAssumption
  <2>2. StatusDone(s, b) \in RowType
    BY <1>3, <2>1 DEF StatusDone, RowType
  <2> QED
    BY <1>2, <2>2 DEF AllDone, RowType
<1> QED
  BY <1>3, <1>4

\* What an update has done so far, if nobody else is at work.
Promise(h) ==
  /\ who[h] \in Ids /\ rows[who[h]] \in RowType /\ seen[h] \in RowType
  /\ Progress(pc[h], rows[who[h]], seen[h], req[h], [user |-> who[h], n |-> minted])

\* What an extension is about to write, if nobody else is at work.
Computed(h) ==
  /\ who[h] \in Ids /\ rows[who[h]] \in RowType
  /\ req[h].until = 0 /\ rows[who[h]].expiry # Permanent =>
       due[h] = rows[who[h]].expiry + req[h].days

Sound(h) ==
  /\ pc[h] \in {"newCaps", "newKey"} => req[h] \in Creates
  /\ pc[h] = "extend" => req[h] \in Extends
  /\ pc[h] = "delete" => req[h] = NoReq
  /\ alone /\ pc[h] # "idle" =>
       /\ \A g \in Handlers : g # h => pc[g] = "idle"
       /\ req[h] \in Updates /\ pc[h] # "conflict" => Promise(h)
       /\ pc[h] = "extend" => Computed(h)

\* The inductive invariant of what is promised to a request that is alone.
AloneInv == \A h \in Handlers : Sound(h)

\* It is enough to look at the handler that takes a step.
LEMMA OneHandler ==
  ASSUME TypeOK, AloneInv, NEW h \in Handlers, NEW l, pc' = [pc EXCEPT ![h] = l],
         NEW q, req' = [req EXCEPT ![h] = q],
         \/ alone' = alone /\ pc[h] # "idle"
         \/ alone' = (\A g \in Handlers : pc[g] = "idle"),
         Sound(h)'
  PROVE  AloneInv'
<1> SUFFICES ASSUME NEW g \in Handlers, g # h PROVE Sound(g)'
  BY DEF AloneInv
<1>1. pc'[g] = pc[g] /\ req'[g] = req[g]
  BY DEF TypeOK
<1>2. Sound(h) /\ Sound(g)
  BY DEF AloneInv
<1>3. alone' => pc[g] = "idle"
  BY <1>2 DEF Sound
<1> QED
  BY <1>1, <1>2, <1>3 DEF Sound

LEMMA WhereUpdates ==
  ASSUME NEW b \in Updates
  PROVE  /\ FromCaps(b) \in UpdateStages \cup {"refused", "answer"}
         /\ FromStatus(b) \in UpdateStages \cup {"refused", "answer"}
         /\ FromRoute(b) \in UpdateStages \cup {"refused", "answer"}
         /\ FromRest(b) \in UpdateStages \cup {"refused", "answer"}
BY DEF FromCaps, FromStatus, FromRoute, FromRest, FromKey, UpdateStages

\* A step of an update that goes on at l with the row as r.
LEMMA UpdateSound ==
  ASSUME IInv, AloneInv, NEW h \in Handlers, pc[h] \in UpdateStages,
         NEW l \in UpdateStages \cup {"refused", "answer"}, pc' = [pc EXCEPT ![h] = l],
         UNCHANGED <<who, req, alone>>, NEW r,
         alone => /\ Put(who[h], r)
                  /\ seen'[h] = seen[h]
                  /\ r \in RowType
                  /\ Progress(l, r, seen[h], req[h], [user |-> who[h], n |-> minted'])
  PROVE  AloneInv'
<1>1. /\ HandlerOK(h) /\ Sound(h) /\ rows \in [Ids -> RowType \cup {NoRow}]
      /\ pc \in [Handlers -> PCs] /\ req \in [Handlers -> Creates \cup Updates \cup Extends \cup {NoReq}]
      /\ TypeOK
  BY DEF IInv, AloneInv, TypeOK
<1>2. req[h] \in Updates /\ pc[h] \notin {"idle", "conflict"}
  BY <1>1 DEF HandlerOK, UpdateStages
<1>3. pc'[h] = l /\ l \notin {"newCaps", "newKey", "extend", "delete", "idle", "conflict"}
  BY <1>1 DEF UpdateStages
<1>4. ASSUME alone PROVE Promise(h)'
  <2>1. Promise(h) /\ who'[h] = who[h] /\ req'[h] = req[h]
    BY <1>1, <1>2, <1>4 DEF Sound
  <2>2. rows[who[h]] # NoRow /\ who[h] \in Ids /\ seen[h] \in RowType
    BY <2>1, RowAssumption DEF Promise
  <2>3. rows'[who[h]] = r
    BY <1>1, <1>4, <2>2 DEF Put
  <2> QED
    BY <1>3, <1>4, <2>1, <2>2, <2>3 DEF Promise
<1>5. \A g \in Handlers : g # h => pc'[g] = pc[g]
  BY <1>1
<1>6. Sound(h)'
  BY <1>1, <1>2, <1>3, <1>4, <1>5 DEF Sound
<1>7. req' = [req EXCEPT ![h] = req[h]]
  BY <1>1
<1> QED
  BY <1>1, <1>2, <1>6, <1>7, OneHandler

LEMMA UpdateAlone ==
  ASSUME IInv, AloneInv, NEW h \in Handlers, Update(h)
  PROVE  AloneInv'
<1>0. /\ HandlerOK(h) /\ Sound(h) /\ TypeOK /\ rows \in [Ids -> RowType \cup {NoRow}]
      /\ seen \in [Handlers -> RowType \cup {NoRow}] /\ who \in [Handlers -> 0..MaxId]
      /\ pc \in [Handlers -> PCs] /\ req \in [Handlers -> Creates \cup Updates \cup Extends \cup {NoReq}]
  BY DEF IInv, AloneInv, TypeOK
<1> DEFINE s == seen[h]
           b == req[h]
           k == [user |-> who[h], n |-> minted']
<1>1. ASSUME NEW i \in Ids, NEW c \in Updates, BeginUpdate(h, i, c) PROVE AloneInv'
  <2>1. /\ rows[i] # NoRow /\ rows[i] \in RowType /\ rows' = rows /\ i \in Ids
        /\ pc' = [pc EXCEPT ![h] = FromCaps(c)] /\ req' = [req EXCEPT ![h] = c]
        /\ seen' = [seen EXCEPT ![h] = rows[i]] /\ who' = [who EXCEPT ![h] = i]
        /\ alone' = (\A g \in Handlers : pc[g] = "idle")
    BY <1>0, <1>1 DEF BeginUpdate, ReadUser, Exists, Goto, Begins
  <2>2. FromCaps(c) \in UpdateStages \cup {"refused", "answer"}
    BY WhereUpdates
  <2>3. Progress(FromCaps(c), rows[i], rows[i], c, [user |-> i, n |-> minted'])
    BY <2>1, AfterReading
  <2>4. pc'[h] = FromCaps(c) /\ req'[h] = c /\ seen'[h] = rows[i] /\ who'[h] = i /\ rows'[i] = rows[i]
    BY <1>0, <2>1
  <2>5. Promise(h)'
    BY <2>1, <2>3, <2>4 DEF Promise
  <2>6. alone' => \A g \in Handlers : g # h => pc'[g] = "idle"
    BY <1>0, <2>1
  <2>7. pc'[h] \notin {"newCaps", "newKey", "extend", "delete"}
    BY <2>2, <2>4 DEF UpdateStages
  <2>8. Sound(h)'
    BY <2>5, <2>6, <2>7 DEF Sound
  <2> QED
    BY <1>0, <2>1, <2>8, OneHandler
<1>2. ASSUME pc[h] \in UpdateStages
      PROVE  /\ b \in Updates
             /\ alone => Promise(h)
             /\ alone => rows[who[h]] \in RowType /\ s \in RowType /\ who[h] \in Ids
             /\ alone => Progress(pc[h], rows[who[h]], s, b, [user |-> who[h], n |-> minted])
  <2>1. b \in Updates /\ pc[h] \notin {"idle", "conflict"}
    BY <1>0, <1>2 DEF HandlerOK, UpdateStages
  <2>2. alone => Promise(h)
    BY <1>0, <2>1 DEF Sound
  <2> QED
    BY <2>1, <2>2 DEF Promise
<1>3. CASE ReadCaps(h)
  <2>1. /\ pc[h] = "readCaps" /\ pc[h] \in UpdateStages /\ rows' = rows /\ minted' = minted
        /\ pc' = [pc EXCEPT ![h] = "writeCaps"] /\ UNCHANGED <<who, req, alone>>
        /\ seen' = [seen EXCEPT ![h].caps = IF Exists(who[h]) THEN rows[who[h]].caps ELSE NoCaps]
        /\ "writeCaps" \in UpdateStages
    BY <1>3 DEF ReadCaps, Goto, UpdateStages
  <2>2. ASSUME alone
        PROVE  /\ Put(who[h], s) /\ seen'[h] = s /\ s \in RowType
               /\ Progress("writeCaps", s, s, b, k)
    <3>1. rows[who[h]] = s /\ s \in RowType /\ who[h] \in Ids /\ s # NoRow
      BY <1>2, <2>1, <2>2, RowAssumption DEF Progress
    <3>2. s = [s EXCEPT !.caps = s.caps]
      BY <3>1 DEF RowType
    <3>3. seen'[h] = s
      BY <1>0, <2>1, <3>1, <3>2 DEF Exists
    <3>4. Put(who[h], s)
      BY <1>0, <2>1, <3>1 DEF Put
    <3>5. Progress("writeCaps", s, s, b, k)
      BY DEF Progress
    <3> QED
      BY <3>1, <3>3, <3>4, <3>5
  <2> QED
    BY <2>1, <2>2, UpdateSound
<1>4. CASE WriteCaps(h)
  <2>1. /\ pc[h] = "writeCaps" /\ pc[h] \in UpdateStages
        /\ pc' = [pc EXCEPT ![h] = FromStatus(b)] /\ UNCHANGED <<who, req, alone, seen>>
        /\ Put(who[h], [rows[who[h]] EXCEPT !.caps = Merge(s.caps, b.caps)])
    BY <1>4 DEF WriteCaps, Goto, UpdateStages, locals
  <2>2. FromStatus(b) \in UpdateStages \cup {"refused", "answer"}
    BY <1>2, <2>1, WhereUpdates
  <2>3. ASSUME alone
        PROVE  /\ Put(who[h], CapsDone(s, b)) /\ CapsDone(s, b) \in RowType
               /\ Progress(FromStatus(b), CapsDone(s, b), s, b, k)
    <3>1. rows[who[h]] = s /\ s \in RowType /\ b \in Updates
      BY <1>2, <2>1, <2>3 DEF Progress
    <3>2. Put(who[h], CapsDone(s, b))
      BY <2>1, <3>1 DEF CapsDone
    <3> QED
      BY <3>1, <3>2, AfterCaps, StagesTyped
  <2> QED
    BY <2>1, <2>2, <2>3, UpdateSound
<1>5. CASE WriteStatus(h) /\ b.status = "invalid"
  <2>1. /\ pc[h] = "status" /\ pc[h] \in UpdateStages
        /\ pc' = [pc EXCEPT ![h] = "refused"] /\ UNCHANGED <<who, req, alone, seen, rows>>
    BY <1>5 DEF WriteStatus, Goto, UpdateStages, locals
  <2>2. ASSUME alone
        PROVE  /\ Put(who[h], CapsDone(s, b)) /\ CapsDone(s, b) \in RowType
               /\ Progress("refused", CapsDone(s, b), s, b, k)
    <3>1. rows[who[h]] = CapsDone(s, b) /\ s \in RowType /\ b \in Updates /\ who[h] \in Ids
      BY <1>2, <2>1, <2>2 DEF Progress
    <3>2. Put(who[h], CapsDone(s, b))
      BY <1>0, <2>1, <3>1 DEF Put
    <3>3. Progress("refused", CapsDone(s, b), s, b, k)
      BY <1>5 DEF Progress
    <3> QED
      BY <3>1, <3>2, <3>3, StagesTyped
  <2> QED
    BY <2>1, <2>2, UpdateSound
<1>6. CASE WriteStatus(h) /\ b.status # "invalid"
  <2>1. /\ pc[h] = "status" /\ pc[h] \in UpdateStages
        /\ pc' = [pc EXCEPT ![h] = FromRoute(b)] /\ UNCHANGED <<who, req, alone, seen>>
        /\ Put(who[h], [rows[who[h]] EXCEPT !.status = b.status])
    BY <1>6 DEF WriteStatus, Goto, UpdateStages, locals
  <2>2. FromRoute(b) \in UpdateStages \cup {"refused", "answer"}
    BY <1>2, <2>1, WhereUpdates
  <2>3. ASSUME alone
        PROVE  /\ Put(who[h], StatusDone(s, b)) /\ StatusDone(s, b) \in RowType
               /\ Progress(FromRoute(b), StatusDone(s, b), s, b, k)
    <3>1. rows[who[h]] = CapsDone(s, b) /\ b.status # "keep" /\ s \in RowType /\ b \in Updates
      BY <1>2, <2>1, <2>3 DEF Progress
    <3>2. Put(who[h], StatusDone(s, b))
      BY <2>1, <3>1 DEF StatusDone
    <3> QED
      BY <1>6, <3>1, <3>2, AfterStatus, StagesTyped
  <2> QED
    BY <2>1, <2>2, <2>3, UpdateSound
<1>7. CASE WriteRoute(h)
  <2>1. /\ pc[h] = "route" /\ pc[h] \in UpdateStages
        /\ pc' = [pc EXCEPT ![h] = FromRest(b)] /\ UNCHANGED <<who, req, alone, seen>>
        /\ IF s.role = "admin" THEN UNCHANGED rows
           ELSE Put(who[h], Routed(rows[who[h]], s, b))
    BY <1>7 DEF WriteRoute, Goto, UpdateStages, locals
  <2>2. FromRest(b) \in UpdateStages \cup {"refused", "answer"}
    BY <1>2, <2>1, WhereUpdates
  <2>3. ASSUME alone
        PROVE  /\ Put(who[h], AllDone(s, b)) /\ AllDone(s, b) \in RowType
               /\ Progress(FromRest(b), AllDone(s, b), s, b, k)
    <3>1. /\ rows[who[h]] = StatusDone(s, b) /\ b.status # "invalid" /\ s \in RowType /\ b \in Updates
          /\ who[h] \in Ids
      BY <1>2, <2>1, <2>3 DEF Progress
    <3>2. StatusDone(s, b) \in RowType /\ StatusDone(s, b).route = s.route
      BY <3>1, StagesTyped DEF StatusDone, CapsDone, RowType
    <3>3. CASE s.role = "admin"
      <4>1. AllDone(s, b) = [StatusDone(s, b) EXCEPT !.route = s.route]
        BY <3>3 DEF AllDone
      <4>2. AllDone(s, b) = StatusDone(s, b)
        BY <3>2, <4>1 DEF RowType
      <4>3. Put(who[h], AllDone(s, b))
        BY <1>0, <2>1, <3>1, <3>3, <4>2 DEF Put
      <4> QED
        BY <3>1, <4>3, AfterRoute, StagesTyped
    <3>4. CASE s.role # "admin"
      <4>1. AllDone(s, b) = Routed(StatusDone(s, b), s, b)
        BY <3>4 DEF AllDone, Routed
      <4> QED
        BY <2>1, <3>1, <3>4, <4>1, AfterRoute, StagesTyped
    <3> QED
      BY <3>3, <3>4
  <2> QED
    BY <2>1, <2>2, <2>3, UpdateSound
<1>8. CASE RegenerateKey(h)
  <2>1. /\ pc[h] = "key" /\ pc[h] \in UpdateStages /\ minted' = minted + 1
        /\ pc' = [pc EXCEPT ![h] = "answer"] /\ UNCHANGED <<who, req, alone, seen>>
        /\ Put(who[h], [rows[who[h]] EXCEPT !.key = k])
    BY <1>8 DEF RegenerateKey, InstallKey, Target, FreshKey, Goto, UpdateStages, locals
  <2>2. ASSUME alone
        PROVE  /\ Put(who[h], [AllDone(s, b) EXCEPT !.key = k])
               /\ [AllDone(s, b) EXCEPT !.key = k] \in RowType
               /\ Progress("answer", [AllDone(s, b) EXCEPT !.key = k], s, b, k)
    <3>1. /\ rows[who[h]] = AllDone(s, b) /\ b.regenerate /\ AllDone(s, b) \in RowType
          /\ who[h] \in Ids
      BY <1>2, <2>1, <2>2 DEF Progress
    <3>2. k \in KeyType
      BY <1>0, <1>8, <2>1, <3>1, AccountsAssumption DEF RegenerateKey, InstallKey, KeyType, TypeOK, Ids
    <3>3. [AllDone(s, b) EXCEPT !.key = k] \in RowType
      BY <3>1, <3>2 DEF RowType
    <3>4. Progress("answer", [AllDone(s, b) EXCEPT !.key = k], s, b, k)
      BY <3>1 DEF Progress
    <3> QED
      BY <2>1, <3>1, <3>3, <3>4
  <2> QED
    BY <2>1, <2>2, UpdateSound
<1> QED
  BY <1>1, <1>3, <1>4, <1>5, <1>6, <1>7, <1>8 DEF Update

LEMMA CreateAlone ==
  ASSUME IInv, AloneInv, NEW h \in Handlers, Create(h)
  PROVE  AloneInv'
<1>0. /\ Sound(h) /\ TypeOK /\ pc \in [Handlers -> PCs]
      /\ req \in [Handlers -> Creates \cup Updates \cup Extends \cup {NoReq}]
  BY DEF IInv, AloneInv, TypeOK
<1>1. ASSUME NEW b \in Creates, InsertUser(h, b) PROVE AloneInv'
  <2>1. /\ req' = [req EXCEPT ![h] = b] /\ alone' = (\A g \in Handlers : pc[g] = "idle")
        /\ \E l \in {"refused", "newKey", "newCaps"} : pc' = [pc EXCEPT ![h] = l]
    BY <1>1 DEF InsertUser, Begins, Goto
  <2>2. PICK l \in {"refused", "newKey", "newCaps"} : pc' = [pc EXCEPT ![h] = l]
    BY <2>1
  <2>3. Sound(h)'
    BY <1>0, <2>1, <2>2, BodyAssumption DEF Sound
  <2> QED
    BY <1>0, <2>1, <2>2, <2>3, OneHandler
<1>2. ASSUME NEW b \in Creates, RefuseInsert(h, b) PROVE AloneInv'
  <2>1. /\ req' = [req EXCEPT ![h] = req[h]] /\ pc' = [pc EXCEPT ![h] = "conflict"]
        /\ alone' = (\A g \in Handlers : pc[g] = "idle")
    BY <1>0, <1>2 DEF RefuseInsert, Begins, Goto
  <2>2. Sound(h)'
    BY <1>0, <2>1 DEF Sound
  <2> QED
    BY <1>0, <2>1, <2>2, OneHandler
<1>3. CASE SetNewCaps(h) \/ SetNewKey(h)
  <2>1. /\ pc[h] \in {"newCaps", "newKey"} /\ req' = req /\ alone' = alone
        /\ req' = [req EXCEPT ![h] = req[h]]
        /\ \E l \in {"newKey", "answer"} : pc' = [pc EXCEPT ![h] = l]
    BY <1>0, <1>3 DEF SetNewCaps, SetNewKey, Goto, locals
  <2>2. PICK l \in {"newKey", "answer"} : pc' = [pc EXCEPT ![h] = l]
    BY <2>1
  <2>3. Sound(h)'
    BY <1>0, <2>1, <2>2, BodyAssumption DEF Sound
  <2> QED
    BY <1>0, <2>1, <2>2, <2>3, OneHandler
<1> QED
  BY <1>1, <1>2, <1>3 DEF Create

LEMMA ExtendAlone ==
  ASSUME IInv, AloneInv, NEW h \in Handlers, Extend(h)
  PROVE  AloneInv'
<1>0. /\ Sound(h) /\ TypeOK /\ pc \in [Handlers -> PCs] /\ who \in [Handlers -> 0..MaxId]
      /\ req \in [Handlers -> Creates \cup Updates \cup Extends \cup {NoReq}]
      /\ due \in [Handlers -> Nat] /\ rows \in [Ids -> RowType \cup {NoRow}]
  BY DEF IInv, AloneInv, TypeOK
<1>1. ASSUME NEW i \in Ids, NEW b \in Extends, BeginExtend(h, i, b) PROVE AloneInv'
  <2>1. /\ req' = [req EXCEPT ![h] = b] /\ pc' = [pc EXCEPT ![h] = "extend"]
        /\ who' = [who EXCEPT ![h] = i] /\ rows' = rows /\ rows[i] \in RowType
        /\ alone' = (\A g \in Handlers : pc[g] = "idle")
        /\ due' = [due EXCEPT ![h] = IF b.until # 0 THEN b.until ELSE Base(rows[i]) + b.days]
    BY <1>0, <1>1 DEF BeginExtend, ReadUser, Exists, Begins, Goto
  <2>2. Computed(h)'
    BY <1>0, <2>1 DEF Computed, Base
  <2>3. Sound(h)'
    BY <1>0, <2>1, <2>2, BodyAssumption DEF Sound
  <2> QED
    BY <1>0, <2>1, <2>3, OneHandler
<1>2. CASE WriteExpiry(h)
  <2>1. /\ pc[h] = "extend" /\ req' = [req EXCEPT ![h] = req[h]] /\ req' = req /\ alone' = alone
        /\ pc' = [pc EXCEPT ![h] = "answer"]
    BY <1>0, <1>2 DEF WriteExpiry, Goto, locals
  <2>2. Sound(h)'
    BY <1>0, <2>1, BodyAssumption DEF Sound
  <2> QED
    BY <1>0, <2>1, <2>2, OneHandler
<1> QED
  BY <1>1, <1>2 DEF Extend

LEMMA DeleteAlone ==
  ASSUME IInv, AloneInv, NEW h \in Handlers, Delete(h)
  PROVE  AloneInv'
<1>0. /\ Sound(h) /\ TypeOK /\ pc \in [Handlers -> PCs]
      /\ req \in [Handlers -> Creates \cup Updates \cup Extends \cup {NoReq}]
  BY DEF IInv, AloneInv, TypeOK
<1>1. ASSUME NEW i \in Ids, BeginDelete(h, i) PROVE AloneInv'
  <2>1. /\ req' = [req EXCEPT ![h] = NoReq] /\ pc' = [pc EXCEPT ![h] = "delete"]
        /\ alone' = (\A g \in Handlers : pc[g] = "idle")
    BY <1>1 DEF BeginDelete, ReadUser, Begins, Goto
  <2>2. Sound(h)'
    BY <1>0, <2>1, BodyAssumption DEF Sound
  <2> QED
    BY <1>0, <2>1, <2>2, OneHandler
<1>2. CASE DeleteRow(h)
  <2>1. /\ pc[h] = "delete" /\ req' = [req EXCEPT ![h] = req[h]] /\ req' = req /\ alone' = alone
        /\ pc' = [pc EXCEPT ![h] = "answer"]
    BY <1>0, <1>2 DEF DeleteRow, Goto, locals
  <2>2. Sound(h)'
    BY <1>0, <2>1, BodyAssumption DEF Sound
  <2> QED
    BY <1>0, <2>1, <2>2, OneHandler
<1> QED
  BY <1>1, <1>2 DEF Delete

LEMMA AloneStep == IInv /\ AloneInv /\ [Next]_vars => AloneInv'
<1> SUFFICES ASSUME IInv, AloneInv, [Next]_vars PROVE AloneInv'
  OBVIOUS
<1>1. ASSUME NEW h \in Handlers, Answer(h) PROVE AloneInv'
  <2>1. /\ TypeOK /\ pc \in [Handlers -> PCs] /\ pc[h] # "idle" /\ alone' = alone
        /\ pc' = [pc EXCEPT ![h] = "idle"] /\ req' = [req EXCEPT ![h] = NoReq]
    BY <1>1 DEF Answer, Finish, Goto, IInv, TypeOK
  <2>2. Sound(h)'
    BY <2>1 DEF Sound
  <2> QED
    BY <2>1, <2>2, OneHandler
<1>2. ASSUME UNCHANGED <<rows, minted, pc, who, req, seen, due, alone>> PROVE AloneInv'
  BY <1>2 DEF AloneInv, Sound, Promise, Computed
<1>3. ASSUME NEW c \in Clients, Client(c) PROVE AloneInv'
  BY <1>2, <1>3 DEF Client, SubKeyAuth, Respond, locals
<1>4. CASE Tick \/ UNCHANGED vars
  BY <1>2, <1>4 DEF Tick, vars, locals
<1>5. CASE Crash
  BY <1>5 DEF Crash, AloneInv, Sound
<1> QED
  BY <1>1, <1>3, <1>4, <1>5, CreateAlone, UpdateAlone, ExtendAlone, DeleteAlone DEF Next

LEMMA AloneInit == Init => AloneInv
BY DEF Init, AloneInv, Sound

LEMMA AloneApplied == IInv /\ AloneInv => AloneUpdateApplies
<1> SUFFICES ASSUME IInv, AloneInv, NEW h \in Handlers, alone, req[h] \in Updates,
                    pc[h] \in {"answer", "refused"}
             PROVE  LET row == rows[who[h]] IN
                    /\ pc[h] = "answer" =>
                         /\ row = [Applied(seen[h], req[h]) EXCEPT !.key = row.key]
                         /\ row.key = IF req[h].regenerate THEN [user |-> who[h], n |-> minted]
                                      ELSE seen[h].key
                    /\ pc[h] = "refused" => row = AppliedBefore(seen[h], req[h])
  BY DEF AloneUpdateApplies
<1> DEFINE row == rows[who[h]]
           s == seen[h]
           b == req[h]
           k == [user |-> who[h], n |-> minted]
<1>1. row \in RowType /\ s \in RowType /\ Progress(pc[h], row, s, b, k)
  BY DEF AloneInv, Sound, Promise
<1>2. Applied(s, b) = AllDone(s, b) /\ AllDone(s, b).key = s.key
  BY <1>1 DEF Applied, AllDone, StatusDone, CapsDone, RowType
<1>3. CASE pc[h] = "refused"
  BY <1>1, <1>2, <1>3 DEF Progress, AppliedBefore, CapsDone
<1>4. CASE pc[h] = "answer" /\ b.regenerate
  <2>1. row = [AllDone(s, b) EXCEPT !.key = k]
    BY <1>1, <1>4 DEF Progress
  <2>2. row.key = k
    BY <1>1, <2>1 DEF AllDone, StatusDone, CapsDone, RowType
  <2> QED
    BY <1>2, <1>4, <2>1, <2>2
<1>5. CASE pc[h] = "answer" /\ ~b.regenerate
  <2>1. row = AllDone(s, b)
    BY <1>1, <1>5 DEF Progress
  <2>2. row = [AllDone(s, b) EXCEPT !.key = row.key]
    BY <1>1, <2>1 DEF RowType
  <2> QED
    BY <1>2, <1>5, <2>1, <2>2
<1> QED
  BY <1>3, <1>4, <1>5

\* An update that no other admin request overlaps does what it promises, and one that
\* is refused halfway leaves in force what came before the refusal and nothing else.
THEOREM UpdatesApplyAlone == Spec => []AloneUpdateApplies
BY InitHolds, InvStep, AloneInit, AloneStep, AloneApplied, PTL DEF Spec

\* An extension by days that no other admin request overlaps adds them to the expiry
\* the user has at that moment.
THEOREM ExtensionsAddAlone == Spec => AloneExtensionAdds
<1>1. ASSUME IInv, AloneInv, [Next]_vars, NEW h \in Handlers, alone, pc[h] = "extend",
             pc'[h] = "answer", req[h].until = 0, rows[who[h]].expiry # Permanent
      PROVE  rows'[who[h]].expiry = rows[who[h]].expiry + req[h].days
  <2>1. Computed(h) /\ \A g \in Handlers : g # h => pc[g] = "idle"
    BY <1>1 DEF AloneInv, Sound
  <2>2. pc \in [Handlers -> PCs] /\ rows \in [Ids -> RowType \cup {NoRow}]
    BY <1>1 DEF IInv, TypeOK
  <2>3. WriteExpiry(h)
    <3>1. ASSUME NEW g \in Handlers, Create(g) \/ Update(g) \/ Delete(g) \/ Answer(g)
          PROVE  FALSE
      BY <1>1, <2>2, <3>1
         DEF Create, Update, Delete, Answer, InsertUser, RefuseInsert, SetNewCaps, SetNewKey,
             BeginUpdate, ReadUser, ReadCaps, WriteCaps, WriteStatus, WriteRoute, RegenerateKey,
             BeginDelete, DeleteRow, Finish, Goto, Begins
    <3>2. ASSUME NEW g \in Handlers, Extend(g) PROVE WriteExpiry(h)
      BY <1>1, <2>2, <3>2 DEF Extend, BeginExtend, ReadUser, WriteExpiry, Goto, Begins
    <3>3. ASSUME NEW c \in Clients, Client(c) PROVE FALSE
      BY <1>1, <3>3 DEF Client, SubKeyAuth, Respond
    <3>4. ~(Tick \/ Crash \/ UNCHANGED vars)
      BY <1>1 DEF Tick, Crash, vars
    <3> QED
      BY <1>1, <3>1, <3>2, <3>3, <3>4 DEF Next
  <2>4. rows'[who[h]] = [rows[who[h]] EXCEPT !.expiry = due[h], !.status = "active"]
    BY <2>1, <2>2, <2>3, RowAssumption DEF WriteExpiry, Put, Computed
  <2> QED
    BY <1>1, <2>1, <2>4 DEF Computed, RowType
<1>2. IInv /\ AloneInv /\ [Next]_vars =>
        [\A h \in Handlers :
           alone /\ pc[h] = "extend" /\ pc'[h] = "answer" /\ req[h].until = 0
             /\ rows[who[h]].expiry # Permanent =>
           rows'[who[h]].expiry = rows[who[h]].expiry + req[h].days]_vars
  BY <1>1
<1> QED
  BY <1>2, InitHolds, InvStep, AloneInit, AloneStep, PTL DEF Spec, AloneExtensionAdds
=============================================================================
