---------------------------- MODULE UserAccounts ----------------------------
(***************************************************************************)
(* The users table and the handlers of internal/admin/users.go that write  *)
(* it: create, update, extend, delete; and the lookup of a sub-key in      *)
(* internal/auth/middleware.go.                                            *)
(*                                                                         *)
(* A statement, or the one transaction of models.CreateUser, is a step:    *)
(* handlers interleave between the row they read and the row they write.   *)
(* An update names any of its fields; of the single-column ones the model  *)
(* keeps the status, of those read and written together the two window     *)
(* token caps and the two columns of the route.  The count limits, the     *)
(* cumulative token cap and the concurrency cap are columns of their own   *)
(* (QuotaLedger, ConcurrencyCap); what matters of them here is that a bad  *)
(* one is refused after other fields have been written.                    *)
(***************************************************************************)
EXTENDS Integers

CONSTANTS
  Names,     \* user names
  AdminName, \* "admin", the account -passwd creates
  Values,    \* route modes and provider slugs
  Default,   \* the default of both route columns
  Handlers,  \* the admin requests that may be handled at once
  Clients,   \* the API requests that may be in flight at once
  Creates,   \* bodies of CreateUser
  Updates,   \* bodies of UpdateUser
  Extends,   \* bodies of ExtendUser
  MaxServed, \* bound on the admin requests that are handled
  MaxId,     \* bound on users.id
  MaxKeys,   \* bound on the sub-keys generated
  MaxDay,    \* bound on the clock, in days
  MaxExpiry, \* bound on the expiry an extension may reach
  NoRow,     \* no such row
  NoReq      \* no request body

CapFields == {"h5", "week"}
RouteFields == {"mode", "fixed"}
NoCaps == [d \in CapFields |-> 0]

\* The fields of F a request names, with values in V.
Partial(f, F, V) == DOMAIN f \subseteq F /\ \A d \in DOMAIN f : f[d] \in V

\* Expiry 0 is the empty text: the key never expires.
Permanent == 0

ASSUME AccountsAssumption ==
  /\ MaxServed \in Nat /\ MaxId \in Nat \ {0} /\ MaxKeys \in Nat \ {0} /\ MaxDay \in Nat /\ MaxExpiry \in Nat
  /\ AdminName \in Names /\ Default \in Values
  /\ Creates \subseteq [name : Names, expiry : Nat, caps : [CapFields -> Int]]
  /\ \A b \in Updates :
       /\ Partial(b.caps, CapFields, Nat) /\ Partial(b.route, RouteFields, Values)
       /\ b.status \in {"keep", "active", "disabled", "invalid"}
       /\ b.refused \in BOOLEAN /\ b.regenerate \in BOOLEAN
  /\ Extends \subseteq [days : Nat, until : Nat]

\* The body of an update is the body of nothing else.
ASSUME BodyAssumption == Updates \cap (Creates \cup Extends \cup {NoReq}) = {}

VARIABLES
  rows,    \* rows[i]: the user with id i, or NoRow
  nextId,  \* the id AUTOINCREMENT gives next
  minted,  \* how many sub-keys GenerateSubKey has made
  now,     \* the clock
  pc,      \* pc[h]: the next statement of admin handler h
  who,     \* who[h]: the id of the user handler h is about, or 0
  req,     \* req[h]: the body of its request
  seen,    \* seen[h]: the row it has read, or meant to insert
  due,     \* due[h]: the expiry it has computed
  ctx,     \* ctx[c]: whom SubKeyAuth found for client request c
  served   \* how many admin requests have begun

(* A history variable, for the properties only: the handler at work, if any, has *)
(* been the only one since it began.                                             *)
VARIABLE alone

locals == <<who, req, seen, due>>
vars == <<rows, nextId, minted, now, pc, locals, ctx, served, alone>>

Ids == 1..MaxId
NoCtx == [user |-> 0, name |-> AdminName]

\* A key stands for its hash.  The empty hash of a new row is the hash of no key;
\* the key of the admin account is generated for user 0 and shown to nobody.
NoKey == [user |-> 0, n |-> 0]
UnseenKey == [user |-> 0, n |-> 1]

Exists(i) == rows[i] # NoRow
Live == {i \in Ids : Exists(i)}

\* initAdminPassword has created the admin account; there is nobody else.
Init ==
  /\ rows = [i \in Ids |->
               IF i # 1 THEN NoRow
               ELSE [name |-> AdminName, role |-> "admin", key |-> UnseenKey, status |-> "active",
                     expiry |-> Permanent, caps |-> NoCaps,
                     route |-> [f \in RouteFields |-> Default]]]
  /\ nextId = 2
  /\ minted = 1
  /\ now = 0
  /\ pc = [h \in Handlers |-> "idle"]
  /\ who = [h \in Handlers |-> 0]
  /\ req = [h \in Handlers |-> NoReq]
  /\ seen = [h \in Handlers |-> NoRow]
  /\ due = [h \in Handlers |-> Permanent]
  /\ ctx = [c \in Clients |-> NoCtx]
  /\ served = 0
  /\ alone = TRUE

Begins(h) ==
  /\ pc[h] = "idle"
  /\ served < MaxServed
  /\ served' = served + 1
  /\ alone' = (\A g \in Handlers : pc[g] = "idle")

Goto(h, l) == pc' = [pc EXCEPT ![h] = l]

Finish(h) ==
  /\ Goto(h, "idle")
  /\ who' = [who EXCEPT ![h] = 0]
  /\ req' = [req EXCEPT ![h] = NoReq]
  /\ seen' = [seen EXCEPT ![h] = NoRow]
  /\ due' = [due EXCEPT ![h] = Permanent]

\* UPDATE users (or quotas) ... WHERE id = i: nothing happens if the row is gone.
Put(i, r) == rows' = [rows EXCEPT ![i] = IF @ = NoRow THEN NoRow ELSE r]

\* What the request names, and for the rest what was read.
Merge(old, new) == [f \in DOMAIN old |-> IF f \in DOMAIN new THEN new[f] ELSE old[f]]

-----------------------------------------------------------------------------
(* Sub-keys. *)

\* GenerateSubKey: random, so that no two keys are ever equal.
FreshKey(i) == [user |-> i, n |-> minted + 1]

\* A mutant of Target: last_insert_rowid() at the time of the UPDATE.
LastInserted(h) == nextId - 1

\* The row whose key handler h replaces.
Target(h) == who[h]

\* RegenerateUserKey.
InstallKey(h) ==
  /\ minted < MaxKeys
  /\ minted' = minted + 1
  /\ Put(Target(h), [rows[Target(h)] EXCEPT !.key = FreshKey(who[h])])

-----------------------------------------------------------------------------
(* CreateUser. *)

NewRow(b) ==
  [name |-> b.name, role |-> "user", key |-> NoKey, status |-> "active",
   expiry |-> b.expiry, caps |-> NoCaps, route |-> [f \in RouteFields |-> Default]]

\* A mutant of NameTaken: no UNIQUE constraint on users.username.
NeverTaken(n) == FALSE

NameTaken(n) == \E i \in Live : rows[i].name = n

\* UNIQUE on username and on sub_key_hash: the new row has the empty hash.
Conflicts(b) == NameTaken(b.name) \/ \E i \in Live : rows[i].key = NoKey

\* A mutant of NewId: INTEGER PRIMARY KEY without AUTOINCREMENT.
LargestPlusOne ==
  CHOOSE i \in 1..(MaxId + 1) : (i = 1 \/ i - 1 \in Live) /\ \A j \in Live : j < i

\* users.id is AUTOINCREMENT: an id is never given twice.
NewId == nextId

\* models.CreateUser, one transaction.  The token caps are looked at only now: a
\* negative one gets a 400, positive ones are written by a statement of their own.
InsertUser(h, b) ==
  /\ Begins(h)
  /\ NewId \in Ids
  /\ ~Conflicts(b)
  /\ rows' = [rows EXCEPT ![NewId] = NewRow(b)]
  /\ nextId' = NewId + 1
  /\ who' = [who EXCEPT ![h] = NewId]
  /\ req' = [req EXCEPT ![h] = b]
  /\ seen' = [seen EXCEPT ![h] = NewRow(b)]
  /\ Goto(h, IF \E d \in CapFields : b.caps[d] < 0 THEN "refused"
             ELSE IF b.caps = NoCaps THEN "newKey" ELSE "newCaps")
  /\ UNCHANGED <<minted, now, due, ctx>>

\* isUniqueConstraintError: the 409 "username already exists".
RefuseInsert(h, b) ==
  /\ Begins(h)
  /\ Conflicts(b)
  /\ seen' = [seen EXCEPT ![h] = NewRow(b)]
  /\ Goto(h, "conflict")
  /\ UNCHANGED <<rows, nextId, minted, now, who, req, due, ctx>>

SetNewCaps(h) ==
  /\ pc[h] = "newCaps"
  /\ Put(who[h], [rows[who[h]] EXCEPT !.caps = req[h].caps])
  /\ Goto(h, "newKey")
  /\ UNCHANGED <<nextId, minted, now, locals, ctx, served, alone>>

SetNewKey(h) ==
  /\ pc[h] = "newKey"
  /\ InstallKey(h)
  /\ Goto(h, "answer")
  /\ UNCHANGED <<nextId, now, locals, ctx, served, alone>>

-----------------------------------------------------------------------------
(* UpdateUser: the fields the request names, one after the other. *)

FromKey(b)    == IF b.regenerate THEN "key" ELSE "answer"
FromRest(b)   == IF b.refused THEN "refused" ELSE FromKey(b)
FromRoute(b)  == IF DOMAIN b.route # {} THEN "route" ELSE FromRest(b)
FromStatus(b) == IF b.status # "keep" THEN "status" ELSE FromRoute(b)
FromCaps(b)   == IF DOMAIN b.caps # {} THEN "readCaps" ELSE FromStatus(b)

\* Handler h reads user i and goes on at l.
ReadUser(h, i, b, l) ==
  /\ Begins(h)
  /\ Exists(i)
  /\ who' = [who EXCEPT ![h] = i]
  /\ req' = [req EXCEPT ![h] = b]
  /\ seen' = [seen EXCEPT ![h] = rows[i]]
  /\ Goto(h, l)
  /\ UNCHANGED <<rows, nextId, minted, now, ctx>>

BeginUpdate(h, i, b) == ReadUser(h, i, b, FromCaps(b)) /\ UNCHANGED due

\* GetQuota, right before the write.
ReadCaps(h) ==
  /\ pc[h] = "readCaps"
  /\ seen' = [seen EXCEPT ![h].caps = IF Exists(who[h]) THEN rows[who[h]].caps ELSE NoCaps]
  /\ Goto(h, "writeCaps")
  /\ UNCHANGED <<rows, nextId, minted, now, who, req, due, ctx, served, alone>>

\* UpdateQuotaTokenWindowLimits: both caps in one statement.
WriteCaps(h) ==
  /\ pc[h] = "writeCaps"
  /\ Put(who[h], [rows[who[h]] EXCEPT !.caps = Merge(seen[h].caps, req[h].caps)])
  /\ Goto(h, FromStatus(req[h]))
  /\ UNCHANGED <<nextId, minted, now, locals, ctx, served, alone>>

\* UpdateUserStatus; any other status is refused, after the caps were written.
WriteStatus(h) ==
  /\ pc[h] = "status"
  /\ IF req[h].status = "invalid"
     THEN Goto(h, "refused") /\ UNCHANGED rows
     ELSE /\ Put(who[h], [rows[who[h]] EXCEPT !.status = req[h].status])
          /\ Goto(h, FromRoute(req[h]))
  /\ UNCHANGED <<nextId, minted, now, locals, ctx, served, alone>>

\* A mutant of Routed: the whole row that was read is saved.
SavedWhole(row, old, b) == [old EXCEPT !.route = Merge(old.route, b.route)]

\* The row with its two route columns as UpdateUserRoute leaves them.
Routed(row, old, b) == [row EXCEPT !.route = Merge(old.route, b.route)]

\* UpdateUserRoute, from the row read at the start; the admin's route is left alone.
WriteRoute(h) ==
  /\ pc[h] = "route"
  /\ IF seen[h].role = "admin" THEN UNCHANGED rows
     ELSE Put(who[h], Routed(rows[who[h]], seen[h], req[h]))
  /\ Goto(h, FromRest(req[h]))
  /\ UNCHANGED <<nextId, minted, now, locals, ctx, served, alone>>

RegenerateKey(h) ==
  /\ pc[h] = "key"
  /\ InstallKey(h)
  /\ Goto(h, "answer")
  /\ UNCHANGED <<nextId, now, locals, ctx, served, alone>>

-----------------------------------------------------------------------------
(* ExtendUser, DeleteUser. *)

\* A mutant of Base: the days count from today.
BaseToday(row) == now

\* The days count from the old expiry; from today if the user was permanent.
Base(row) == IF row.expiry = Permanent THEN now ELSE row.expiry

BeginExtend(h, i, b) ==
  /\ ReadUser(h, i, b, "extend")
  /\ rows[i].role # "admin"
  /\ due' = [due EXCEPT ![h] = IF b.until # 0 THEN b.until ELSE Base(rows[i]) + b.days]
  /\ due'[h] <= MaxExpiry

\* ExtendUserExpiry: the new expiry, and the user is active again.
WriteExpiry(h) ==
  /\ pc[h] = "extend"
  /\ Put(who[h], [rows[who[h]] EXCEPT !.expiry = due[h], !.status = "active"])
  /\ Goto(h, "answer")
  /\ UNCHANGED <<nextId, minted, now, locals, ctx, served, alone>>

BeginDelete(h, i) ==
  /\ ReadUser(h, i, NoReq, "delete")
  /\ rows[i].role # "admin"
  /\ UNCHANGED due

DeleteRow(h) ==
  /\ pc[h] = "delete"
  /\ rows' = [rows EXCEPT ![who[h]] = NoRow]
  /\ Goto(h, "answer")
  /\ UNCHANGED <<nextId, minted, now, locals, ctx, served, alone>>

\* The handler answers.
Answer(h) ==
  /\ pc[h] \in {"answer", "refused", "conflict"}
  /\ Finish(h)
  /\ UNCHANGED <<rows, nextId, minted, now, ctx, served, alone>>

-----------------------------------------------------------------------------
(* SubKeyAuth, the clock, a crash. *)

Expired(row) == row.role # "admin" /\ row.expiry # Permanent /\ now > row.expiry

\* The client presents the key of row i, which somebody was once given.
SubKeyAuth(c, i) ==
  /\ ctx[c] = NoCtx
  /\ Exists(i)
  /\ rows[i].key.user # 0
  /\ rows[i].status # "disabled"
  /\ ~Expired(rows[i])
  /\ ctx' = [ctx EXCEPT ![c] = [user |-> i, name |-> rows[i].name]]
  /\ UNCHANGED <<rows, nextId, minted, now, pc, locals, served, alone>>

Respond(c) ==
  /\ ctx[c] # NoCtx
  /\ ctx' = [ctx EXCEPT ![c] = NoCtx]
  /\ UNCHANGED <<rows, nextId, minted, now, pc, locals, served, alone>>

Tick ==
  /\ now < MaxDay
  /\ now' = now + 1
  /\ UNCHANGED <<rows, nextId, minted, pc, locals, ctx, served, alone>>

Crash ==
  /\ pc' = [h \in Handlers |-> "idle"]
  /\ who' = [h \in Handlers |-> 0]
  /\ req' = [h \in Handlers |-> NoReq]
  /\ seen' = [h \in Handlers |-> NoRow]
  /\ due' = [h \in Handlers |-> Permanent]
  /\ ctx' = [c \in Clients |-> NoCtx]
  /\ UNCHANGED <<rows, nextId, minted, now, served, alone>>

-----------------------------------------------------------------------------
Create(h) == (\E b \in Creates : InsertUser(h, b) \/ RefuseInsert(h, b))
             \/ SetNewCaps(h) \/ SetNewKey(h)
Update(h) == (\E i \in Ids, b \in Updates : BeginUpdate(h, i, b))
             \/ ReadCaps(h) \/ WriteCaps(h) \/ WriteStatus(h) \/ WriteRoute(h) \/ RegenerateKey(h)
Extend(h) == (\E i \in Ids, b \in Extends : BeginExtend(h, i, b)) \/ WriteExpiry(h)
Delete(h) == (\E i \in Ids : BeginDelete(h, i)) \/ DeleteRow(h)
Client(c) == (\E i \in Ids : SubKeyAuth(c, i)) \/ Respond(c)

Next ==
  \/ \E h \in Handlers : Create(h) \/ Update(h) \/ Extend(h) \/ Delete(h) \/ Answer(h)
  \/ \E c \in Clients : Client(c)
  \/ Tick \/ Crash

Spec == Init /\ [][Next]_vars

-----------------------------------------------------------------------------
(* Properties. *)

PCs == {"idle", "conflict", "refused", "newCaps", "newKey", "readCaps", "writeCaps", "status",
        "route", "key", "extend", "delete", "answer"}

KeyType == [user : 0..MaxId, n : 0..MaxKeys]
RowType == [name : Names, role : {"admin", "user"}, key : KeyType, status : {"active", "disabled"},
            expiry : Nat, caps : [CapFields -> Nat], route : [RouteFields -> Values]]

\* NoRow is no row.
ASSUME RowAssumption == NoRow \notin RowType

\* Types; and a name belongs to one user.
TypeOK ==
  /\ rows \in [Ids -> RowType \cup {NoRow}]
  /\ nextId \in 1..(MaxId + 1) /\ minted \in 0..MaxKeys /\ now \in 0..MaxDay
  /\ pc \in [Handlers -> PCs]
  /\ who \in [Handlers -> 0..MaxId]
  /\ req \in [Handlers -> Creates \cup Updates \cup Extends \cup {NoReq}]
  /\ seen \in [Handlers -> RowType \cup {NoRow}]
  /\ due \in [Handlers -> Nat]
  /\ ctx \in [Clients -> [user : 0..MaxId, name : Names]]
  /\ served \in 0..MaxServed
  /\ alone \in BOOLEAN
  /\ \A i, j \in Live : rows[i].name = rows[j].name => i = j

\* The test on CreateUser: "A's key must NOT authenticate as B".  A key somebody
\* was given sits in the row of the user it was made for, or nowhere.
KeysBelong == \A i \in Live : rows[i].key.user \in {0, i}

\* No handler writes, and no request runs, for another user than the one it read:
\* between the read and the write the user may be deleted and others created.
NeverAnotherUser ==
  /\ \A h \in Handlers : who[h] \in Live => rows[who[h]].name = seen[h].name
  /\ \A c \in Clients : ctx[c].user \in Live => rows[ctx[c].user].name = ctx[c].name

\* A key that was replaced, or whose user was deleted, never works again, whatever
\* edits were under way when that happened.
RevokedStaysDead ==
  [][\A i \in Ids : rows'[i] # NoRow /\ rows'[i].key # NoKey =>
       \/ rows'[i].key.n > minted
       \/ \E j \in Live : rows[j].key = rows'[i].key]_vars

\* What UpdateUser promises: the fields the request names, and only those.
Applied(row, b) ==
  [row EXCEPT !.caps = Merge(@, b.caps),
              !.status = IF b.status = "keep" THEN @ ELSE b.status,
              !.route = IF row.role = "admin" THEN @ ELSE Merge(@, b.route)]

\* What is in force of an update that is refused: what came before the refusal.
AppliedBefore(row, b) ==
  IF b.status = "invalid" THEN [row EXCEPT !.caps = Merge(@, b.caps)] ELSE Applied(row, b)

\* An update that is alone, and succeeds, does what it promises, and gives the user
\* a key that is new if it was asked to and the old one if not.  One that is
\* refused halfway leaves the fields before the refusal in force and no others; the
\* key above all is not replaced by one that nobody is shown.
AloneUpdateApplies ==
  \A h \in Handlers : alone /\ req[h] \in Updates =>
    LET row == rows[who[h]] IN
    /\ pc[h] = "answer" =>
         /\ row = [Applied(seen[h], req[h]) EXCEPT !.key = row.key]
         /\ row.key = IF req[h].regenerate THEN [user |-> who[h], n |-> minted] ELSE seen[h].key
    /\ pc[h] = "refused" => row = AppliedBefore(seen[h], req[h])

\* An extension by days that is alone adds them to what the user had.
AloneExtensionAdds ==
  [][\A h \in Handlers :
       alone /\ pc[h] = "extend" /\ pc'[h] = "answer" /\ req[h].until = 0
         /\ rows[who[h]].expiry # Permanent =>
       rows'[who[h]].expiry = rows[who[h]].expiry + req[h].days]_vars

\* The comment in CreateUser: "A duplicate username triggers the users.username
\* UNIQUE constraint", answered with 409 "username already exists": there is then a
\* user of that name.
ConflictMeansTaken ==
  [][\A h \in Handlers : pc[h] = "idle" /\ pc'[h] = "conflict" => NameTaken(seen'[h].name)]_vars
=============================================================================
