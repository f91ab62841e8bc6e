--------------------------- MODULE ConcurrencyCap ---------------------------
(***************************************************************************)
(* The per-user cap on concurrent requests (internal/proxy/handler.go):    *)
(* a sync.Map from user id to a pointer to an atomic counter.  Each step   *)
(* below is one access to shared memory or to the database, so that any    *)
(* two handlers may interleave between LoadOrStore and AddInt64, between   *)
(* an increment and its roll-back, and between the Load and the AddInt64   *)
(* of a release.  Both handlers, chat and passthrough, acquire and release *)
(* the same way; what they do while they hold the slot is in QuotaLedger.  *)
(* A restart begins with an empty map.                                     *)
(***************************************************************************)
EXTENDS Integers, FiniteSets

CONSTANTS
  Users,       \* user ids (never reused: users.id is AUTOINCREMENT)
  Requests,    \* the requests that arrive, in any order
  Owner,       \* Owner[r]: the user whose sub-key request r presents
  CapInputs,   \* CapInputs[u]: the max_concurrency values an admin may submit for u
  HardLimit,   \* models.MaxConcurrencyHardLimit
  Deletable    \* the users an admin may delete

ASSUME CapAssumption ==
  /\ IsFiniteSet(Requests)
  /\ Owner \in [Requests -> Users]
  /\ CapInputs \in [Users -> SUBSET Int]
  /\ HardLimit \in Nat
  /\ Deletable \subseteq Users

VARIABLES
  row,     \* row[u]: "live", "deleted" (row gone) or "forgotten" (counter dropped too)
  cap,     \* cap[u]: users.max_concurrency
  entry,   \* entry[u]: the counter userConcurrency holds for u, or NoCell
  value,   \* value[u][c]: the value of counter c of user u
  pc,      \* pc[r]: the next step of request r
  lim,     \* lim[r]: the cap SubKeyAuth put in the request context
  ptr,     \* ptr[r]: the counter r loaded last
  own      \* own[r]: the counter r incremented and has not given back, or NoCell

vars == <<row, cap, entry, value, pc, lim, ptr, own>>

(***************************************************************************)
(* A counter is created by LoadOrStore and dropped by DeleteUser or with   *)
(* the process, so while the process lives a user has at most two: one     *)
(* before ForgetConcurrency and one after.                                 *)
(***************************************************************************)
NoCell == 0
Cells == 1..2
FreshCell(u) == IF row[u] = "forgotten" THEN 2 ELSE 1

PCs == {"new", "authed", "loaded", "over", "rejected", "inflight", "releasing", "done"}

\* A mutant of ValidCap: the ceiling is not enforced.
ValidCapNoCeiling(v) == 0 <= v

\* UpdateUser answers 400 to a cap that is negative or above the hard limit.
ValidCap(v) == 0 <= v /\ v <= HardLimit

AcceptedCaps(u) == {v \in CapInputs[u] : ValidCap(v)}

Init ==
  /\ row = [u \in Users |-> "live"]
  /\ cap \in {f \in [Users -> 0..HardLimit] : \A u \in Users : f[u] \in AcceptedCaps(u)}
  /\ entry = [u \in Users |-> NoCell]
  /\ value = [u \in Users |-> [c \in Cells |-> 0]]
  /\ pc = [r \in Requests |-> "new"]
  /\ lim = [r \in Requests |-> 0]
  /\ ptr = [r \in Requests |-> NoCell]
  /\ own = [r \in Requests |-> NoCell]

-----------------------------------------------------------------------------
(* The request. *)

\* SubKeyAuth finds the user's row and copies its cap into the context.
SubKeyAuth(r) ==
  /\ pc[r] = "new"
  /\ row[Owner[r]] = "live"
  /\ lim' = [lim EXCEPT ![r] = cap[Owner[r]]]
  /\ pc' = [pc EXCEPT ![r] = "authed"]
  /\ UNCHANGED <<row, cap, entry, value, ptr, own>>

\* tryAcquireConcurrency with max <= 0: admitted, nothing counted.
AcquireUnlimited(r) ==
  /\ pc[r] = "authed"
  /\ lim[r] <= 0
  /\ pc' = [pc EXCEPT ![r] = "inflight"]
  /\ UNCHANGED <<row, cap, entry, value, lim, ptr, own>>

\* tryAcquireConcurrency: userConcurrency.LoadOrStore(userID, new(int64)).
LoadOrStore(r) ==
  LET u == Owner[r]
      c == IF entry[u] = NoCell THEN FreshCell(u) ELSE entry[u]
  IN  /\ pc[r] = "authed"
      /\ lim[r] > 0
      /\ entry' = [entry EXCEPT ![u] = c]
      /\ ptr' = [ptr EXCEPT ![r] = c]
      /\ pc' = [pc EXCEPT ![r] = "loaded"]
      /\ UNCHANGED <<row, cap, value, lim, own>>

\* Mutants of Exceeds: one request too many; the incremented counter compared with >=.
ExceedsLate(c, max) == c > max + 1
ExceedsEarly(c, max) == c >= max

\* The incremented counter c is over the cap.
Exceeds(c, max) == c > max

\* tryAcquireConcurrency: AddInt64(+1) and the comparison of its result.
Increment(r) ==
  LET u == Owner[r]
      c == value[u][ptr[r]] + 1
  IN  /\ pc[r] = "loaded"
      /\ value' = [value EXCEPT ![u][ptr[r]] = c]
      /\ own' = [own EXCEPT ![r] = ptr[r]]
      /\ pc' = [pc EXCEPT ![r] = IF Exceeds(c, lim[r]) THEN "over" ELSE "inflight"]
      /\ UNCHANGED <<row, cap, entry, lim, ptr>>

\* A mutant of RolledBack: the refused attempt keeps its increment.
NotRolledBack(n) == n

\* AddInt64(-1) undoes the increment of a refused attempt.
RolledBack(n) == n - 1

\* tryAcquireConcurrency: AddInt64(-1) on the same pointer, then the 429.
RollBack(r) ==
  /\ pc[r] = "over"
  /\ value' = [value EXCEPT ![Owner[r]][ptr[r]] = RolledBack(@)]
  /\ own' = [own EXCEPT ![r] = NoCell]
  /\ pc' = [pc EXCEPT ![r] = "rejected"]
  /\ UNCHANGED <<row, cap, entry, lim, ptr>>

\* releaseConcurrency finds no counter (the user was unlimited, or is forgotten).
ReleaseMiss(r) ==
  /\ pc[r] = "inflight"
  /\ entry[Owner[r]] = NoCell
  /\ pc' = [pc EXCEPT ![r] = "done"]
  /\ own' = [own EXCEPT ![r] = NoCell]
  /\ UNCHANGED <<row, cap, entry, value, lim, ptr>>

\* releaseConcurrency: userConcurrency.Load(userID), whoever created that counter.
ReleaseLoad(r) ==
  /\ pc[r] = "inflight"
  /\ entry[Owner[r]] # NoCell
  /\ ptr' = [ptr EXCEPT ![r] = entry[Owner[r]]]
  /\ pc' = [pc EXCEPT ![r] = "releasing"]
  /\ UNCHANGED <<row, cap, entry, value, lim, own>>

\* releaseConcurrency: AddInt64(-1) on the counter just loaded.
ReleaseAdd(r) ==
  /\ pc[r] = "releasing"
  /\ value' = [value EXCEPT ![Owner[r]][ptr[r]] = @ - 1]
  /\ own' = [own EXCEPT ![r] = NoCell]
  /\ pc' = [pc EXCEPT ![r] = "done"]
  /\ UNCHANGED <<row, cap, entry, lim, ptr>>

-----------------------------------------------------------------------------
(* The administrator. *)

\* UpdateUser / UpdateUserMaxConcurrency: values outside 0..HardLimit get a 400.
UpdateMaxConcurrency(u) ==
  /\ row[u] = "live"
  /\ \E v \in CapInputs[u] :
       /\ ValidCap(v)
       /\ cap' = [cap EXCEPT ![u] = v]
  /\ UNCHANGED <<row, entry, value, pc, lim, ptr, own>>

\* DeleteUser: DELETE FROM users.
DeleteRow(u) ==
  /\ u \in Deletable
  /\ row[u] = "live"
  /\ row' = [row EXCEPT ![u] = "deleted"]
  /\ UNCHANGED <<cap, entry, value, pc, lim, ptr, own>>

\* DeleteUser, after the DELETE: ForgetConcurrency.  Once for each user: two DeleteUser
\* requests for the same user that overlap are left out.
ForgetConcurrency(u) ==
  /\ row[u] = "deleted"
  /\ row' = [row EXCEPT ![u] = "forgotten"]
  /\ entry' = [entry EXCEPT ![u] = NoCell]
  /\ UNCHANGED <<cap, value, pc, lim, ptr, own>>

\* The process dies and is started again: the counters are gone, and the handlers with
\* them, one that was about to forget a user's counter too.
Crash ==
  /\ row' = [u \in Users |-> IF row[u] = "deleted" THEN "forgotten" ELSE row[u]]
  /\ entry' = [u \in Users |-> NoCell]
  /\ value' = [u \in Users |-> [c \in Cells |-> 0]]
  /\ pc' = [r \in Requests |->
             IF pc[r] \in {"authed", "loaded", "over", "inflight", "releasing"} THEN "done" ELSE pc[r]]
  /\ ptr' = [r \in Requests |-> NoCell]
  /\ own' = [r \in Requests |-> NoCell]
  /\ UNCHANGED <<cap, lim>>

-----------------------------------------------------------------------------
Request(r) ==
  \/ SubKeyAuth(r) \/ AcquireUnlimited(r) \/ LoadOrStore(r) \/ Increment(r) \/ RollBack(r)
  \/ ReleaseMiss(r) \/ ReleaseLoad(r) \/ ReleaseAdd(r)

Admin(u) == UpdateMaxConcurrency(u) \/ DeleteRow(u) \/ ForgetConcurrency(u)

Next == (\E r \in Requests : Request(r)) \/ (\E u \in Users : Admin(u)) \/ Crash

Spec == Init /\ [][Next]_vars

-----------------------------------------------------------------------------
(* Properties. *)

Holds(r) == own[r] # NoCell
InFlight(u) == {r \in Requests : Owner[r] = u /\ pc[r] \in {"inflight", "releasing"}}
Holders(u, c) == {r \in Requests : Owner[r] = u /\ own[r] = c}

(***************************************************************************)
(* The users for whom the cap is exact: nobody deletes them, and they are  *)
(* never moved between "unlimited" and a positive cap.  Positive caps may  *)
(* be raised and lowered at any time, and whatever happens to the other    *)
(* users must not disturb them.                                            *)
(***************************************************************************)
SteadyUsers ==
  {u \in Users \ Deletable : 0 \in AcceptedCaps(u) => AcceptedCaps(u) = {0}}
SteadyRequests == {r \in Requests : Owner[r] \in SteadyUsers}

\* Types; in particular no cap in force or in a request context is outside
\* 0..HardLimit, whatever the admin submits.
TypeOK ==
  /\ row \in [Users -> {"live", "deleted", "forgotten"}]
  /\ cap \in [Users -> 0..HardLimit]
  /\ entry \in [Users -> Cells \cup {NoCell}]
  /\ value \in [Users -> [Cells -> Int]]
  /\ pc \in [Requests -> PCs]
  /\ lim \in [Requests -> 0..HardLimit]
  /\ ptr \in [Requests -> Cells \cup {NoCell}]
  /\ own \in [Requests -> Cells \cup {NoCell}]

\* How the control state of a request constrains its two counter references.
PointersMatchPC ==
  \A r \in Requests :
    /\ pc[r] \in {"loaded", "over", "releasing"} => ptr[r] \in Cells
    /\ pc[r] = "over" => own[r] = ptr[r]
    /\ pc[r] \notin {"over", "inflight", "releasing"} => own[r] = NoCell

\* No slot is leaked: the counter a new request of u is measured against never
\* shows more slots than there are requests still holding one.  A leak would
\* lock the user out for good, since nothing ever resets a counter.
NoPhantomSlot ==
  \A u \in Users :
    entry[u] # NoCell => value[u][entry[u]] <= Cardinality(Holders(u, entry[u]))

\* The counter of a steady user is exact: the number of requests holding a slot.
CounterExact ==
  \A u \in SteadyUsers :
    entry[u] # NoCell => value[u][entry[u]] = Cardinality(Holders(u, entry[u]))

\* The cap is honoured across edits of it: of the requests in flight at any
\* moment, at most n were admitted under a cap of n or less (0, unlimited, aside).
WithinCap(u) ==
  \A n \in 1..HardLimit : Cardinality({r \in InFlight(u) : lim[r] \in 1..n}) <= n

CapHonoured == \A u \in SteadyUsers : WithinCap(u)

\* The comment on userConcurrency: the counters "enforce a per-user concurrent-request
\* cap configured in the admin panel", for every user, however that cap is edited.
CapAlwaysHonoured == \A u \in Users : WithinCap(u)

\* The refinement: counters, map and pointers implement RequestLimit for the
\* requests of the steady users.
Stage(p) ==
  CASE p = "new"                       -> "away"
    [] p \in {"authed", "loaded"}      -> "asking"
    [] p = "over"                      -> "refusing"
    [] p = "rejected"                  -> "refused"
    [] p \in {"inflight", "releasing"} -> "running"
    [] p = "done"                      -> "finished"

Limit == INSTANCE RequestLimit WITH
           Requests <- SteadyRequests,
           stage <- [r \in SteadyRequests |-> Stage(pc[r])],
           limit <- [r \in SteadyRequests |-> lim[r]],
           Caps <- [u \in Users |-> AcceptedCaps(u)]

ImplementsRequestLimit == Limit!Spec
=============================================================================
