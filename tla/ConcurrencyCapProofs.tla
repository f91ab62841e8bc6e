------------------------ MODULE ConcurrencyCapProofs ------------------------
(***************************************************************************)
(* Theorems about ConcurrencyCap, for any finite set of requests, any set  *)
(* of users and any caps.                                                  *)
(***************************************************************************)
EXTENDS ConcurrencyCap, FiniteSetTheorems, TLAPS

Shape == TypeOK /\ PointersMatchPC

LEMMA ShapeInit == Init => Shape
  BY CapAssumption DEF Init, Shape, TypeOK, PointersMatchPC, PCs, Cells, NoCell

LEMMA ShapeStep == Shape /\ [Next]_vars => Shape'
<1> SUFFICES ASSUME Shape, [Next]_vars PROVE Shape'
  OBVIOUS
<1> USE CapAssumption DEF Shape, TypeOK, PointersMatchPC, PCs, Cells, NoCell
<1>1. ASSUME NEW r \in Requests, SubKeyAuth(r) PROVE Shape'
  BY <1>1 DEF SubKeyAuth
<1>2. ASSUME NEW r \in Requests, AcquireUnlimited(r) PROVE Shape'
  BY <1>2 DEF AcquireUnlimited
<1>3. ASSUME NEW r \in Requests, LoadOrStore(r) PROVE Shape'
  BY <1>3 DEF LoadOrStore, FreshCell
<1>4. ASSUME NEW r \in Requests, Increment(r) PROVE Shape'
  BY <1>4 DEF Increment
<1>5. ASSUME NEW r \in Requests, RollBack(r) PROVE Shape'
  BY <1>5 DEF RollBack, RolledBack
<1>6. ASSUME NEW r \in Requests, ReleaseMiss(r) PROVE Shape'
  BY <1>6 DEF ReleaseMiss
<1>7. ASSUME NEW r \in Requests, ReleaseLoad(r) PROVE Shape'
  BY <1>7 DEF ReleaseLoad
<1>8. ASSUME NEW r \in Requests, ReleaseAdd(r) PROVE Shape'
  BY <1>8 DEF ReleaseAdd
<1>9. ASSUME NEW u \in Users, UpdateMaxConcurrency(u) PROVE Shape'
  BY <1>9 DEF UpdateMaxConcurrency, ValidCap
<1>10. ASSUME NEW u \in Users, DeleteRow(u) PROVE Shape'
  BY <1>10 DEF DeleteRow
<1>11. ASSUME NEW u \in Users, ForgetConcurrency(u) PROVE Shape'
  BY <1>11 DEF ForgetConcurrency
<1>14. CASE Crash
  BY <1>14 DEF Crash
<1>12. CASE UNCHANGED vars
  BY <1>12 DEF vars
<1>13. QED
  BY <1>1, <1>2, <1>3, <1>4, <1>5, <1>6, <1>7, <1>8, <1>9, <1>10, <1>11, <1>12, <1>14
     DEF Next, Request, Admin

\* Every step of every handler keeps the types; in particular every cap that
\* UpdateUser stores, and SubKeyAuth hands on, lies in 0..HardLimit.
THEOREM TypeCorrect == Spec => []TypeOK
<1>1. Shape => TypeOK
  BY DEF Shape
<1>2. QED
  BY <1>1, ShapeInit, ShapeStep, PTL DEF Spec

-----------------------------------------------------------------------------
(* No slot is leaked. *)

LEMMA HoldersFinite ==
  ASSUME NEW u, NEW c
  PROVE  IsFiniteSet(Holders(u, c)) /\ Cardinality(Holders(u, c)) \in Nat
BY CapAssumption, FS_Subset, FS_CardinalityType DEF Holders

\* A request that starts to hold the counter it loaded adds one holder to it.
LEMMA HolderGained ==
  ASSUME TypeOK, NEW r \in Requests, ptr[r] \in Cells,
         own[r] = NoCell, own' = [own EXCEPT ![r] = ptr[r]],
         NEW u \in Users, NEW d \in Cells
  PROVE  Cardinality(Holders(u, d))' =
           IF u = Owner[r] /\ d = ptr[r] THEN Cardinality(Holders(u, d)) + 1
                                         ELSE Cardinality(Holders(u, d))
<1> USE DEF TypeOK, Cells, NoCell
<1>1. CASE u = Owner[r] /\ d = ptr[r]
  <2>1. Holders(u, d)' = Holders(u, d) \cup {r} /\ r \notin Holders(u, d)
    BY <1>1 DEF Holders
  <2>2. Cardinality(Holders(u, d) \cup {r}) = Cardinality(Holders(u, d)) + 1
    BY <2>1, HoldersFinite, FS_AddElement
  <2>3. QED
    BY <1>1, <2>1, <2>2
<1>2. CASE ~(u = Owner[r] /\ d = ptr[r])
  <2>1. Holders(u, d)' = Holders(u, d)
    BY <1>2 DEF Holders
  <2>2. QED
    BY <1>2, <2>1
<1>3. QED
  BY <1>1, <1>2

\* A request that gives up its hold takes one holder from the counter it held.
LEMMA HolderLost ==
  ASSUME TypeOK, NEW r \in Requests, own' = [own EXCEPT ![r] = NoCell],
         NEW u \in Users, NEW d \in Cells
  PROVE  Cardinality(Holders(u, d))' =
           IF u = Owner[r] /\ d = own[r] THEN Cardinality(Holders(u, d)) - 1
                                         ELSE Cardinality(Holders(u, d))
<1> USE DEF TypeOK, Cells, NoCell
<1>1. CASE u = Owner[r] /\ d = own[r]
  <2>1. Holders(u, d)' = Holders(u, d) \ {r} /\ r \in Holders(u, d)
    BY <1>1 DEF Holders
  <2>2. Cardinality(Holders(u, d) \ {r}) = Cardinality(Holders(u, d)) - 1
    BY <2>1, HoldersFinite, FS_RemoveElement
  <2>3. QED
    BY <1>1, <2>1, <2>2
<1>2. CASE ~(u = Owner[r] /\ d = own[r])
  <2>1. Holders(u, d)' = Holders(u, d)
    BY <1>2 DEF Holders
  <2>2. QED
    BY <1>2, <2>1
<1>3. QED
  BY <1>1, <1>2

\* Steps that leave own alone leave every set of holders alone.
LEMMA HoldersKept ==
  ASSUME own' = own, NEW u, NEW d
  PROVE  Holders(u, d)' = Holders(u, d)
BY DEF Holders

\* Nobody holds a counter of the process that died.
LEMMA HoldersDie ==
  ASSUME Crash, NEW u \in Users, NEW d \in Cells
  PROVE  value'[u][d] = 0 /\ Cardinality(Holders(u, d)') = 0
<1>1. Holders(u, d)' = {}
  BY DEF Crash, Holders, Cells, NoCell
<1>2. value'[u][d] = 0
  BY DEF Crash
<1> QED
  BY <1>1, <1>2, FS_EmptySet

\* Which counter exists when, and who can still reach it.
CellHistory ==
  /\ \A u \in Users :
       /\ entry[u] = 1 => row[u] # "forgotten"
       /\ entry[u] = 2 => row[u] = "forgotten"
       /\ entry[u] = NoCell /\ row[u] # "forgotten" => value[u][1] = 0
       /\ entry[u] # 2 => value[u][2] = 0
  /\ \A r \in Requests :
       /\ 1 \in {ptr[r], own[r]} => entry[Owner[r]] = 1 \/ row[Owner[r]] = "forgotten"
       /\ 2 \in {ptr[r], own[r]} => entry[Owner[r]] = 2
       /\ pc[r] = "releasing" /\ own[r] # NoCell /\ own[r] = entry[Owner[r]]
            => ptr[r] = own[r]

LEMMA CellHistoryInit == Init => CellHistory
  BY CapAssumption DEF Init, CellHistory, Cells, NoCell

LEMMA CellHistoryStep == Shape /\ CellHistory /\ [Next]_vars => CellHistory'
<1> SUFFICES ASSUME Shape, CellHistory, [Next]_vars PROVE CellHistory'
  OBVIOUS
<1> USE CapAssumption DEF Shape, TypeOK, PointersMatchPC, CellHistory, Cells, NoCell
<1>1. ASSUME NEW r \in Requests, SubKeyAuth(r) PROVE CellHistory'
  BY <1>1 DEF SubKeyAuth
<1>2. ASSUME NEW r \in Requests, AcquireUnlimited(r) PROVE CellHistory'
  BY <1>2 DEF AcquireUnlimited
<1>3. ASSUME NEW r \in Requests, LoadOrStore(r) PROVE CellHistory'
  BY <1>3 DEF LoadOrStore, FreshCell
<1>4. ASSUME NEW r \in Requests, Increment(r) PROVE CellHistory'
  BY <1>4 DEF Increment
<1>5. ASSUME NEW r \in Requests, RollBack(r) PROVE CellHistory'
  BY <1>5 DEF RollBack, RolledBack
<1>6. ASSUME NEW r \in Requests, ReleaseMiss(r) PROVE CellHistory'
  BY <1>6 DEF ReleaseMiss
<1>7. ASSUME NEW r \in Requests, ReleaseLoad(r) PROVE CellHistory'
  BY <1>7 DEF ReleaseLoad
<1>8. ASSUME NEW r \in Requests, ReleaseAdd(r) PROVE CellHistory'
  BY <1>8 DEF ReleaseAdd
<1>9. ASSUME NEW u \in Users, UpdateMaxConcurrency(u) PROVE CellHistory'
  BY <1>9 DEF UpdateMaxConcurrency
<1>10. ASSUME NEW u \in Users, DeleteRow(u) PROVE CellHistory'
  BY <1>10 DEF DeleteRow
<1>11. ASSUME NEW u \in Users, ForgetConcurrency(u) PROVE CellHistory'
  BY <1>11 DEF ForgetConcurrency
<1>14. CASE Crash
  BY <1>14 DEF Crash
<1>12. CASE UNCHANGED vars
  BY <1>12 DEF vars
<1>13. QED
  BY <1>1, <1>2, <1>3, <1>4, <1>5, <1>6, <1>7, <1>8, <1>9, <1>10, <1>11, <1>12, <1>14
     DEF Next, Request, Admin

\* At every moment, whatever is deleted, forgotten, capped or uncapped, the
\* counter shows no more slots than there are requests holding one.
THEOREM NoSlotLeaked == Spec => []NoPhantomSlot
<1>1. Init => NoPhantomSlot
  BY CapAssumption DEF Init, NoPhantomSlot
<1>2. Shape /\ CellHistory /\ NoPhantomSlot /\ [Next]_vars => NoPhantomSlot'
  <2> SUFFICES ASSUME Shape, CellHistory, NoPhantomSlot, [Next]_vars,
                      NEW w \in Users, NEW g \in Cells, entry'[w] = g
               PROVE  value'[w][g] <= Cardinality(Holders(w, g))'
    BY ShapeStep DEF NoPhantomSlot, Holders, Shape, TypeOK
  <2>0. TypeOK /\ Cardinality(Holders(w, g)) \in Nat
    BY HoldersFinite DEF Shape
  <2>1. ASSUME NEW r \in Requests, LoadOrStore(r) PROVE value'[w][g] <= Cardinality(Holders(w, g))'
    <3>1. Holders(w, g)' = Holders(w, g)
      BY <2>1 DEF LoadOrStore, Holders
    <3>2. CASE entry[w] = NoCell
      BY CapAssumption, <2>0, <2>1, <3>1, <3>2 DEF LoadOrStore, FreshCell, Shape, TypeOK, PointersMatchPC, CellHistory, Cells, NoCell
    <3>3. CASE entry[w] # NoCell
      BY CapAssumption, <2>1, <3>1, <3>3 DEF LoadOrStore, NoPhantomSlot, Shape, TypeOK, PointersMatchPC, CellHistory, Cells, NoCell
    <3>4. QED
      BY <3>2, <3>3
  <2>2. ASSUME NEW r \in Requests, Increment(r) PROVE value'[w][g] <= Cardinality(Holders(w, g))'
    <3>1. Cardinality(Holders(w, g))' = IF w = Owner[r] /\ g = ptr[r]
                                         THEN Cardinality(Holders(w, g)) + 1
                                         ELSE Cardinality(Holders(w, g))
      <4>1. own' = [own EXCEPT ![r] = ptr[r]] /\ own[r] = NoCell /\ ptr[r] \in Cells
        BY <2>2 DEF Increment, Shape, PointersMatchPC
      <4>2. QED
        BY <2>0, <4>1, HolderGained
    <3>2. QED
      BY CapAssumption, <2>0, <2>2, <3>1 DEF Increment, NoPhantomSlot, Shape, TypeOK, PointersMatchPC, CellHistory, Cells, NoCell
  <2>3. ASSUME NEW r \in Requests, RollBack(r) PROVE value'[w][g] <= Cardinality(Holders(w, g))'
    <3>1. Cardinality(Holders(w, g))' = IF w = Owner[r] /\ g = own[r]
                                         THEN Cardinality(Holders(w, g)) - 1
                                         ELSE Cardinality(Holders(w, g))
      <4>1. own' = [own EXCEPT ![r] = NoCell]
        BY <2>3 DEF RollBack
      <4>2. QED
        BY <2>0, <4>1, HolderLost
    <3>2. QED
      BY CapAssumption, <2>0, <2>3, <3>1 DEF RollBack, RolledBack, NoPhantomSlot, Shape, TypeOK, PointersMatchPC, CellHistory, Cells, NoCell
  <2>4. ASSUME NEW r \in Requests, ReleaseMiss(r) PROVE value'[w][g] <= Cardinality(Holders(w, g))'
    <3>1. w # Owner[r]
      BY <2>4 DEF ReleaseMiss, Cells, NoCell
    <3>2. Cardinality(Holders(w, g))' = Cardinality(Holders(w, g))
      <4>1. own' = [own EXCEPT ![r] = NoCell]
        BY <2>4 DEF ReleaseMiss
      <4>2. QED
        BY <2>0, <3>1, <4>1, HolderLost
    <3>3. QED
      BY <2>4, <3>2 DEF ReleaseMiss, NoPhantomSlot, Cells, NoCell
  <2>5. ASSUME NEW r \in Requests, ReleaseAdd(r) PROVE value'[w][g] <= Cardinality(Holders(w, g))'
    <3>1. Cardinality(Holders(w, g))' = IF w = Owner[r] /\ g = own[r]
                                         THEN Cardinality(Holders(w, g)) - 1
                                         ELSE Cardinality(Holders(w, g))
      <4>1. own' = [own EXCEPT ![r] = NoCell]
        BY <2>5 DEF ReleaseAdd
      <4>2. QED
        BY <2>0, <4>1, HolderLost
    <3>2. w = Owner[r] /\ g = own[r] => ptr[r] = g
      BY <2>5 DEF ReleaseAdd, Shape, TypeOK, PointersMatchPC, CellHistory, Cells, NoCell
    <3>3. QED
      BY CapAssumption, <2>0, <2>5, <3>1, <3>2 DEF ReleaseAdd, NoPhantomSlot, Shape, TypeOK, PointersMatchPC, CellHistory, Cells, NoCell
  <2>6. CASE \/ \E r \in Requests : SubKeyAuth(r) \/ AcquireUnlimited(r) \/ ReleaseLoad(r)
             \/ \E u \in Users : UpdateMaxConcurrency(u) \/ DeleteRow(u)
             \/ UNCHANGED vars
    <3>1. UNCHANGED <<entry, value, own>>
      BY <2>6 DEF SubKeyAuth, AcquireUnlimited, ReleaseLoad, UpdateMaxConcurrency, DeleteRow, vars
    <3>2. QED
      BY <3>1, HoldersKept DEF NoPhantomSlot, Cells, NoCell
  <2>7. ASSUME NEW u \in Users, ForgetConcurrency(u) PROVE value'[w][g] <= Cardinality(Holders(w, g))'
    <3>1. Holders(w, g)' = Holders(w, g) /\ g = entry[w] /\ value' = value
      BY <2>7 DEF ForgetConcurrency, Holders, Shape, TypeOK, PointersMatchPC, CellHistory, Cells, NoCell
    <3>2. QED
      BY <3>1 DEF NoPhantomSlot, Cells, NoCell
  <2>9. CASE Crash
    BY <2>9, HoldersDie
  <2>8. QED
    BY <2>1, <2>2, <2>3, <2>4, <2>5, <2>6, <2>7, <2>9 DEF Next, Request, Admin
<1>3. QED
  BY <1>1, <1>2, ShapeInit, ShapeStep, CellHistoryInit, CellHistoryStep, PTL DEF Spec

-----------------------------------------------------------------------------
(* Steady users, and what the requests of the others leave alone. *)

LEMMA SteadyFacts ==
  /\ Owner \in [Requests -> Users]
  /\ SteadyUsers \subseteq Users /\ SteadyRequests \subseteq Requests
  /\ \A u \in SteadyUsers :
       u \notin Deletable /\ (0 \in AcceptedCaps(u) => AcceptedCaps(u) = {0})
  /\ \A r \in Requests : r \in SteadyRequests <=> Owner[r] \in SteadyUsers
  /\ \A u \in Users : \A v \in AcceptedCaps(u) : v \in Nat
BY CapAssumption DEF SteadyUsers, SteadyRequests, AcceptedCaps, ValidCap

\* A step of r touches only r and the counter of its user.
LocalTo(r) ==
  /\ UNCHANGED <<row, cap>>
  /\ \A u \in Users : u # Owner[r] => entry'[u] = entry[u] /\ value'[u] = value[u]
  /\ \A q \in Requests :
       q # r => pc'[q] = pc[q] /\ lim'[q] = lim[q] /\ ptr'[q] = ptr[q] /\ own'[q] = own[q]

LEMMA RequestIsLocal ==
  ASSUME TypeOK, NEW r \in Requests, Request(r)
  PROVE  LocalTo(r)
<1> USE SteadyFacts DEF TypeOK, LocalTo
<1>1. CASE SubKeyAuth(r) \/ AcquireUnlimited(r) \/ LoadOrStore(r)
  BY <1>1 DEF SubKeyAuth, AcquireUnlimited, LoadOrStore
<1>2. CASE Increment(r) \/ RollBack(r)
  BY <1>2 DEF Increment, RollBack
<1>3. CASE ReleaseMiss(r) \/ ReleaseLoad(r) \/ ReleaseAdd(r)
  BY <1>3 DEF ReleaseMiss, ReleaseLoad, ReleaseAdd
<1>4. QED
  BY <1>1, <1>2, <1>3 DEF Request

(* What holds of the steady users and of their requests. *)

SteadyControl ==
  /\ \A u \in SteadyUsers :
       /\ row[u] = "live"
       /\ cap[u] \in AcceptedCaps(u)
       /\ entry[u] \in {NoCell, 1}
       /\ entry[u] = 1 => 0 \notin AcceptedCaps(u)
  /\ \A r \in Requests : Owner[r] \in SteadyUsers =>
       /\ ptr[r] \in {NoCell, 1} /\ own[r] \in {NoCell, 1}
       /\ pc[r] # "new" => lim[r] \in AcceptedCaps(Owner[r])
       /\ own[r] = 1 \/ pc[r] \in {"loaded", "over", "releasing"}
            => lim[r] > 0 /\ entry[Owner[r]] = 1
       /\ pc[r] \in {"inflight", "releasing"} /\ lim[r] > 0 => own[r] = 1

LEMMA SteadyControlInit == Init => SteadyControl
  BY CapAssumption, SteadyFacts DEF Init, SteadyControl, Cells, NoCell

LEMMA SteadyControlStep == Shape /\ SteadyControl /\ [Next]_vars => SteadyControl'
<1> SUFFICES ASSUME Shape, SteadyControl, [Next]_vars PROVE SteadyControl'
  OBVIOUS
<1>0. ASSUME NEW r \in Requests, Owner[r] \notin SteadyUsers, Request(r) PROVE SteadyControl'
  <2>1. LocalTo(r) /\ Owner[r] \in Users \ SteadyUsers
    BY <1>0, RequestIsLocal, SteadyFacts DEF Shape
  <2>2. QED
    BY <2>1, SteadyFacts DEF LocalTo, SteadyControl
<1> USE SteadyFacts DEF Shape, TypeOK, PointersMatchPC, SteadyControl, Cells, NoCell
<1>1. ASSUME NEW r \in Requests, Owner[r] \in SteadyUsers, SubKeyAuth(r) PROVE SteadyControl'
  BY <1>1 DEF SubKeyAuth
<1>2. ASSUME NEW r \in Requests, Owner[r] \in SteadyUsers, AcquireUnlimited(r) PROVE SteadyControl'
  BY <1>2 DEF AcquireUnlimited
<1>3. ASSUME NEW r \in Requests, Owner[r] \in SteadyUsers, LoadOrStore(r) PROVE SteadyControl'
  <2>1. /\ pc[r] = "authed" /\ lim[r] > 0 /\ own[r] = NoCell
        /\ lim[r] \in AcceptedCaps(Owner[r])
        /\ 0 \notin AcceptedCaps(Owner[r])
    BY <1>3 DEF LoadOrStore
  <2>2. /\ entry' = [entry EXCEPT ![Owner[r]] = 1]
        /\ ptr' = [ptr EXCEPT ![r] = 1]
        /\ pc' = [pc EXCEPT ![r] = "loaded"]
        /\ UNCHANGED <<row, cap, value, lim, own>>
    BY <1>3 DEF LoadOrStore, FreshCell
  <2>3. QED
    BY <2>1, <2>2
<1>4. ASSUME NEW r \in Requests, Owner[r] \in SteadyUsers, Increment(r) PROVE SteadyControl'
  BY <1>4 DEF Increment
<1>5. ASSUME NEW r \in Requests, Owner[r] \in SteadyUsers, RollBack(r) PROVE SteadyControl'
  BY <1>5 DEF RollBack, RolledBack
<1>6. ASSUME NEW r \in Requests, Owner[r] \in SteadyUsers, ReleaseMiss(r) PROVE SteadyControl'
  BY <1>6 DEF ReleaseMiss
<1>7. ASSUME NEW r \in Requests, Owner[r] \in SteadyUsers, ReleaseLoad(r) PROVE SteadyControl'
  BY <1>7 DEF ReleaseLoad
<1>8. ASSUME NEW r \in Requests, Owner[r] \in SteadyUsers, ReleaseAdd(r) PROVE SteadyControl'
  BY <1>8 DEF ReleaseAdd
<1>9. ASSUME NEW u \in Users, UpdateMaxConcurrency(u) PROVE SteadyControl'
  BY <1>9 DEF UpdateMaxConcurrency, AcceptedCaps
<1>10. ASSUME NEW u \in Users, DeleteRow(u) PROVE SteadyControl'
  BY <1>10 DEF DeleteRow
<1>11. ASSUME NEW u \in Users, ForgetConcurrency(u) PROVE SteadyControl'
  BY <1>11 DEF ForgetConcurrency
<1>14. CASE Crash
  BY <1>14 DEF Crash
<1>12. CASE UNCHANGED vars
  BY <1>12 DEF vars
<1>13. QED
  BY <1>0, <1>1, <1>2, <1>3, <1>4, <1>5, <1>6, <1>7, <1>8, <1>9, <1>10, <1>11, <1>12, <1>14
     DEF Next, Request, Admin

\* The counter of a steady user is always exactly the number of its holders.
CounterIs == \A u \in SteadyUsers : value[u][1] = Cardinality(Holders(u, 1))

LEMMA CounterIsInit == Init => CounterIs
<1> SUFFICES ASSUME Init, NEW u \in SteadyUsers PROVE value[u][1] = Cardinality(Holders(u, 1))
  BY DEF CounterIs
<1>1. Holders(u, 1) = {}
  BY DEF Init, Holders, NoCell
<1>2. Cardinality(Holders(u, 1)) = 0
  BY <1>1, FS_EmptySet
<1>3. value[u][1] = 0
  BY SteadyFacts DEF Init, Cells
<1>4. QED
  BY <1>2, <1>3

LEMMA CounterIsStep ==
  Shape /\ SteadyControl /\ CounterIs /\ [Next]_vars => CounterIs'
<1> SUFFICES ASSUME Shape, SteadyControl, CounterIs, [Next]_vars,
                    NEW w \in SteadyUsers, NEW g \in Cells, g = 1
             PROVE  value'[w][g] = Cardinality(Holders(w, g))'
  BY DEF CounterIs, Cells
<1>0. TypeOK /\ Cardinality(Holders(w, g)) \in Nat /\ value[w][g] = Cardinality(Holders(w, g))
  BY HoldersFinite DEF Shape, CounterIs
<1>4. ASSUME NEW r \in Requests, Owner[r] \notin SteadyUsers, Request(r)
      PROVE  value'[w][g] = Cardinality(Holders(w, g))'
  <2>1. LocalTo(r) /\ Owner[r] # w
    BY <1>0, <1>4, RequestIsLocal, SteadyFacts
  <2>2. value'[w] = value[w]
    BY <2>1, SteadyFacts DEF LocalTo
  <2>3. Holders(w, g)' = Holders(w, g)
    BY <2>1 DEF LocalTo, Holders
  <2>4. QED
    BY <1>0, <2>2, <2>3
<1>1. ASSUME NEW r \in Requests, Owner[r] \in SteadyUsers, Increment(r) PROVE value'[w][g] = Cardinality(Holders(w, g))'
  <2>1. own' = [own EXCEPT ![r] = ptr[r]] /\ own[r] = NoCell /\ ptr[r] = 1
    BY <1>1, SteadyFacts DEF Increment, Shape, PointersMatchPC, SteadyControl, Cells, NoCell
  <2>2. Cardinality(Holders(w, g))' = IF w = Owner[r] /\ g = ptr[r] THEN Cardinality(Holders(w, g)) + 1
                                                                     ELSE Cardinality(Holders(w, g))
    <3>1. w \in Users /\ ptr[r] \in Cells
      BY <2>1, SteadyFacts DEF Cells
    <3>2. QED
      BY <1>0, <2>1, <3>1, HolderGained
  <2>3. value' = [value EXCEPT ![Owner[r]][1] = value[Owner[r]][1] + 1]
    BY <1>1, <2>1 DEF Increment
  <2>4. value \in [Users -> [Cells -> Int]] /\ Owner[r] \in Users /\ 1 \in Cells /\ w \in Users
    BY <1>0, SteadyFacts DEF TypeOK, Cells
  <2>5. value'[w][1] = IF w = Owner[r] THEN value[w][1] + 1 ELSE value[w][1]
    BY <2>3, <2>4
  <2>6. QED
    BY <1>0, <2>1, <2>2, <2>5
<1>2. ASSUME NEW r \in Requests, Owner[r] \in SteadyUsers, RollBack(r) \/ ReleaseMiss(r) \/ ReleaseAdd(r)
      PROVE  value'[w][g] = Cardinality(Holders(w, g))'
  <2>1. own' = [own EXCEPT ![r] = NoCell]
    BY <1>2 DEF RollBack, ReleaseMiss, ReleaseAdd
  <2>2. Cardinality(Holders(w, g))' = IF w = Owner[r] /\ g = own[r]
                                        THEN Cardinality(Holders(w, g)) - 1
                                        ELSE Cardinality(Holders(w, g))
    BY <1>0, <2>1, HolderLost, SteadyFacts
  <2>3. CASE RollBack(r)
    BY SteadyFacts, <1>0, <2>2, <2>3
       DEF RollBack, RolledBack, TypeOK, Shape, PointersMatchPC, SteadyControl, Cells, NoCell
  <2>4. CASE ReleaseMiss(r)
    BY SteadyFacts, <1>0, <2>2, <2>4 DEF ReleaseMiss, SteadyControl, Cells, NoCell
  <2>5. CASE ReleaseAdd(r)
    BY SteadyFacts, <1>0, <2>2, <2>5
       DEF ReleaseAdd, TypeOK, Shape, PointersMatchPC, SteadyControl, Cells, NoCell
  <2>6. QED
    BY <1>2, <2>3, <2>4, <2>5
<1>3. CASE \/ \E r \in Requests : SubKeyAuth(r) \/ AcquireUnlimited(r) \/ LoadOrStore(r) \/ ReleaseLoad(r)
           \/ \E u \in Users : Admin(u)
           \/ UNCHANGED vars
  <2>1. UNCHANGED <<value, own>>
    BY <1>3 DEF SubKeyAuth, AcquireUnlimited, LoadOrStore, ReleaseLoad, Admin,
                UpdateMaxConcurrency, DeleteRow, ForgetConcurrency, vars
  <2>2. QED
    BY <1>0, <2>1, HoldersKept
<1>6. CASE Crash
  BY <1>6, HoldersDie, SteadyFacts
<1>5. QED
  BY <1>1, <1>2, <1>3, <1>4, <1>6 DEF Next, Request

\* The counter of a steady user is exact, however the positive caps are edited, the
\* requests interleave, and the other users are flipped and deleted.
THEOREM CounterIsExact == Spec => []CounterExact
<1>1. Init => SteadyControl /\ CounterIs
  BY SteadyControlInit, CounterIsInit
<1>2. Shape /\ SteadyControl /\ CounterIs /\ [Next]_vars => SteadyControl' /\ CounterIs'
  BY SteadyControlStep, CounterIsStep
<1>3. SteadyControl /\ CounterIs => CounterExact
  BY DEF SteadyControl, CounterIs, CounterExact, NoCell
<1>4. QED
  BY <1>1, <1>2, <1>3, ShapeInit, ShapeStep, PTL DEF Spec

\* The requests of u in flight under a cap between 1 and n.
Under(u, n) == {r \in InFlight(u) : lim[r] \in 1..n}

LEMMA UnderFinite ==
  ASSUME NEW u, NEW n
  PROVE  IsFiniteSet(Under(u, n)) /\ Cardinality(Under(u, n)) \in Nat
BY CapAssumption, FS_Subset, FS_CardinalityType DEF Under, InFlight

\* Of the requests of a steady user in flight at most n were admitted under a cap
\* of n or less.
THEOREM CapIsHonoured == Spec => []CapHonoured
<1>1. Init => SteadyControl /\ CounterIs /\ CapHonoured
  <2>1. Init => CapHonoured
    <3> SUFFICES ASSUME Init, NEW u \in SteadyUsers, NEW n \in 1..HardLimit
                 PROVE  Cardinality({r \in InFlight(u) : lim[r] \in 1..n}) <= n
      BY DEF CapHonoured, WithinCap
    <3>1. {r \in InFlight(u) : lim[r] \in 1..n} = {}
      BY DEF Init, InFlight
    <3>2. Cardinality({r \in InFlight(u) : lim[r] \in 1..n}) = 0
      BY <3>1, FS_EmptySet
    <3>3. QED
      BY <3>2, CapAssumption
  <2>2. QED
    BY <2>1, SteadyControlInit, CounterIsInit
<1>2. Shape /\ SteadyControl /\ CounterIs /\ CapHonoured /\ [Next]_vars => CapHonoured'
  <2> SUFFICES ASSUME Shape, SteadyControl, CounterIs, CapHonoured, [Next]_vars,
                      NEW u \in SteadyUsers, NEW n \in 1..HardLimit
               PROVE  Cardinality(Under(u, n)') <= n
    BY DEF CapHonoured, WithinCap, Under, InFlight
  <2>0. Cardinality(Under(u, n)) <= n /\ n \in Nat
    BY CapAssumption DEF CapHonoured, WithinCap, Under
  <2>1. ASSUME NEW r \in Requests, Increment(r), pc'[r] = "inflight", Owner[r] = u, lim[r] <= n
        PROVE  Cardinality(Under(u, n)') <= n
    <3>0. SteadyControl'
      BY SteadyControlStep
    <3>1. Under(u, n)' \subseteq Holders(u, 1)'
      BY <3>0, SteadyFacts DEF SteadyControl, Under, InFlight, Holders
    <3>2. IsFiniteSet(Holders(u, 1)') /\ Cardinality(Holders(u, 1)') \in Nat
      BY CapAssumption, FS_Subset, FS_CardinalityType DEF Holders
    <3>3. Cardinality(Under(u, n)') <= Cardinality(Holders(u, 1)') /\ Cardinality(Under(u, n)') \in Nat
      BY <3>1, <3>2, FS_Subset, FS_CardinalityType
    <3>4. Cardinality(Holders(u, 1)') = value'[u][1]
      BY SteadyControlStep, CounterIsStep DEF CounterIs
    <3>5. value'[u][1] <= lim[r] /\ lim[r] \in Nat
      BY CapAssumption, SteadyFacts, <2>1 DEF Increment, Exceeds, Shape, TypeOK, PointersMatchPC, SteadyControl, Cells, NoCell
    <3>6. QED
      BY <2>0, <2>1, <3>2, <3>3, <3>4, <3>5
  <2>2. ASSUME Under(u, n)' \subseteq Under(u, n) PROVE Cardinality(Under(u, n)') <= n
    <3>1. Cardinality(Under(u, n)') <= Cardinality(Under(u, n))
      BY <2>2, UnderFinite, FS_Subset
    <3>2. Cardinality(Under(u, n)') \in Nat
      BY <2>2, UnderFinite, FS_Subset, FS_CardinalityType
    <3>3. QED
      BY <2>0, <3>1, <3>2, UnderFinite
  <2>3. ASSUME NEW r \in Requests, Increment(r),
               ~(pc'[r] = "inflight" /\ Owner[r] = u /\ lim[r] <= n)
        PROVE  Under(u, n)' \subseteq Under(u, n)
    BY <2>3, CapAssumption DEF Increment, Under, InFlight, Shape, TypeOK
  <2>4. ASSUME NEW r \in Requests,
               \/ SubKeyAuth(r) \/ AcquireUnlimited(r) \/ LoadOrStore(r) \/ RollBack(r)
               \/ ReleaseMiss(r) \/ ReleaseLoad(r) \/ ReleaseAdd(r)
        PROVE  Under(u, n)' \subseteq Under(u, n)
    BY <2>4, CapAssumption
       DEF SubKeyAuth, AcquireUnlimited, LoadOrStore, RollBack, ReleaseMiss, ReleaseLoad, ReleaseAdd,
           Under, InFlight, Shape, TypeOK
  <2>5. CASE (\E v \in Users : Admin(v)) \/ UNCHANGED vars
    <3>1. Under(u, n)' = Under(u, n)
      BY <2>5 DEF Admin, UpdateMaxConcurrency, DeleteRow, ForgetConcurrency, vars, Under, InFlight
    <3>2. QED
      BY <3>1, <2>2
  <2>7. CASE Crash
    <3>1. Under(u, n)' \subseteq Under(u, n)
      BY <2>7, CapAssumption DEF Crash, Under, InFlight
    <3>2. QED
      BY <3>1, <2>2
  <2>6. QED
    BY <2>1, <2>2, <2>3, <2>4, <2>5, <2>7 DEF Next, Request
<1>3. Shape /\ SteadyControl /\ CounterIs /\ [Next]_vars => SteadyControl' /\ CounterIs'
  BY SteadyControlStep, CounterIsStep
<1>4. QED
  BY <1>1, <1>2, <1>3, ShapeInit, ShapeStep, PTL DEF Spec

-----------------------------------------------------------------------------
(* The refinement. *)

LEMMA SameCardinality == ASSUME NEW S PROVE Limit!Cardinality(S) = Cardinality(S)
BY DEF Limit!Cardinality, Cardinality, Limit!IsFiniteSet, IsFiniteSet

\* The mapped stages, and how a step of one request changes them.
Stages == [q \in SteadyRequests |-> Stage(pc[q])]
Limits == [q \in SteadyRequests |-> lim[q]]

LEMMA StageChanged ==
  ASSUME TypeOK, NEW r \in SteadyRequests, NEW p, pc' = [pc EXCEPT ![r] = p]
  PROVE  Stages' = [Stages EXCEPT ![r] = Stage(p)] /\ Stages[r] = Stage(pc[r])
BY SteadyFacts DEF TypeOK, Stages

LEMMA StageNames ==
  /\ Stage("new") = "away" /\ Stage("authed") = "asking" /\ Stage("loaded") = "asking"
  /\ Stage("over") = "refusing" /\ Stage("rejected") = "refused"
  /\ Stage("inflight") = "running" /\ Stage("releasing") = "running"
  /\ Stage("done") = "finished"
BY DEF Stage

\* Every step of the counters, for a steady user, is a step of RequestLimit on the mapped state.
LEMMA LimitStep ==
  Shape /\ SteadyControl /\ CounterIs /\ [Next]_vars
    => [Limit!Next]_(Limit!limitVars)
<1> SUFFICES ASSUME Shape, SteadyControl, CounterIs, [Next]_vars
             PROVE  [Limit!Next]_(Limit!limitVars)
  OBVIOUS
<1> USE CapAssumption, SteadyFacts DEF Shape, TypeOK, PointersMatchPC, SteadyControl, Cells, NoCell
<1>0. TypeOK
  OBVIOUS
<1>1. ASSUME NEW r \in SteadyRequests, SubKeyAuth(r) PROVE Limit!Ask(r)
  <2>1. pc' = [pc EXCEPT ![r] = "authed"] /\ pc[r] = "new"
    BY <1>1 DEF SubKeyAuth
  <2>2. Stages' = [Stages EXCEPT ![r] = "asking"] /\ Stages[r] = "away"
    BY <1>0, <2>1, StageChanged, StageNames DEF Stages
  <2>3. /\ cap[Owner[r]] \in [u \in Users |-> AcceptedCaps(u)][Owner[r]]
        /\ Limits' = [Limits EXCEPT ![r] = cap[Owner[r]]]
    BY <1>1 DEF SubKeyAuth, Limits
  <2>4. QED
    BY <2>2, <2>3 DEF Limit!Ask, Stages, Limits
<1>2. ASSUME NEW r \in SteadyRequests, AcquireUnlimited(r) PROVE Limit!Admit(r)
  <2>1. pc' = [pc EXCEPT ![r] = "inflight"] /\ pc[r] = "authed"
    BY <1>2 DEF AcquireUnlimited
  <2>2. Stages' = [Stages EXCEPT ![r] = "running"] /\ Stages[r] = "asking"
    BY <1>0, <2>1, StageChanged, StageNames DEF Stages
  <2>3. Limits[r] = 0 /\ Limits' = Limits
    BY <1>2 DEF AcquireUnlimited, Limits
  <2>4. QED
    BY <2>2, <2>3 DEF Limit!Admit, Stages, Limits
<1>3. ASSUME NEW r \in SteadyRequests, LoadOrStore(r) \/ ReleaseLoad(r) PROVE UNCHANGED Limit!limitVars
  <2>1. \/ pc' = [pc EXCEPT ![r] = "loaded"] /\ pc[r] = "authed"
        \/ pc' = [pc EXCEPT ![r] = "releasing"] /\ pc[r] = "inflight"
    BY <1>3 DEF LoadOrStore, ReleaseLoad
  <2>2. ASSUME pc' = [pc EXCEPT ![r] = "loaded"], pc[r] = "authed" PROVE Stages' = Stages
    <3>1. Stages' = [Stages EXCEPT ![r] = "asking"] /\ Stages[r] = "asking"
      BY <1>0, <2>2, StageChanged, StageNames DEF Stages
    <3>2. QED
      BY <3>1 DEF Stages
  <2>3. ASSUME pc' = [pc EXCEPT ![r] = "releasing"], pc[r] = "inflight" PROVE Stages' = Stages
    <3>1. Stages' = [Stages EXCEPT ![r] = "running"] /\ Stages[r] = "running"
      BY <1>0, <2>3, StageChanged, StageNames DEF Stages
    <3>2. QED
      BY <3>1 DEF Stages
  <2>4. Stages' = Stages
    BY <2>1, <2>2, <2>3
  <2>5. Limits' = Limits
    BY <1>3 DEF LoadOrStore, ReleaseLoad, Limits
  <2>6. QED
    BY <2>4, <2>5 DEF Limit!limitVars, Stages, Limits
<1>4. ASSUME NEW r \in SteadyRequests, Increment(r) PROVE Limit!Admit(r) \/ Limit!TurnAway(r)
  <2> DEFINE H == Holders(Owner[r], 1)
             R == Limit!OthersIn(r, {"running"})
             F == Limit!OthersIn(r, {"running", "refusing"})
  <2>1. /\ IsFiniteSet(H) /\ Cardinality(H) \in Nat
        /\ Cardinality(H) = value[Owner[r]][1]
    BY HoldersFinite DEF CounterIs
  <2>2. /\ lim[r] \in Nat /\ lim[r] > 0 /\ Limits' = Limits /\ Limits[r] = lim[r]
        /\ ptr[r] = 1 /\ own[r] = NoCell
        /\ pc[r] = "loaded" /\ Stages[r] = "asking"
    BY <1>4, StageNames DEF Increment, Stages, Limits
  <2>3. 0 \notin AcceptedCaps(Owner[r])
    BY <2>2
  <2>4. R \subseteq H /\ F = H
    <3>1. \A q \in SteadyRequests : own[q] = 1 => pc[q] \in {"over", "inflight", "releasing"}
      OBVIOUS
    <3>2. \A q \in SteadyRequests :
            /\ Stage(pc[q]) \in {"running", "refusing"} <=> pc[q] \in {"over", "inflight", "releasing"}
            /\ Stage(pc[q]) = "running" => pc[q] \in {"inflight", "releasing"}
      BY StageNames DEF PCs
    <3>3. \A q \in SteadyRequests :
            (Owner[q] = Owner[r] /\ pc[q] \in {"over", "inflight", "releasing"}) => own[q] = 1
      BY <2>3
    <3>4. \A q \in SteadyRequests :
            (q \in F <=> q \in H) /\ (q \in R => q \in H)
      BY <2>2, <3>1, <3>2, <3>3 DEF Limit!OthersIn, Holders
    <3>5. H \subseteq SteadyRequests
      BY DEF Holders
    <3>6. QED
      BY <3>4, <3>5 DEF Limit!OthersIn
  <2>5. CASE Exceeds(value[Owner[r]][1] + 1, lim[r])
    <3>1. pc' = [pc EXCEPT ![r] = "over"]
      BY <1>4, <2>2, <2>5 DEF Increment
    <3>2. Stages' = [Stages EXCEPT ![r] = "refusing"]
      <4> HIDE DEF TypeOK, Shape, SteadyControl, PointersMatchPC, H, R, F
      <4>1. Stages' = [Stages EXCEPT ![r] = Stage(pc'[r])]
        BY <1>0, <3>1, StageChanged DEF TypeOK
      <4>2. QED
        BY <1>0, <3>1, <4>1, StageNames DEF TypeOK
    <3>3. Limit!Cardinality(F) >= lim[r]
      <4>1. Cardinality(H) + 1 > lim[r]
        BY <2>1, <2>5 DEF Exceeds
      <4> HIDE DEF H, F
      <4>2. Limit!Cardinality(F) = Cardinality(H)
        BY <2>4, SameCardinality
      <4>3. QED
        BY <2>1, <2>2, <4>1, <4>2
    <3>4. QED
      BY <2>2, <3>2, <3>3 DEF Limit!TurnAway, Stages, Limits
  <2>6. CASE ~Exceeds(value[Owner[r]][1] + 1, lim[r])
    <3>1. pc' = [pc EXCEPT ![r] = "inflight"]
      BY <1>4, <2>2, <2>6 DEF Increment
    <3>2. Stages' = [Stages EXCEPT ![r] = "running"]
      <4> HIDE DEF TypeOK, Shape, SteadyControl, PointersMatchPC, H, R, F
      <4>1. Stages' = [Stages EXCEPT ![r] = Stage(pc'[r])]
        BY <1>0, <3>1, StageChanged DEF TypeOK
      <4>2. QED
        BY <1>0, <3>1, <4>1, StageNames DEF TypeOK
    <3>3. Cardinality(R) <= Cardinality(H) /\ Cardinality(R) \in Nat
      BY <2>1, <2>4, FS_Subset, FS_CardinalityType
    <3>4. Limit!Cardinality(R) < lim[r]
      <4>1. ~(Cardinality(H) + 1 > lim[r])
        BY <2>1, <2>6 DEF Exceeds
      <4> HIDE DEF H, R
      <4>2. Limit!Cardinality(R) = Cardinality(R)
        BY SameCardinality
      <4>3. QED
        BY <2>1, <2>2, <3>3, <4>1, <4>2
    <3>5. QED
      BY <2>2, <3>2, <3>4 DEF Limit!Admit, Stages, Limits
  <2>7. QED
    BY <2>5, <2>6
<1>5. ASSUME NEW r \in SteadyRequests, RollBack(r) PROVE Limit!Refuse(r)
  <2>1. pc' = [pc EXCEPT ![r] = "rejected"] /\ pc[r] = "over" /\ Limits' = Limits
    BY <1>5 DEF RollBack, Limits
  <2>2. Stages' = [Stages EXCEPT ![r] = "refused"] /\ Stages[r] = "refusing"
    BY <1>0, <2>1, StageChanged, StageNames DEF Stages
  <2>3. QED
    BY <2>1, <2>2 DEF Limit!Refuse, Stages, Limits
<1>6. ASSUME NEW r \in SteadyRequests, ReleaseMiss(r) \/ ReleaseAdd(r) PROVE Limit!Finish(r)
  <2>1. pc' = [pc EXCEPT ![r] = "done"] /\ pc[r] \in {"inflight", "releasing"} /\ Limits' = Limits
    BY <1>6 DEF ReleaseMiss, ReleaseAdd, Limits
  <2>2. Stages' = [Stages EXCEPT ![r] = "finished"] /\ Stages[r] = "running"
    BY <1>0, <2>1, StageChanged, StageNames DEF Stages
  <2>3. QED
    BY <2>1, <2>2 DEF Limit!Finish, Stages, Limits
<1>8. ASSUME NEW r \in Requests, r \notin SteadyRequests, Request(r) PROVE UNCHANGED Limit!limitVars
  <2>1. LocalTo(r)
    BY <1>0, <1>8, RequestIsLocal
  <2>2. \A q \in SteadyRequests : pc'[q] = pc[q] /\ lim'[q] = lim[q]
    BY <1>8, <2>1 DEF LocalTo
  <2>3. QED
    BY <2>2 DEF Limit!limitVars
<1>7. CASE (\E u \in Users : Admin(u)) \/ UNCHANGED vars
  BY <1>7 DEF Admin, UpdateMaxConcurrency, DeleteRow, ForgetConcurrency, vars, Limit!limitVars
<1>10. ASSUME Crash PROVE Limit!Crash
  <2>1. \A q \in SteadyRequests :
          Stage(pc'[q]) = IF Stage(pc[q]) \in {"asking", "running", "refusing"}
                          THEN "finished" ELSE Stage(pc[q])
    <3> SUFFICES ASSUME NEW q \in SteadyRequests
                 PROVE  Stage(pc'[q]) = IF Stage(pc[q]) \in {"asking", "running", "refusing"}
                                        THEN "finished" ELSE Stage(pc[q])
      OBVIOUS
    <3>1. /\ pc[q] \in {"authed", "loaded", "over", "inflight", "releasing"} => pc'[q] = "done"
          /\ pc[q] \in {"new", "rejected", "done"} => pc'[q] = pc[q]
          /\ pc[q] \in PCs
      BY <1>10 DEF Crash
    <3> QED
      BY <3>1, StageNames DEF PCs
  <2>2. Limits' = Limits
    BY <1>10 DEF Crash, Limits
  <2>3. QED
    BY <2>1, <2>2 DEF Limit!Crash, Limits
<1>9. QED
  BY <1>1, <1>2, <1>3, <1>4, <1>5, <1>6, <1>7, <1>8, <1>10 DEF Next, Request, Limit!Next, Limit!Request

\* For the steady users the sync.Map of counters implements the plain limit on the
\* number of running requests, whatever is done to the other users.
THEOREM CountersImplementLimit == Spec => ImplementsRequestLimit
<1>1. Init => SteadyControl /\ CounterIs /\ Limit!Init
  BY SteadyControlInit, CounterIsInit, SteadyFacts DEF Init, Limit!Init, Stage
<1>2. Shape /\ SteadyControl /\ CounterIs /\ [Next]_vars => SteadyControl' /\ CounterIs'
  BY SteadyControlStep, CounterIsStep
<1>3. QED
  BY <1>1, <1>2, LimitStep, ShapeInit, ShapeStep, PTL DEF Spec, Limit!Spec, ImplementsRequestLimit
=============================================================================
