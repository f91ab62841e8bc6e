------------------------ MODULE RouteSelectionProofs ------------------------
(***************************************************************************)
(* The order of the rules: windowMinutes counts the minutes a window       *)
(* covers, Precedes is the order of Outranks, every finite set of rules    *)
(* with different ids can be sorted by it, and so the first hit of the     *)
(* scan is the one rule in force.  This needs endpoints that parseHHMM     *)
(* reads as the time they sort at; what is kept of it for the others is    *)
(* HitNeverDefaults.                                                       *)
(*                                                                         *)
(* The mappings: with one exception, the client's spelling does not decide.*)
(*                                                                         *)
(* The multiplier: the loop over the windows, in whatever order the rows   *)
(* come, ends with the largest open one.                                   *)
(***************************************************************************)
EXTENDS RouteSelection, FiniteSetTheorems, TLAPS

\* parseHHMM reads the endpoint as the time it sorts at.
Valid(e) == e \in EndpointRecords /\ e.read = e.at

LEMMA EndpointTypes ==
  ASSUME NEW e, Valid(e)
  PROVE  e.at \in 0..(Day - 1) /\ e.at \in Int /\ parseHHMM(e) = e.at
BY DayAssumption DEF Valid, EndpointRecords, parseHHMM

\* The size of an interval that is empty or begins below its end.
LEMMA IntervalSize ==
  ASSUME NEW m \in Int, NEW n \in Int, m <= n + 1
  PROVE  IsFiniteSet(m..n) /\ Cardinality(m..n) = n + 1 - m
<1>1. /\ IsFiniteSet(m..n)
      /\ Cardinality(m..n) = IF m > n THEN 0 ELSE n - m + 1
  BY FS_Interval
<1> QED
  BY <1>1

\* windowMinutes is the number of minutes a window covers: by day the interval
\* from start to just before end, overnight the two ends of the day.
THEOREM WidthCountsMinutes ==
  ASSUME NEW start, Valid(start), NEW end, Valid(end)
  PROVE  /\ IsFiniteSet(Covers(start, end))
         /\ windowMinutes(start, end) = Cardinality(Covers(start, end))
<1> DEFINE s == start.at
           e == end.at
<1>1. s \in 0..(Day - 1) /\ e \in 0..(Day - 1) /\ Day \in Nat
  BY EndpointTypes, DayAssumption
<1>2. windowMinutes(start, end) = IF s <= e THEN e - s ELSE (Day - s) + e
  <2>1. parseHHMM(start) = s /\ parseHHMM(end) = e
    BY EndpointTypes
  <2> QED
    BY <1>1, <2>1 DEF windowMinutes
<1>3. CASE s <= e
  <2>1. Covers(start, end) = s..(e - 1)
    BY <1>1, <1>3 DEF Covers, IsInRange
  <2>2. IsFiniteSet(s..(e - 1)) /\ Cardinality(s..(e - 1)) = e - s
    <3>1. s \in Int /\ e - 1 \in Int /\ s <= (e - 1) + 1 /\ (e - 1) + 1 - s = e - s
      BY <1>1, <1>3
    <3>2. IsFiniteSet(s..(e - 1)) /\ Cardinality(s..(e - 1)) = (e - 1) + 1 - s
      BY <3>1, IntervalSize
    <3> QED
      BY <3>1, <3>2
  <2> QED
    BY <1>2, <1>3, <2>1, <2>2
<1>4. CASE ~(s <= e)
  <2> DEFINE Morning == 0..(e - 1)
             Evening == s..(Day - 1)
  <2>1. Covers(start, end) = Morning \cup Evening
    BY <1>1, <1>4 DEF Covers, IsInRange
  <2>2. Morning \cap Evening = {}
    BY <1>1, <1>4
  <2>3. IsFiniteSet(Morning) /\ Cardinality(Morning) = e
    <3>1. e - 1 \in Int /\ 0 <= (e - 1) + 1 /\ (e - 1) + 1 - 0 = e
      BY <1>1
    <3>2. IsFiniteSet(0..(e - 1)) /\ Cardinality(0..(e - 1)) = (e - 1) + 1 - 0
      BY <3>1, IntervalSize
    <3> QED
      BY <3>1, <3>2
  <2>4. IsFiniteSet(Evening) /\ Cardinality(Evening) = Day - s
    <3>1. s \in Int /\ Day - 1 \in Int /\ s <= (Day - 1) + 1 /\ (Day - 1) + 1 - s = Day - s
      BY <1>1
    <3>2. IsFiniteSet(s..(Day - 1)) /\ Cardinality(s..(Day - 1)) = (Day - 1) + 1 - s
      BY <3>1, IntervalSize
    <3> QED
      BY <3>1, <3>2
  <2>5. Cardinality({}) = 0
    BY FS_EmptySet
  <2>6. /\ IsFiniteSet(Morning \cup Evening)
        /\ Cardinality(Morning \cup Evening) = e + (Day - s)
    <3> HIDE DEF Morning, Evening
    <3>1. /\ IsFiniteSet(Morning \cup Evening)
          /\ Cardinality(Morning \cup Evening)
               = Cardinality(Morning) + Cardinality(Evening) - Cardinality(Morning \cap Evening)
      BY <2>3, <2>4, FS_Union
    <3>2. Cardinality(Morning \cap Evening) = 0
      BY <2>2, <2>5
    <3>3. Cardinality(Morning \cup Evening) = e + (Day - s) - 0
      BY <2>3, <2>4, <3>1, <3>2
    <3>4. e + (Day - s) - 0 = e + (Day - s)
      BY <1>1
    <3> QED
      BY <3>1, <3>3, <3>4
  <2> QED
    BY <1>1, <1>2, <1>4, <2>1, <2>6
<1> QED
  BY <1>3, <1>4

ParsedRules == {r \in Rules : Valid(r.start) /\ Valid(r.end)}

\* The comparison sortRoutingRules sorts by is the precedence its comment states,
\* for any two different rules whose endpoints parse.
THEOREM SortedByPrecedence ==
  ASSUME NEW a \in ParsedRules, NEW b \in ParsedRules, a.id # b.id
  PROVE  Precedes(a, b) <=> Outranks(a, b)
<1>1. /\ windowMinutes(a.start, a.end) = Minutes(a)
      /\ windowMinutes(b.start, b.end) = Minutes(b)
  BY WidthCountsMinutes DEF ParsedRules, Minutes
<1>2. Minutes(a) \in Nat /\ Minutes(b) \in Nat
  BY WidthCountsMinutes, FS_CardinalityType DEF ParsedRules, Minutes
<1>3. a.priority \in Int /\ b.priority \in Int /\ a.id \in Nat /\ b.id \in Nat
  BY RouteAssumption DEF ParsedRules, Rules
<1> QED
  BY <1>1, <1>2, <1>3 DEF Precedes, Outranks

\* The lookup of RewriteModel (internal/router/selector.go): for every set of mappings,
\* every way to fold spellings and every provider, a name that is mapped for the
\* provider is rewritten to what it is mapped to, unless another spelling of it is mapped
\* for other providers only: then it may also stay as it was.
THEOREM MappingsAreFound == Spec => []MappingFound
<1>1. MappingFound
  <2> SUFFICES ASSUME NEW x \in Spellings, NEW p \in available
               PROVE  LET alike == {k \in DOMAIN mappings : Fold[k] = Fold[x]}
                          forP  == {k \in alike : Maps(k, p)}
                          found == {mappings[k][p] : k \in forP}
                      IN  RewriteModel(x, p) \subseteq
                            IF x \in forP \/ (forP = alike /\ alike # {})
                            THEN found ELSE found \cup {x}
    BY DEF MappingFound
  <2> DEFINE alike == {k \in DOMAIN mappings : Fold[k] = Fold[x]}
             forP  == {k \in alike : Maps(k, p)}
  <2>1. CASE x \in forP
    BY <2>1 DEF RewriteModel
  <2>2. CASE x \notin forP
    <3>1. RewriteModel(x, p)
            = IF alike = {} THEN {x}
              ELSE {IF Maps(k, p) THEN mappings[k][p] ELSE x : k \in alike}
      BY <2>2 DEF RewriteModel
    <3> QED
      BY <2>2, <3>1
  <2> QED
    BY <2>1, <2>2
<1> QED
  BY <1>1, PTL

\* The router's snapshot and the clock keep their types, and whatever snapshot is
\* swapped in (Router.Reload), its default is one of its own providers.
THEOREM RouteTypes == Spec => []TypeOK
<1>1. Init => TypeOK
  BY RouteAssumption, DayAssumption DEF Init, DefaultOf, TypeOK
<1>2. TypeOK /\ [Next]_vars => TypeOK'
  <2> SUFFICES ASSUME TypeOK, [Next]_vars PROVE TypeOK'
    OBVIOUS
  <2>1. CASE NextMinute
    <3>1. minute' \in 0..(Day - 1)
      BY <2>1, DayAssumption DEF NextMinute, TypeOK
    <3>2. weekday' \in 0..(Weekdays - 1)
      BY <2>1, RouteAssumption DEF NextMinute, TypeOK
    <3> QED
      BY <2>1, <3>1, <3>2 DEF NextMinute, TypeOK
  <2>2. CASE SwapProviders
    BY <2>2 DEF SwapProviders, DefaultOf, TypeOK
  <2>3. CASE UNCHANGED vars
    BY <2>3 DEF vars, TypeOK
  <2> QED
    BY <2>1, <2>2, <2>3 DEF Next
<1> QED
  BY <1>1, <1>2, PTL DEF Spec
-----------------------------------------------------------------------------
(* sortRoutingRules has a result, and its first hit is the rule in force.     *)

LEMMA MinIsLeast ==
  ASSUME NEW S \in SUBSET Nat, S # {}
  PROVE  Min(S) \in S /\ \A n \in S : Min(S) <= n
<1> DEFINE R == OpToRel(<, Nat)
<1>1. \A m, n \in Nat : m < n => <<m, n>> \in R
  BY DEF OpToRel
<1>2. IsWellFoundedOn(R, Nat)
  BY NatLessThanWellFounded
<1> HIDE DEF R
<1>3. PICK m \in S : \A n \in S : ~(<<n, m>> \in R)
  BY <1>2, WFMin
<1>4. ASSUME NEW n \in S PROVE m <= n
  <2>1. m \in Nat /\ n \in Nat /\ ~(n < m)
    BY <1>1, <1>3
  <2> QED
    BY <2>1
<1> QED
  BY <1>4 DEF Min

\* Among the subsets of a finite set there is always a smallest one of a kind.
LEMMA SmallestSubset ==
  ASSUME NEW K, IsFiniteSet(K), NEW B \in SUBSET SUBSET K, B # {}
  PROVE  \E s \in B : \A u \in B : u \subseteq s => u = s
<1> DEFINE R == StrictSubsetOrdering(K)
<1>1. IsWellFoundedOn(R, SUBSET K)
  <2>1. IsWellFoundedOn(R, FiniteSubsetsOf(K))
    BY FS_StrictSubsetOrderingWellFounded
  <2>2. FiniteSubsetsOf(K) = SUBSET K
    BY FS_FiniteSubsetsOfFinite
  <2> QED
    BY <2>1, <2>2
<1>2. \A u, s \in SUBSET K : u \subseteq s /\ u # s => <<u, s>> \in R
  BY DEF StrictSubsetOrdering
<1> HIDE DEF R
<1>3. PICK s \in B : \A u \in B : ~(<<u, s>> \in R)
  BY <1>1, WFMin
<1> QED
  BY <1>2, <1>3

\* Whether or not its endpoints parse, a window has a width.
LEMMA WidthIsInt == \A r \in Rules : windowMinutes(r.start, r.end) \in Int
<1> SUFFICES ASSUME NEW r \in Rules PROVE windowMinutes(r.start, r.end) \in Int
  OBVIOUS
<1>1. r.start \in EndpointRecords /\ r.end \in EndpointRecords
  BY RouteAssumption DEF Rules
<1>2. parseHHMM(r.start) \in Int /\ parseHHMM(r.end) \in Int
  BY <1>1, DayAssumption DEF EndpointRecords, parseHHMM
<1> QED
  BY <1>2, DayAssumption DEF windowMinutes

\* No two rules have the same id.
Apart(K) == \A a, b \in K : a # b => a.id # b.id

\* The comparison of sortRoutingRules is a strict total order on the rules of a snapshot,
\* whatever their endpoints: it is irreflexive, transitive and, on different ids, total.
\* So sort.SliceStable has one result and the first rule that is hit is well defined.
THEOREM PrecedenceIsTotal ==
  ASSUME NEW K \in SUBSET Rules, Apart(K)
  PROVE  /\ \A a \in K : ~Precedes(a, a)
         /\ \A a, b, c \in K : Precedes(a, b) /\ Precedes(b, c) => Precedes(a, c)
         /\ \A a, b \in K : a # b => Precedes(a, b) \/ Precedes(b, a)
<1> DEFINE W(r) == windowMinutes(r.start, r.end)
<1>1. \A a \in K : W(a) \in Int /\ a.priority \in Int /\ a.id \in Nat
  BY WidthIsInt, RouteAssumption DEF Rules
<1>2. \A x, y : Precedes(x, y) <=> IF x.priority # y.priority THEN x.priority > y.priority
                                  ELSE IF W(x) # W(y) THEN W(x) < W(y) ELSE x.id < y.id
  BY DEF Precedes
<1> HIDE DEF W
<1>3. \A a \in K : ~Precedes(a, a)
  BY <1>1, <1>2
<1>4. ASSUME NEW a \in K, NEW b \in K, NEW c \in K, Precedes(a, b), Precedes(b, c)
      PROVE  Precedes(a, c)
  BY <1>1, <1>2, <1>4
<1>5. ASSUME NEW a \in K, NEW b \in K, a # b
      PROVE  Precedes(a, b) \/ Precedes(b, a)
  <2>1. a.id # b.id
    BY <1>5 DEF Apart
  <2> QED
    BY <1>1, <1>2, <2>1
<1> QED
  BY <1>3, <1>4, <1>5

\* Of finitely many rules one comes after all others.
LEMMA LastRule ==
  ASSUME NEW K \in SUBSET Rules, IsFiniteSet(K), Apart(K), K # {}
  PROVE  \E m \in K : \A a \in K \ {m} : Precedes(a, m)
<1> DEFINE Bad == {U \in SUBSET K : U # {} /\ ~\E m \in U : \A a \in U \ {m} : Precedes(a, m)}
<1> SUFFICES ASSUME Bad # {} PROVE FALSE
  OBVIOUS
<1>0. Bad \in SUBSET SUBSET K
  OBVIOUS
<1>1. PICK U \in Bad : \A V \in Bad : V \subseteq U => V = U
  <2> HIDE DEF Bad
  <2> QED
    BY <1>0, SmallestSubset
<1>2. PICK x \in U : TRUE
  OBVIOUS
<1>3. U \ {x} # {}
  BY <1>2
<1>4. U \ {x} \notin Bad
  BY <1>1, <1>2
<1>5. PICK m \in U \ {x} : \A a \in (U \ {x}) \ {m} : Precedes(a, m)
  BY <1>3, <1>4
<1>6. m \in K /\ x \in K /\ m # x
  BY <1>2, <1>5
<1>7. CASE Precedes(x, m)
  <2>1. \A a \in U \ {m} : Precedes(a, m)
    BY <1>5, <1>7
  <2> QED
    BY <1>5, <2>1
<1>8. CASE Precedes(m, x)
  <2>1. ASSUME NEW a \in U \ {x} PROVE Precedes(a, x)
    <3>1. a = m \/ Precedes(a, m)
      BY <1>5, <2>1
    <3>2. a \in K
      BY <2>1
    <3> QED
      BY <1>6, <1>8, <3>1, <3>2, PrecedenceIsTotal
  <2> QED
    BY <1>2, <2>1
<1> QED
  BY <1>6, <1>7, <1>8, PrecedenceIsTotal

InOrder(s) == \A i, j \in DOMAIN s : i < j => Precedes(s[i], s[j])

\* sort.SliceStable has a result: the last rule goes after the sorted others.
LEMMA SortExists ==
  ASSUME NEW K \in SUBSET Rules, IsFiniteSet(K), Apart(K)
  PROVE  \E s \in SetToSeqs(K) : InOrder(s)
<1> DEFINE Bad == {U \in SUBSET K : ~\E s \in SetToSeqs(U) : InOrder(s)}
<1> SUFFICES ASSUME Bad # {} PROVE FALSE
  OBVIOUS
<1>0. Bad \in SUBSET SUBSET K
  OBVIOUS
<1>1. PICK U \in Bad : \A V \in Bad : V \subseteq U => V = U
  <2> HIDE DEF Bad
  <2> QED
    BY <1>0, SmallestSubset
<1>2. U \in SUBSET Rules /\ IsFiniteSet(U) /\ Apart(U)
  BY FS_Subset DEF Apart
<1>3. CASE U = {}
  <2>1. Cardinality(U) = 0
    BY <1>3, FS_EmptySet
  <2>2. <<>> \in SetToSeqs(U) /\ InOrder(<<>>)
    BY <2>1 DEF SetToSeqs, InOrder
  <2> QED
    BY <2>2
<1>4. CASE U # {}
  <2>1. PICK m \in U : \A a \in U \ {m} : Precedes(a, m)
    BY <1>2, <1>4, LastRule
  <2>2. U \ {m} \notin Bad
    BY <1>1, <2>1
  <2>3. PICK t \in SetToSeqs(U \ {m}) : InOrder(t)
    BY <2>2
  <2> DEFINE n == Cardinality(U)
             s == [i \in 1..n |-> IF i = n THEN m ELSE t[i]]
  <2>4. n \in Nat /\ n # 0 /\ Cardinality(U \ {m}) = n - 1
    BY <1>2, <2>1, FS_CardinalityType, FS_RemoveElement, FS_EmptySet
  <2>5. /\ t \in [1..(n - 1) -> U \ {m}]
        /\ \A i, j \in 1..(n - 1) : i # j => t[i] # t[j]
    BY <2>3, <2>4 DEF SetToSeqs
  <2> HIDE DEF n
  <2>6. \A i \in 1..n : i # n => i \in 1..(n - 1)
    BY <2>4
  <2>7. s \in [1..n -> U]
    BY <2>1, <2>5, <2>6
  <2>8. \A i, j \in 1..n : i # j => s[i] # s[j]
    BY <2>5, <2>6
  <2>9. ASSUME NEW i \in 1..n, NEW j \in 1..n, i < j PROVE Precedes(s[i], s[j])
    <3>1. i # n
      BY <2>4, <2>9
    <3>2. s[i] = t[i] /\ t[i] \in U \ {m} /\ i \in 1..(n - 1)
      BY <2>5, <2>6, <3>1
    <3>3. CASE j = n
      BY <2>1, <3>2, <3>3
    <3>4. CASE j # n
      BY <2>3, <2>5, <2>6, <2>9, <3>2, <3>4 DEF InOrder
    <3> QED
      BY <3>3, <3>4
  <2>10. s \in SetToSeqs(U) /\ InOrder(s)
    BY <2>7, <2>8, <2>9 DEF SetToSeqs, InOrder, n
  <2> QED
    BY <2>10
<1> QED
  BY <1>3, <1>4

\* Every rule of the snapshot has its own id.
IdsKept == \A i \in RuleIds : rules[i].id = i

Snapshot == {rules[i] : i \in RuleIds}

\* What sortRoutingRules returns: every rule of the snapshot, in order.
LEMMA SortIsRight ==
  ASSUME TypeOK, IdsKept
  PROVE  /\ sortRoutingRules \in [1..Cardinality(Snapshot) -> Snapshot]
         /\ Cardinality(Snapshot) \in Nat
         /\ InOrder(sortRoutingRules)
         /\ \A r \in Snapshot : \E i \in 1..Cardinality(Snapshot) : sortRoutingRules[i] = r
<1>1. Snapshot \in SUBSET Rules /\ Apart(Snapshot)
  BY DEF TypeOK, IdsKept, Snapshot, Apart
<1>2. IsFiniteSet(Snapshot)
  <2>1. rules \in Surjection(RuleIds, Snapshot)
    BY DEF TypeOK, Snapshot, Surjection
  <2> QED
    BY <2>1, RouteAssumption, FS_Surjection
<1>3. Cardinality(Snapshot) \in Nat
  BY <1>2, FS_CardinalityType
<1> DEFINE s == sortRoutingRules
<1>4. s \in SetToSeqs(Snapshot) /\ InOrder(s)
  BY <1>1, <1>2, SortExists DEF sortRoutingRules, Snapshot, InOrder
<1> HIDE DEF s
<1>5. /\ s \in [1..Cardinality(Snapshot) -> Snapshot]
      /\ \A i, j \in 1..Cardinality(Snapshot) : i # j => s[i] # s[j]
  BY <1>4 DEF SetToSeqs
<1>6. s \in Surjection(1..Cardinality(Snapshot), Snapshot)
  <2> DEFINE n == Cardinality(Snapshot)
  <2>1. IsFiniteSet(1..n) /\ Cardinality(1..n) = n
    <3> HIDE DEF n
    <3>1. n \in Nat
      BY <1>3 DEF n
    <3> QED
      BY <3>1, IntervalSize
  <2>2. s \in Injection(1..n, Snapshot)
    BY <1>5 DEF Injection, IsInjective
  <2> QED
    BY <1>2, <2>1, <2>2, FS_Injection
<1> QED
  BY <1>3, <1>4, <1>5, <1>6 DEF Surjection, s

\* The loop of ResolveProvider: without a hit the default, else the rule that precedes
\* every other rule that is hit.
LEMMA FirstHit ==
  ASSUME TypeOK, IdsKept
  PROVE  /\ Covering = {} => ResolveProvider = defaultProvider
         /\ Covering # {} => \E r \in Covering : /\ ResolveProvider = Chosen(r.provider)
                                                 /\ \A q \in Covering \ {r} : Precedes(r, q)
<1> DEFINE s == sortRoutingRules
           n == Cardinality(Snapshot)
           I == {i \in 1..Len(s) : Hits(s[i])}
<1>1. /\ s \in [1..n -> Snapshot] /\ n \in Nat /\ InOrder(s)
      /\ \A r \in Snapshot : \E i \in 1..n : s[i] = r
  BY SortIsRight
<1>2. ResolveProvider = IF I = {} THEN defaultProvider ELSE Chosen(s[Min(I)].provider)
  <2>1. SelectInSeq(s, Hits) = IF I # {} THEN Min(I) ELSE 0
    BY DEF SelectInSeq
  <2>2. I # {} => Min(I) # 0
    BY MinIsLeast
  <2> QED
    BY <2>1, <2>2 DEF ResolveProvider
<1>3. Covering = {r \in Snapshot : Hits(r)}
  BY DEF Covering, Snapshot
<1> HIDE DEF s, n
<1>4. Len(s) = n /\ DOMAIN s = 1..n
  BY <1>1
<1>5. CASE I = {}
  <2>1. Covering = {}
    BY <1>1, <1>3, <1>4, <1>5
  <2> QED
    BY <1>2, <1>5, <2>1
<1>6. CASE I # {}
  <2>1. I \in SUBSET Nat
    BY <1>1, <1>4
  <2> DEFINE m == Min(I)
  <2>2. m \in I /\ \A i \in I : m <= i
    BY <1>6, <2>1, MinIsLeast
  <2> HIDE DEF m
  <2>3. s[m] \in Covering
    BY <1>1, <1>3, <1>4, <2>2
  <2>4. ASSUME NEW q \in Covering \ {s[m]} PROVE Precedes(s[m], q)
    <3>1. PICK j \in 1..n : s[j] = q
      BY <1>1, <1>3
    <3>2. j \in I /\ j # m
      BY <1>3, <1>4, <3>1
    <3>3. m < j
      BY <2>1, <2>2, <3>2
    <3> QED
      BY <1>1, <1>4, <2>2, <3>1, <3>3 DEF InOrder
  <2>5. ResolveProvider = Chosen(s[m].provider)
    BY <1>2, <1>6 DEF m
  <2> QED
    BY <2>3, <2>4, <2>5
<1> QED
  BY <1>5, <1>6

EndpointsParse == \A e \in Endpoints : e.read = e.at

LEMMA CoveringRules ==
  ASSUME EndpointsParse, TypeOK, IdsKept
  PROVE  Covering \in SUBSET ParsedRules /\ Apart(Covering)
<1>1. \A r \in Rules : r \in ParsedRules
  BY RouteAssumption DEF EndpointsParse, Rules, ParsedRules, Valid
<1>2. Covering \in SUBSET Rules /\ Apart(Covering)
  BY DEF Covering, TypeOK, IdsKept, Apart
<1> QED
  BY <1>1, <1>2

\* The one rule in force decides.
LEMMA InForceDecides ==
  ASSUME EndpointsParse, TypeOK, IdsKept
  PROVE  /\ Covering = {} => ResolveProvider = defaultProvider /\ InForce = {}
         /\ Covering # {} => \E r \in InForce : InForce = {r} /\ ResolveProvider = Chosen(r.provider)
<1>1. Covering = {} => InForce = {}
  BY DEF InForce
<1>2. ASSUME Covering # {}
      PROVE  \E r \in InForce : InForce = {r} /\ ResolveProvider = Chosen(r.provider)
  <2>1. PICK r \in Covering : /\ ResolveProvider = Chosen(r.provider)
                              /\ \A q \in Covering \ {r} : Precedes(r, q)
    BY <1>2, FirstHit
  <2>2. \A q \in Covering \ {r} :
          q \in ParsedRules /\ r \in ParsedRules /\ r.id # q.id
    BY CoveringRules DEF Apart
  <2>3. \A q \in Covering \ {r} : Outranks(r, q)
    BY <2>1, <2>2, SortedByPrecedence
  <2>4. ASSUME NEW q \in Covering \ {r} PROVE ~Outranks(q, r)
    <3>1. Precedes(r, q) /\ q \in ParsedRules /\ r \in ParsedRules /\ r.id # q.id
      BY <2>1, <2>2
    <3>2. ~Precedes(q, r)
      <4> DEFINE K == {q, r}
      <4>1. K \in SUBSET Rules /\ Apart(K)
        BY <3>1 DEF ParsedRules, Apart
      <4>2. ~Precedes(q, q) /\ (Precedes(q, r) /\ Precedes(r, q) => Precedes(q, q))
        BY <4>1, PrecedenceIsTotal
      <4> QED
        BY <3>1, <4>2
    <3> QED
      BY <3>1, <3>2, SortedByPrecedence
  <2>5. InForce = {r}
    BY <2>3, <2>4 DEF InForce
  <2> QED
    BY <2>1, <2>5
<1> QED
  BY <1>1, <1>2, FirstHit

LEMMA RouteInv == Spec => [](TypeOK /\ IdsKept)
<1>1. Init => IdsKept
  BY DEF Init, IdsKept
<1>2. IdsKept /\ [Next]_vars => IdsKept'
  BY DEF IdsKept, Next, NextMinute, SwapProviders, vars
<1> QED
  BY <1>1, <1>2, RouteTypes, PTL DEF Spec

\* ResolveProvider (internal/router/selector.go), the precedence of its comment: for every
\* set of rules and providers and at every minute, the rule in force decides, and the
\* default serves only while no window is hit.  Needs endpoints that parse: the width
\* sortRoutingRules gives to any other window is not the time it covers.
THEOREM PrecedenceDecides == ASSUME EndpointsParse PROVE Spec => []PrecedenceHonoured
<1>1. TypeOK /\ IdsKept => PrecedenceHonoured
  BY InForceDecides DEF PrecedenceHonoured, Chosen
<1> QED
  BY <1>1, RouteInv, PTL

\* Which provider serves in place of one that has left the snapshot (Handler.ServeHTTP,
\* PassthroughHandler.ServeHTTP, ResolveProvider): none for a pinned request and on the
\* passthrough path; on the chat path the config's default provider, and only when the
\* provider of the rule in force has left.
THEOREM ReplacementIsLegacy == ASSUME EndpointsParse PROVE Spec => []ReplacedOnlyByLegacy
<1>1. TypeOK /\ IdsKept => ReplacedOnlyByLegacy
  <2> SUFFICES ASSUME TypeOK, IdsKept, NEW u \in Routes
               PROVE  IF Pinned(u)
                      THEN ChatTarget(u) \cup PassthroughTarget(u) \subseteq {u.fixed, None}
                      ELSE \A r \in InForce :
                             /\ ChatTarget(u) = {IF r.provider \in available
                                                THEN r.provider ELSE LegacyProvider}
                             /\ PassthroughTarget(u) \subseteq {r.provider, None}
    BY DEF ReplacedOnlyByLegacy
  <2>1. CASE Pinned(u)
    BY <2>1 DEF ChatTarget, PassthroughTarget, Chosen
  <2>2. CASE ~Pinned(u)
    <3> SUFFICES ASSUME NEW r \in InForce
                 PROVE  /\ ChatTarget(u) = {IF r.provider \in available
                                           THEN r.provider ELSE LegacyProvider}
                        /\ PassthroughTarget(u) \subseteq {r.provider, None}
      BY <2>2
    <3>1. ResolveProvider = Chosen(r.provider)
      BY InForceDecides
    <3>2. r.provider # None
      BY RouteAssumption DEF InForce, Covering, TypeOK, Rules
    <3>3. ChatTarget(u) = {IF r.provider \in available THEN r.provider ELSE LegacyProvider}
      BY <2>2, <3>1, <3>2 DEF ChatTarget, Chosen
    <3>4. PassthroughTarget(u) \subseteq {r.provider, None}
      BY <2>2, <3>1 DEF PassthroughTarget, Chosen
    <3> QED
      BY <3>3, <3>4
  <2> QED
    BY <2>1, <2>2
<1> QED
  BY <1>1, RouteInv, PTL

\* The same promise without the precedence, for whatever endpoints an admin has typed.
HitNeverDefaults ==
  Covering # {} => \E r \in Covering : ResolveProvider \subseteq {r.provider, None}

\* Whatever endpoints an admin has typed, once any window is hit the provider is that of a
\* window that is hit, or none (ResolveProvider, internal/router/selector.go).
THEOREM HitsAreServed == Spec => []HitNeverDefaults
<1>1. TypeOK /\ IdsKept => HitNeverDefaults
  BY FirstHit DEF HitNeverDefaults, Chosen
<1> QED
  BY <1>1, RouteInv, PTL
-----------------------------------------------------------------------------
(* What a request costs.                                                     *)

\* The loop of GetEffectiveMultiplier after the rows of T, for every set T of D.
Loops(f, D) ==
  f = [T \in D |-> IF T = {} THEN Engine!Base
                   ELSE Engine!Larger(f[T \ {Max(T)}], windows[Max(T)])]

LEMMA MaxIsIn ==
  ASSUME NEW n \in Nat, NEW T \in SUBSET (1..n), T # {}
  PROVE  Max(T) \in T
<1> DEFINE Up == {n - i : i \in T}
<1>0. \A i \in T : i \in Nat /\ n - i \in Nat
  OBVIOUS
<1>1. Up \in SUBSET Nat /\ Up # {}
  BY <1>0
<1>2. Min(Up) \in Up /\ \A k \in Up : Min(Up) <= k
  BY <1>1, MinIsLeast
<1>3. PICK m \in T : Min(Up) = n - m
  BY <1>2
<1>4. ASSUME NEW i \in T PROVE m >= i
  <2>1. n - i \in Up /\ i \in Nat /\ m \in Nat
    BY <1>0
  <2>2. n - m <= n - i
    BY <1>2, <1>3, <2>1
  <2> QED
    BY <2>1, <2>2
<1> QED
  BY <1>4 DEF Max

\* One row off a set of rows.
LEMMA OneRowLess ==
  ASSUME NEW n \in Nat, NEW T \in SUBSET (1..n), T # {}
  PROVE  /\ Max(T) \in T
         /\ T \ {Max(T)} \in SUBSET (1..n) /\ T \ {Max(T)} # T
         /\ IsFiniteSet(T) /\ Cardinality(T) \in Nat
         /\ Cardinality(T \ {Max(T)}) = Cardinality(T) - 1
<1>1. Max(T) \in T
  BY MaxIsIn
<1>2. IsFiniteSet(1..n)
  BY FS_Interval
<1>3. IsFiniteSet(T)
  BY <1>2, FS_Subset
<1>4. Cardinality(T) \in Nat /\ Cardinality(T \ {Max(T)}) = Cardinality(T) - 1
  BY <1>1, <1>3, FS_CardinalityType, FS_RemoveElement
<1> QED
  BY <1>1, <1>3, <1>4

\* The recursion of FoldLeft has a solution: one on sets of k - 1 rows gives one on k.
LEMMA LoopExists ==
  ASSUME NEW n \in Nat
  PROVE  \E f : Loops(f, SUBSET (1..n))
<1> DEFINE D(k) == {T \in SUBSET (1..n) : Cardinality(T) <= k}
           Bad == {k \in Nat : ~\E f : Loops(f, D(k))}
<1>1. Bad = {}
  <2> SUFFICES ASSUME Bad # {} PROVE FALSE
    OBVIOUS
  <2> DEFINE k == Min(Bad)
  <2>1. k \in Bad /\ \A j \in Bad : k <= j
    BY MinIsLeast
  <2> HIDE DEF k
  <2>2. CASE k = 0
    <3>1. \A T \in D(0) : T = {}
      <4> SUFFICES ASSUME NEW T \in D(0), T # {} PROVE FALSE
        OBVIOUS
      <4>1. IsFiniteSet(T) /\ Cardinality(T) \in Nat /\ Cardinality(T) <= 0
        BY OneRowLess
      <4> QED
        BY <4>1, FS_EmptySet
    <3>2. Loops([T \in D(0) |-> Engine!Base], D(0))
      BY <3>1 DEF Loops
    <3> QED
      BY <2>1, <2>2, <3>2
  <2>3. CASE k # 0
    <3>1. k \in Nat /\ k - 1 \in Nat /\ ~(k <= k - 1)
      BY <2>1, <2>3
    <3>2. k - 1 \notin Bad
      BY <2>1, <3>1
    <3>3. PICK g : Loops(g, D(k - 1))
      BY <3>1, <3>2
    <3> DEFINE Turn(h, T) == IF T = {} THEN Engine!Base
                             ELSE Engine!Larger(h[T \ {Max(T)}], windows[Max(T)])
               f == [T \in D(k) |-> Turn(g, T)]
    <3>4. ASSUME NEW T \in D(k), T # {}
          PROVE  f[T \ {Max(T)}] = g[T \ {Max(T)}]
      <4> DEFINE u == T \ {Max(T)}
      <4>1. Cardinality(u) = Cardinality(T) - 1 /\ Cardinality(T) \in Nat /\ Cardinality(T) <= k
            /\ u \in SUBSET (1..n)
        BY <3>4, OneRowLess
      <4>2. u \in D(k - 1) /\ u \in D(k)
        BY <3>1, <4>1
      <4>3. g[u] = Turn(g, u)
        BY <3>3, <4>2 DEF Loops
      <4>4. f[u] = Turn(g, u)
        BY <4>2
      <4> QED
        BY <4>3, <4>4
    <3>5. \A T \in D(k) : Turn(g, T) = Turn(f, T)
      BY <3>4
    <3>6. f = [T \in D(k) |-> Turn(f, T)]
      <4> HIDE DEF Turn
      <4> QED
        BY <3>5
    <3>7. Loops(f, D(k))
      BY <3>6 DEF Loops
    <3> QED
      BY <2>1, <3>7
  <2> QED
    BY <2>2, <2>3
<1>2. D(n) = SUBSET (1..n)
  <2>1. IsFiniteSet(1..n) /\ Cardinality(1..n) = n
    BY IntervalSize
  <2> QED
    BY <2>1, FS_Subset
<1>3. \E f : Loops(f, D(n))
  BY <1>1
<1> QED
  BY <1>2, <1>3

\* What the loop holds after the rows of T: the base or the multiplier of a window of T
\* that is open, and no less than any of these.
Largest(m, T) ==
  /\ m \in Nat /\ m >= Engine!Base
  /\ m = Engine!Base \/ \E i \in T : Engine!Open(windows[i]) /\ m = windows[i].multiplier
  /\ \A i \in T : Engine!Open(windows[i]) => m >= windows[i].multiplier

LEMMA LoopHoldsLargest ==
  ASSUME NEW n \in Nat, windows \in [1..n -> Engine!WindowRows], NEW f, Loops(f, SUBSET (1..n))
  PROVE  Largest(f[1..n], 1..n)
<1> DEFINE Bad == {T \in SUBSET (1..n) : ~Largest(f[T], T)}
<1> SUFFICES ASSUME Bad # {} PROVE FALSE
  OBVIOUS
<1>1. PICK T \in Bad : \A V \in Bad : V \subseteq T => V = T
  <2> DEFINE K == 1..n
  <2>1. Bad \in SUBSET SUBSET K /\ IsFiniteSet(K)
    BY FS_Interval
  <2> HIDE DEF Bad, K
  <2> QED
    BY <2>1, SmallestSubset
<1>2. f[T] = IF T = {} THEN Engine!Base
             ELSE Engine!Larger(f[T \ {Max(T)}], windows[Max(T)])
  BY DEF Loops
<1>3. CASE T = {}
  BY <1>2, <1>3 DEF Largest, Engine!Base
<1>4. CASE T # {}
  <2> DEFINE i == Max(T)
             u == T \ {Max(T)}
  <2>1. i \in T /\ u \in SUBSET (1..n) /\ u # T /\ T = u \cup {i}
    BY <1>4, OneRowLess
  <2>2. Largest(f[u], u)
    BY <1>1, <2>1
  <2>3. windows[i].multiplier \in Int
    BY <2>1 DEF Engine!WindowRows
  <2>4. f[T] = IF Engine!Open(windows[i]) /\ windows[i].multiplier > f[u]
               THEN windows[i].multiplier ELSE f[u]
    BY <1>2, <1>4 DEF Engine!Larger
  <2> HIDE DEF i, u
  <2>5. f[u] \in Nat /\ Engine!Base \in Nat
    BY <2>2 DEF Largest, Engine!Base
  <2>6. ASSUME NEW j \in u PROVE windows[j].multiplier \in Int
    BY <2>1, <2>6 DEF Engine!WindowRows
  <2>7. CASE Engine!Open(windows[i]) /\ windows[i].multiplier > f[u]
    <3>1. f[T] = windows[i].multiplier /\ f[T] \in Nat /\ f[T] > f[u]
      BY <2>3, <2>4, <2>5, <2>7
    <3>2. f[T] >= Engine!Base
      BY <2>2, <2>5, <3>1 DEF Largest
    <3>3. ASSUME NEW j \in T, Engine!Open(windows[j]) PROVE f[T] >= windows[j].multiplier
      <4>1. CASE j = i
        BY <3>1, <4>1
      <4>2. CASE j # i
        <5>1. j \in u
          BY <2>1, <4>2
        <5>2. f[u] >= windows[j].multiplier /\ windows[j].multiplier \in Int
          BY <2>2, <2>6, <3>3, <5>1 DEF Largest
        <5> QED
          BY <2>5, <3>1, <5>2
      <4> QED
        BY <4>1, <4>2
    <3> QED
      BY <2>1, <2>7, <3>1, <3>2, <3>3 DEF Largest
  <2>8. CASE ~(Engine!Open(windows[i]) /\ windows[i].multiplier > f[u])
    <3>1. f[T] = f[u]
      BY <2>4, <2>8
    <3>2. Engine!Open(windows[i]) => f[u] >= windows[i].multiplier
      BY <2>3, <2>5, <2>8
    <3> QED
      BY <2>1, <2>2, <3>1, <3>2 DEF Largest
  <2> QED
    BY <2>7, <2>8
<1> QED
  BY <1>3, <1>4

LEMMA MultiplierIsLargest ==
  ASSUME windows \in Seq(Engine!WindowRows)
  PROVE  Largest(Engine!GetEffectiveMultiplier, DOMAIN windows)
<1> DEFINE n == Len(windows)
<1>1. n \in Nat /\ DOMAIN windows = 1..n /\ windows \in [1..n -> Engine!WindowRows]
  OBVIOUS
<1> HIDE DEF n
<1>2. Engine!GetEffectiveMultiplier
        = (CHOOSE f : Loops(f, SUBSET DOMAIN windows))[DOMAIN windows]
  BY DEF Engine!GetEffectiveMultiplier, Engine!FoldLeft, Engine!MapThenFoldSet, Engine!Max,
         Max, Loops
<1>3. Loops(CHOOSE f : Loops(f, SUBSET (1..n)), SUBSET (1..n))
  BY <1>1, LoopExists
<1> QED
  BY <1>1, <1>2, <1>3, LoopHoldsLargest

\* Rounding halves up to whole calls.
LEMMA CeilRoundsUp ==
  ASSUME NEW m \in Nat
  PROVE  /\ Engine!Ceil(m) \in Nat
         /\ 2 * Engine!Ceil(m) \in {m, m + 1}
         /\ m > 0 => Engine!Ceil(m) >= 1
BY DEF Engine!Ceil

\* GetEffectiveMultiplier (internal/quota/multiplier.go): for every table of windows, in
\* whatever order its rows come, and at every time, a request costs the largest multiplier
\* of the windows that are open, rounded up, and never nothing.
THEOREM LargestWindowDecides == Spec => []CostsTheLargest
<1>1. TypeOK => CostsTheLargest
  <2> SUFFICES ASSUME TypeOK PROVE Engine!CostsTheLargest
    BY DEF CostsTheLargest
  <2>0. windows \in Seq(Engine!WindowRows) /\ Fixed \subseteq Nat \ {0}
    BY RouteAssumption DEF TypeOK
  <2> DEFINE m == Engine!GetEffectiveMultiplier
             calls == Engine!EffectiveCalls(Engine!NoFixed)
             open == {windows[i].multiplier :
                        i \in {j \in DOMAIN windows : Engine!Open(windows[j])}} \cup {Engine!Base}
  <2>1. Largest(m, DOMAIN windows)
    BY <2>0, MultiplierIsLargest
  <2>2. m \in Nat /\ m \in open
    BY <2>1 DEF Largest
  <2>3. \A x \in open : x \in Int /\ m >= x
    <3>1. \A i \in DOMAIN windows : windows[i] \in Engine!WindowRows
      BY <2>0
    <3>2. \A i \in DOMAIN windows : windows[i].multiplier \in Int
      BY <3>1 DEF Engine!WindowRows
    <3> QED
      BY <2>1, <3>2 DEF Largest, Engine!Base
  <2>4. calls = Engine!Ceil(m)
    BY DEF Engine!EffectiveCalls
  <2>5. calls \in Nat /\ 2 * calls \in {m, m + 1}
    BY <2>2, <2>4, CeilRoundsUp
  <2>6. ASSUME NEW f \in Fixed
        PROVE  Engine!EffectiveCalls(f) >= 1 /\ 2 * Engine!EffectiveCalls(f) \in {f, f + 1}
    <3>1. f \in Nat /\ f > 0 /\ f # Engine!NoFixed
      BY <2>0 DEF Engine!NoFixed
    <3>2. Engine!EffectiveCalls(f) = Engine!Ceil(f)
      BY <3>1 DEF Engine!EffectiveCalls
    <3> QED
      BY <3>1, <3>2, CeilRoundsUp
  <2>7. Engine!CostsTheLargest
          <=> /\ \E x \in open : 2 * calls \in {x, x + 1}
              /\ \A x \in open : 2 * calls >= x
              /\ \A f \in Fixed : Engine!EffectiveCalls(f) >= 1
                                  /\ 2 * Engine!EffectiveCalls(f) \in {f, f + 1}
    BY DEF Engine!CostsTheLargest
  <2> HIDE DEF m, calls, open
  <2>8. \A x \in open : 2 * calls >= x
    BY <2>2, <2>3, <2>5
  <2> QED
    BY <2>2, <2>5, <2>6, <2>7, <2>8
<1> QED
  BY <1>1, RouteInv, PTL
=============================================================================
