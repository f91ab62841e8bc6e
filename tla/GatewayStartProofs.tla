------------------------- MODULE GatewayStartProofs -------------------------
(***************************************************************************)
(* What every start of the gateway keeps, for any log, any number of       *)
(* providers and of crashes, and every set of columns a build may have     *)
(* left: no token that was cleared comes back; the log, the billed total   *)
(* and the anchors are repaired before the first call; the total stays the *)
(* sum of the log; config.yaml is seeded once, readable providers reach    *)
(* the router, and a usage view is about one cycle.                        *)
(*                                                                         *)
(* Each of these has an invariant of its own, and IInv is their            *)
(* conjunction.  What is shown for every sum and every set of columns goes *)
(* by least elements: a smallest set without a sum, a first place of a     *)
(* statement in the list.                                                  *)
(***************************************************************************)
EXTENDS GatewayStart, SequenceTheorems, FiniteSetTheorems, TLAPS

(* The statements of RunMigrations: which of them are there. *)

\* The columns RunMigrations adds or fills.
Columns ==
  {"provider_id", "raw_total_tokens", "expires_at", "route_mode", "fixed_provider",
   "max_body_size", "max_concurrency", "fixed_multiplier", "quota_token_total_used",
   "priority", "quota_token_total_limit", "quota_token_total_mult_v1",
   "week_cycle_start", "week_start", "month_start", "quota_token_5h_limit",
   "quota_token_5h_used", "quota_token_week_limit", "quota_token_week_used",
   "allow_passthrough", "auth_header", "auth_scheme", "extra_headers",
   "monthly_token_limit", "monthly_call_limit", "monthly_token_low_ratio",
   "monthly_call_low_ratio", "cycle_start_date"}

StatementType == [do : {"alter", "fill", "refill"}, col : Columns]

\* A concatenation holds what its parts hold.
LEMMA Concat ==
  ASSUME NEW s \in Seq(StatementType), NEW t \in Seq(StatementType)
  PROVE  /\ s \o t \in Seq(StatementType)
         /\ Range(s) \subseteq Range(s \o t)
         /\ Range(t) \subseteq Range(s \o t)
<1>1. /\ s \o t \in Seq(StatementType)
      /\ Len(s \o t) = Len(s) + Len(t)
      /\ \A i \in 1 .. Len(s) + Len(t) :
           (s \o t)[i] = IF i <= Len(s) THEN s[i] ELSE t[i - Len(s)]
  BY ConcatProperties
<1>2. /\ Len(s) \in Nat /\ DOMAIN s = 1 .. Len(s)
      /\ Len(t) \in Nat /\ DOMAIN t = 1 .. Len(t)
      /\ DOMAIN (s \o t) = 1 .. Len(s \o t)
  BY <1>1, LenProperties
<1>3. \A i \in DOMAIN s : i \in DOMAIN (s \o t) /\ (s \o t)[i] = s[i]
  BY <1>1, <1>2
<1>4. ASSUME NEW i \in DOMAIN t
      PROVE  Len(s) + i \in DOMAIN (s \o t) /\ (s \o t)[Len(s) + i] = t[i]
  <2>1. Len(s) + i \in 1 .. Len(s) + Len(t) /\ ~(Len(s) + i <= Len(s))
        /\ (Len(s) + i) - Len(s) = i
    BY <1>2
  <2> QED
    BY <1>1, <1>2, <2>1
<1>5. Range(s) \subseteq Range(s \o t)
  BY <1>3 DEF Range
<1>6. Range(t) \subseteq Range(s \o t)
  BY <1>4 DEF Range
<1> QED
  BY <1>1, <1>5, <1>6

LEMMA ShortTuples ==
  ASSUME NEW S, NEW x \in S, NEW y \in S
  PROVE  /\ <<x>> \in Seq(S) /\ x \in Range(<<x>>)
         /\ <<x, y>> \in Seq(S) /\ x \in Range(<<x, y>>)
<1>1. <<x>> \in Seq(S) /\ <<x, y>> \in Seq(S)
  OBVIOUS
<1>2. 1 \in DOMAIN <<x>> /\ <<x>>[1] = x
  OBVIOUS
<1>3. 1 \in DOMAIN <<x, y>> /\ <<x, y>>[1] = x
  OBVIOUS
<1> QED
  BY <1>1, <1>2, <1>3 DEF Range

LEMMA Parts ==
  ASSUME NEW col \in Columns
  PROVE  /\ Added(col) \in Seq(StatementType)
         /\ AddedAndFilled(col) \in Seq(StatementType)
         /\ Alter(col) \in Range(Added(col))
         /\ Alter(col) \in Range(AddedAndFilled(col))
<1>1. Alter(col) \in StatementType /\ Fill(col) \in StatementType
  BY DEF Alter, Fill, StatementType
<1> QED
  BY <1>1, ShortTuples DEF Added, AddedAndFilled

LEMMA QuotaStepsHold ==
  /\ QuotaSteps \in Seq(StatementType)
  /\ \A c \in BilledColumns : Alter(c) \in Range(QuotaSteps)
<1> DEFINE a == Added("fixed_multiplier")  b == Added("quota_token_total_used")
           c == Added("priority")  d == AddedAndFilled("quota_token_total_limit")
           e == AddedAndFilled("quota_token_total_mult_v1")
<1>0. \A col \in Columns :
        /\ Added(col) \in Seq(StatementType)
        /\ AddedAndFilled(col) \in Seq(StatementType)
        /\ Alter(col) \in Range(AddedAndFilled(col))
  BY Parts
<1>1. /\ a \in Seq(StatementType) /\ b \in Seq(StatementType) /\ c \in Seq(StatementType)
      /\ d \in Seq(StatementType) /\ e \in Seq(StatementType)
      /\ Alter("quota_token_total_limit") \in Range(d)
      /\ Alter("quota_token_total_mult_v1") \in Range(e)
  BY <1>0 DEF Columns
<1>2. QuotaSteps = (((a \o b) \o c) \o d) \o e
  BY DEF QuotaSteps
<1> HIDE DEF a, b, c, d, e
<1>3. a \o b \in Seq(StatementType)
  BY <1>1, Concat
<1>4. (a \o b) \o c \in Seq(StatementType)
  BY <1>1, <1>3, Concat
<1>5. /\ ((a \o b) \o c) \o d \in Seq(StatementType)
      /\ Range(d) \subseteq Range(((a \o b) \o c) \o d)
  BY <1>1, <1>4, Concat
<1>6. /\ QuotaSteps \in Seq(StatementType)
      /\ Range(((a \o b) \o c) \o d) \subseteq Range(QuotaSteps)
      /\ Range(e) \subseteq Range(QuotaSteps)
  BY <1>1, <1>2, <1>5, Concat
<1> QED
  BY <1>1, <1>5, <1>6 DEF BilledColumns

LEMMA StatementsHold ==
  /\ Statements \in Seq(StatementType)
  /\ \A c \in BilledColumns : Alter(c) \in Range(Statements)
  /\ Refill("raw_total_tokens") \in Range(Statements)
<1>0. \A col \in Columns :
        Added(col) \in Seq(StatementType) /\ AddedAndFilled(col) \in Seq(StatementType)
  BY Parts
<1>1. <<Refill("raw_total_tokens")>> \in Seq(StatementType)
  <2>1. Refill("raw_total_tokens") \in StatementType
    BY DEF Refill, StatementType, Columns
  <2> QED
    BY <2>1, ShortTuples
<1>2. /\ CallLogSteps \in Seq(StatementType)
      /\ Refill("raw_total_tokens") \in Range(CallLogSteps)
  <2> DEFINE l == Added("provider_id") \o Added("raw_total_tokens")
             r == <<Refill("raw_total_tokens")>>
  <2>1. l \in Seq(StatementType) /\ r \in Seq(StatementType)
    BY <1>0, <1>1 DEF Columns
  <2>2. Refill("raw_total_tokens") \in Range(r)
    BY ShortTuples
  <2>3. CallLogSteps = l \o r
    BY DEF CallLogSteps
  <2> HIDE DEF l, r
  <2> QED
    BY <2>1, <2>2, <2>3, Concat
<1>3. UserSteps \in Seq(StatementType)
  BY <1>0 DEF UserSteps, Columns
<1>4. WindowSteps \in Seq(StatementType)
  BY <1>0 DEF WindowSteps, Columns
<1>5. ProviderSteps \in Seq(StatementType)
  BY <1>0 DEF ProviderSteps, Columns
<1>6. QuotaSteps \in Seq(StatementType) /\ \A c \in BilledColumns : Alter(c) \in Range(QuotaSteps)
  BY QuotaStepsHold
<1> DEFINE a == CallLogSteps  b == UserSteps  c == QuotaSteps  d == WindowSteps  e == ProviderSteps
<1> HIDE DEF a, b, c, d, e
<1>7. Statements = (((a \o b) \o c) \o d) \o e
  BY DEF Statements, a, b, c, d, e
<1>8. /\ a \in Seq(StatementType) /\ b \in Seq(StatementType) /\ c \in Seq(StatementType)
      /\ d \in Seq(StatementType) /\ e \in Seq(StatementType)
      /\ \A col \in BilledColumns : Alter(col) \in Range(c)
      /\ Refill("raw_total_tokens") \in Range(a)
  BY <1>2, <1>3, <1>4, <1>5, <1>6 DEF a, b, c, d, e
<1>9. a \o b \in Seq(StatementType) /\ Range(a) \subseteq Range(a \o b)
  BY <1>8, Concat
<1>10. /\ (a \o b) \o c \in Seq(StatementType)
       /\ Range(a \o b) \subseteq Range((a \o b) \o c)
       /\ Range(c) \subseteq Range((a \o b) \o c)
  BY <1>8, <1>9, Concat
<1>11. /\ ((a \o b) \o c) \o d \in Seq(StatementType)
       /\ Range((a \o b) \o c) \subseteq Range(((a \o b) \o c) \o d)
  BY <1>8, <1>10, Concat
<1>12. /\ Statements \in Seq(StatementType)
       /\ Range(((a \o b) \o c) \o d) \subseteq Range(Statements)
  BY <1>7, <1>8, <1>11, Concat
<1> QED
  BY <1>8, <1>9, <1>10, <1>11, <1>12

-----------------------------------------------------------------------------
(* The sum of the bills, taken one call at a time. *)

\* Min is the least element, and the only one.
LEMMA MinIsLeast ==
  ASSUME NEW S \in SUBSET Nat, S # {}
  PROVE  /\ Min(S) \in S /\ \A n \in S : Min(S) <= n
         /\ \A m \in S : (\A n \in S : m <= n) => Min(S) = m
<1> DEFINE Least(m) == m \in S /\ \A n \in S : m <= n
<1>1. Min(S) = CHOOSE m \in S : \A n \in S : m <= n
  BY DEF Min
<1>2. \E m \in S : \A n \in S : m <= n
  <2> DEFINE R == OpToRel(<, Nat)
  <2>1. \A m, n \in Nat : m < n => <<m, n>> \in R
    BY DEF OpToRel
  <2>2. IsWellFoundedOn(R, Nat)
    BY NatLessThanWellFounded
  <2> HIDE DEF R
  <2>3. PICK m \in S : \A n \in S : ~(<<n, m>> \in R)
    BY <2>2, WFMin
  <2>4. ASSUME NEW n \in S PROVE m <= n
    <3>1. m \in Nat /\ n \in Nat /\ ~(n < m)
      BY <2>1, <2>3
    <3> QED
      BY <3>1
  <2> QED
    BY <2>4
<1>3. Min(S) \in S /\ \A n \in S : Min(S) <= n
  BY <1>1, <1>2
<1>4. ASSUME NEW m \in S, \A n \in S : m <= n
      PROVE  Min(S) = m
  <2>1. Min(S) <= m /\ m <= Min(S) /\ m \in Nat /\ Min(S) \in Nat
    BY <1>3, <1>4
  <2> QED
    BY <2>1
<1> QED
  BY <1>3, <1>4

\* The element MapThenSumSet adds first.
First(s) == CHOOSE x \in s : TRUE

\* f is the recursion of MapThenSumSet on the sets of D, for the bills b.
Sums(b, f, D) ==
  f = [s \in D |-> IF s = {} THEN 0 ELSE b[First(s)] + f[s \ {First(s)}]]

LEMMA BillsAreNat == {billedTokens, castTokens, Tokens} \subseteq [Calls -> Nat]
<1> SUFFICES ASSUME NEW c \in Calls PROVE Product[c].whole \in Nat
  BY UpgradeAssumption DEF billedTokens, castTokens
<1> QED
  BY UpgradeAssumption DEF Products

\* Among sets of calls there is always a smallest one.
LEMMA SmallestSet ==
  ASSUME NEW B \in SUBSET SUBSET Calls, B # {}
  PROVE  \E s \in B : \A u \in B : u \subseteq s => u = s
<1> DEFINE R == StrictSubsetOrdering(Calls)
<1>1. IsWellFoundedOn(R, SUBSET Calls)
  <2>1. IsWellFoundedOn(R, FiniteSubsetsOf(Calls))
    BY FS_StrictSubsetOrderingWellFounded
  <2>2. FiniteSubsetsOf(Calls) = SUBSET Calls
    BY FS_FiniteSubsetsOfFinite, UpgradeAssumption
  <2> QED
    BY <2>1, <2>2
<1>2. \A u, s \in SUBSET Calls : u \subseteq s /\ u # s => <<u, s>> \in R
  BY DEF StrictSubsetOrdering
<1> HIDE DEF R
<1>3. PICK s \in B : \A u \in B : ~(<<u, s>> \in R)
  BY <1>1, WFMin
<1> QED
  BY <1>2, <1>3

LEMMA OneLess ==
  ASSUME NEW s \in SUBSET Calls, s # {}
  PROVE  /\ First(s) \in s /\ First(s) \in Calls
         /\ s \ {First(s)} \in SUBSET Calls /\ s \ {First(s)} # s
         /\ IsFiniteSet(s) /\ Cardinality(s) \in Nat
         /\ Cardinality(s \ {First(s)}) = Cardinality(s) - 1
<1>1. First(s) \in s
  BY DEF First
<1>2. IsFiniteSet(s)
  BY UpgradeAssumption, FS_Subset
<1>3. Cardinality(s) \in Nat
  BY <1>2, FS_CardinalityType
<1>4. Cardinality(s \ {First(s)}) = Cardinality(s) - 1
  BY <1>1, <1>2, FS_RemoveElement
<1> QED
  BY <1>1, <1>2, <1>3, <1>4

\* The recursion has a solution: one on the sets of n - 1 calls gives one on those of n.
LEMMA SumExists ==
  ASSUME NEW b, NEW S \in SUBSET Calls
  PROVE  \E f : Sums(b, f, SUBSET S)
<1> DEFINE D(n) == {s \in SUBSET S : Cardinality(s) <= n}
           Bad == {n \in Nat : ~\E f : Sums(b, f, D(n))}
<1>1. Bad = {}
  <2> SUFFICES ASSUME Bad # {} PROVE FALSE
    OBVIOUS
  <2> DEFINE n == Min(Bad)
  <2>1. n \in Bad /\ \A k \in Bad : n <= k
    BY MinIsLeast
  <2> HIDE DEF n
  <2>2. CASE n = 0
    <3>1. \A s \in D(0) : s = {}
      <4> SUFFICES ASSUME NEW s \in D(0), s # {} PROVE FALSE
        OBVIOUS
      <4>1. IsFiniteSet(s) /\ Cardinality(s) \in Nat /\ Cardinality(s) <= 0
        BY OneLess
      <4> QED
        BY <4>1, FS_EmptySet
    <3>2. Sums(b, [s \in D(0) |-> 0], D(0))
      BY <3>1 DEF Sums
    <3> QED
      BY <2>1, <2>2, <3>2
  <2>3. CASE n # 0
    <3>1. n \in Nat /\ n - 1 \in Nat /\ ~(n <= n - 1)
      BY <2>1, <2>3
    <3>2. n - 1 \notin Bad
      BY <2>1, <3>1
    <3>3. PICK g : Sums(b, g, D(n - 1))
      BY <3>1, <3>2
    <3> DEFINE Step(h, s) == IF s = {} THEN 0 ELSE b[First(s)] + h[s \ {First(s)}]
               f == [s \in D(n) |-> Step(g, s)]
    <3>4. ASSUME NEW s \in D(n), s # {}
          PROVE  f[s \ {First(s)}] = g[s \ {First(s)}]
      <4> DEFINE u == s \ {First(s)}
      <4>1. Cardinality(u) = Cardinality(s) - 1 /\ Cardinality(s) \in Nat /\ Cardinality(s) <= n
            /\ u \in SUBSET S
        BY <3>4, OneLess
      <4>2. u \in D(n - 1) /\ u \in D(n)
        BY <3>1, <4>1
      <4>3. g[u] = Step(g, u)
        BY <3>3, <4>2 DEF Sums
      <4>4. f[u] = Step(g, u)
        BY <4>2
      <4> QED
        BY <4>3, <4>4
    <3>5. \A s \in D(n) : Step(g, s) = Step(f, s)
      BY <3>4
    <3>6. f = [s \in D(n) |-> Step(f, s)]
      <4> HIDE DEF Step
      <4> QED
        BY <3>5
    <3>7. Sums(b, f, D(n))
      BY <3>6 DEF Sums
    <3> QED
      BY <2>1, <3>7
  <2> QED
    BY <2>2, <2>3
<1>2. IsFiniteSet(S) /\ Cardinality(S) \in Nat
  BY UpgradeAssumption, FS_Subset, FS_CardinalityType
<1>3. D(Cardinality(S)) = SUBSET S
  BY <1>2, FS_Subset
<1>4. \E f : Sums(b, f, D(Cardinality(S)))
  BY <1>1, <1>2
<1> QED
  BY <1>3, <1>4

\* Two solutions agree on the sets both of them cover.
LEMMA SumIsUnique ==
  ASSUME NEW b, NEW S \in SUBSET Calls, NEW T \in SUBSET S,
         NEW f, NEW g, Sums(b, f, SUBSET S), Sums(b, g, SUBSET T)
  PROVE  f[T] = g[T]
<1> DEFINE Bad == {s \in SUBSET T : f[s] # g[s]}
<1> SUFFICES ASSUME Bad # {} PROVE FALSE
  OBVIOUS
<1>1. PICK s \in Bad : \A u \in Bad : u \subseteq s => u = s
  <2>1. Bad \in SUBSET SUBSET Calls
    OBVIOUS
  <2> QED
    BY <2>1, SmallestSet
<1>2. s \in SUBSET S /\ s \in SUBSET T
  OBVIOUS
<1>3. /\ f[s] = IF s = {} THEN 0 ELSE b[First(s)] + f[s \ {First(s)}]
      /\ g[s] = IF s = {} THEN 0 ELSE b[First(s)] + g[s \ {First(s)}]
  BY <1>2 DEF Sums
<1>4. s # {} => s \ {First(s)} \notin Bad
  BY <1>1, <1>2, OneLess
<1>5. s # {} => f[s \ {First(s)}] = g[s \ {First(s)}]
  BY <1>2, <1>4
<1> QED
  BY <1>1, <1>3, <1>5

LEMMA SumUnfolds ==
  ASSUME NEW b, NEW S \in SUBSET Calls
  PROVE  \E f : Sums(b, f, SUBSET S) /\ Total(b, S) = f[S]
<1>1. Total(b, S) = (CHOOSE f : Sums(b, f, SUBSET S))[S]
  BY DEF Total, MapThenSumSet, MapThenFoldSet, Sums, First
<1> QED
  BY <1>1, SumExists

LEMMA SumTakesFirst ==
  ASSUME NEW b
  PROVE  /\ Total(b, {}) = 0
         /\ \A S \in SUBSET Calls :
              S # {} => Total(b, S) = b[First(S)] + Total(b, S \ {First(S)})
<1>1. Total(b, {}) = 0
  <2>1. PICK f : Sums(b, f, SUBSET {}) /\ Total(b, {}) = f[{}]
    BY SumUnfolds
  <2> QED
    BY <2>1 DEF Sums
<1>2. ASSUME NEW S \in SUBSET Calls, S # {}
      PROVE  Total(b, S) = b[First(S)] + Total(b, S \ {First(S)})
  <2> DEFINE T == S \ {First(S)}
  <2>1. T \in SUBSET S /\ T \in SUBSET Calls
    OBVIOUS
  <2> HIDE DEF T
  <2>2. PICK f : Sums(b, f, SUBSET S) /\ Total(b, S) = f[S]
    BY SumUnfolds
  <2>3. PICK g : Sums(b, g, SUBSET T) /\ Total(b, T) = g[T]
    BY <2>1, SumUnfolds
  <2>4. f[T] = g[T]
    BY <2>1, <2>2, <2>3, SumIsUnique
  <2>5. f[S] = b[First(S)] + f[T]
    BY <1>2, <2>2 DEF Sums, T
  <2> QED
    BY <2>2, <2>3, <2>4, <2>5 DEF T
<1> QED
  BY <1>1, <1>2

LEMMA SumIsNat ==
  ASSUME NEW b \in [Calls -> Nat]
  PROVE  \A S \in SUBSET Calls : Total(b, S) \in Nat
<1> DEFINE Bad == {s \in SUBSET Calls : Total(b, s) \notin Nat}
<1> SUFFICES ASSUME Bad # {} PROVE FALSE
  OBVIOUS
<1>0. Bad \in SUBSET SUBSET Calls
  OBVIOUS
<1>1. PICK s \in Bad : \A u \in Bad : u \subseteq s => u = s
  BY <1>0, SmallestSet
<1>2. s # {}
  BY SumTakesFirst
<1>3. Total(b, s) = b[First(s)] + Total(b, s \ {First(s)})
  BY <1>2, SumTakesFirst
<1>4. Total(b, s \ {First(s)}) \in Nat
  <2>1. s \ {First(s)} \in SUBSET Calls /\ s \ {First(s)} # s
    BY <1>2, OneLess
  <2>2. s \ {First(s)} \notin Bad
    BY <1>1, <2>1
  <2> QED
    BY <2>1, <2>2
<1>5. b[First(s)] \in Nat
  BY <1>2, OneLess
<1> QED
  BY <1>1, <1>3, <1>4, <1>5

\* Whatever the order, a call adds its own bill.
LEMMA SumTakesAny ==
  ASSUME NEW b \in [Calls -> Nat], NEW S \in SUBSET Calls, NEW c \in S
  PROVE  Total(b, S) = b[c] + Total(b, S \ {c})
<1> DEFINE Bad == {s \in SUBSET Calls : \E x \in s : Total(b, s) # b[x] + Total(b, s \ {x})}
<1> SUFFICES ASSUME Bad # {} PROVE FALSE
  OBVIOUS
<1>0. Bad \in SUBSET SUBSET Calls
  OBVIOUS
<1>1. PICK s \in Bad : \A u \in Bad : u \subseteq s => u = s
  BY <1>0, SmallestSet
<1>2. PICK x \in s : Total(b, s) # b[x] + Total(b, s \ {x})
  OBVIOUS
<1> DEFINE p == First(s)
<1>3. p \in s /\ Total(b, s) = b[p] + Total(b, s \ {p})
  BY <1>2, OneLess, SumTakesFirst
<1> HIDE DEF p
<1>4. p # x
  BY <1>2, <1>3
<1>5. s \ {p} \notin Bad /\ s \ {x} \notin Bad
  BY <1>1, <1>2, <1>3
<1>6. Total(b, s \ {p}) = b[x] + Total(b, (s \ {p}) \ {x})
  BY <1>2, <1>4, <1>5
<1>7. Total(b, s \ {x}) = b[p] + Total(b, (s \ {x}) \ {p})
  BY <1>3, <1>4, <1>5
<1>8. (s \ {p}) \ {x} = (s \ {x}) \ {p}
  OBVIOUS
<1> DEFINE r == Total(b, (s \ {p}) \ {x})
<1>9. b[p] \in Nat /\ b[x] \in Nat /\ r \in Nat
  BY <1>2, <1>3, SumIsNat
<1>10. Total(b, s) = b[p] + (b[x] + r) /\ Total(b, s \ {x}) = b[p] + r
  BY <1>3, <1>6, <1>7, <1>8
<1> HIDE DEF r
<1> QED
  BY <1>2, <1>9, <1>10

\* The sum over two parts.
LEMMA SumSplits ==
  ASSUME NEW b \in [Calls -> Nat], NEW R, NEW S \in SUBSET Calls
  PROVE  Total(b, S) = Total(b, S \cap R) + Total(b, S \ R)
<1> DEFINE Bad == {s \in SUBSET Calls : Total(b, s) # Total(b, s \cap R) + Total(b, s \ R)}
<1> SUFFICES ASSUME Bad # {} PROVE FALSE
  OBVIOUS
<1>0. Bad \in SUBSET SUBSET Calls
  OBVIOUS
<1>1. PICK s \in Bad : \A u \in Bad : u \subseteq s => u = s
  BY <1>0, SmallestSet
<1>2. s # {}
  <2>1. {} \cap R = {} /\ {} \ R = {} /\ Total(b, {}) = 0
    BY SumTakesFirst
  <2>2. Total(b, {}) = Total(b, {} \cap R) + Total(b, {} \ R)
    BY <2>1
  <2> QED
    BY <2>2
<1>3. PICK c \in s : c \in Calls
  BY <1>2
<1> DEFINE t == s \ {c}
<1>4. t \in SUBSET Calls /\ t # s
  OBVIOUS
<1>5. Total(b, t) = Total(b, t \cap R) + Total(b, t \ R)
  BY <1>1, <1>4
<1>6. Total(b, s) = b[c] + Total(b, t)
  BY SumTakesAny
<1>7. b[c] \in Nat /\ Total(b, t \cap R) \in Nat /\ Total(b, t \ R) \in Nat
  BY <1>3, SumIsNat
<1>8. CASE c \in R
  <2>1. s \ R = t \ R /\ (s \cap R) \ {c} = t \cap R /\ c \in s \cap R /\ s \cap R \in SUBSET Calls
    BY <1>8
  <2>2. Total(b, s \cap R) = b[c] + Total(b, t \cap R) /\ Total(b, s \ R) = Total(b, t \ R)
    <3>1. Total(b, s \cap R) = b[c] + Total(b, (s \cap R) \ {c})
      BY <2>1, SumTakesAny
    <3> QED
      BY <2>1, <3>1
  <2> DEFINE x == Total(b, t \cap R)
             y == Total(b, t \ R)
  <2>3. Total(b, s) = Total(b, s \cap R) + Total(b, s \ R)
    <3>1. x \in Nat /\ y \in Nat /\ b[c] \in Nat
      BY <1>7
    <3>2. Total(b, s) = b[c] + (x + y)
      BY <1>5, <1>6
    <3> HIDE DEF x, y, t
    <3>3. b[c] + (x + y) = (b[c] + x) + y /\ b[c] + (x + y) = x + (b[c] + y)
      BY <3>1
    <3> QED
      BY <2>2, <3>2, <3>3 DEF x, y
  <2> QED
    BY <2>3
<1>9. CASE c \notin R
  <2>1. s \cap R = t \cap R /\ (s \ R) \ {c} = t \ R /\ c \in s \ R /\ s \ R \in SUBSET Calls
    BY <1>9
  <2>2. Total(b, s \ R) = b[c] + Total(b, t \ R) /\ Total(b, s \cap R) = Total(b, t \cap R)
    <3>1. Total(b, s \ R) = b[c] + Total(b, (s \ R) \ {c})
      BY <2>1, SumTakesAny
    <3> QED
      BY <2>1, <3>1
  <2> DEFINE x == Total(b, t \cap R)
             y == Total(b, t \ R)
  <2>3. Total(b, s) = Total(b, s \cap R) + Total(b, s \ R)
    <3>1. x \in Nat /\ y \in Nat /\ b[c] \in Nat
      BY <1>7
    <3>2. Total(b, s) = b[c] + (x + y)
      BY <1>5, <1>6
    <3> HIDE DEF x, y, t
    <3>3. b[c] + (x + y) = (b[c] + x) + y /\ b[c] + (x + y) = x + (b[c] + y)
      BY <3>1
    <3> QED
      BY <2>2, <3>2, <3>3 DEF x, y
  <2> QED
    BY <2>3
<1> QED
  BY <1>8, <1>9

\* The recompute bills a dusty call one token less than the gateway, any other alike.
LEMMA RecomputeLosesDust ==
  ASSUME NEW S \in SUBSET Calls
  PROVE  Total(castTokens, S) + Cardinality(Dusty(S)) = Total(billedTokens, S)
<1> DEFINE Bad == {s \in SUBSET Calls :
                     Total(castTokens, s) + Cardinality(Dusty(s)) # Total(billedTokens, s)}
<1> SUFFICES ASSUME Bad # {} PROVE FALSE
  OBVIOUS
<1>0. Bad \in SUBSET SUBSET Calls
  OBVIOUS
<1>1. PICK s \in Bad : \A u \in Bad : u \subseteq s => u = s
  BY <1>0, SmallestSet
<1>2. s # {}
  <2>1. Dusty({}) = {} /\ Cardinality({}) = 0
    BY FS_EmptySet DEF Dusty
  <2>2. Total(castTokens, {}) = 0 /\ Total(billedTokens, {}) = 0
    BY SumTakesFirst
  <2> QED
    BY <2>1, <2>2
<1> DEFINE c == First(s)
           t == s \ {First(s)}
<1>3. c \in s /\ c \in Calls /\ t \in SUBSET Calls /\ t # s /\ s = t \cup {c} /\ c \notin t
  BY <1>2, OneLess
<1>4. /\ Total(castTokens, s) = castTokens[c] + Total(castTokens, t)
      /\ Total(billedTokens, s) = billedTokens[c] + Total(billedTokens, t)
  BY <1>2, SumTakesFirst
<1> HIDE DEF c, t
<1>5. Total(castTokens, t) + Cardinality(Dusty(t)) = Total(billedTokens, t)
  BY <1>1, <1>3
<1>6. /\ castTokens \in [Calls -> Nat] /\ billedTokens \in [Calls -> Nat]
  BY BillsAreNat
<1>7. /\ castTokens[c] \in Nat /\ billedTokens[c] \in Nat
      /\ Total(castTokens, t) \in Nat /\ Total(billedTokens, t) \in Nat
  BY <1>3, <1>6, SumIsNat
<1>8. IsFiniteSet(Dusty(t)) /\ Cardinality(Dusty(t)) \in Nat
  BY <1>3, UpgradeAssumption, FS_Subset, FS_CardinalityType DEF Dusty
<1>9. Product[c].whole \in Nat /\ Product[c].rest \in {"none", "dust", "more"}
  BY <1>3, UpgradeAssumption DEF Products
<1>10. CASE Product[c].rest = "dust"
  <2>1. Dusty(s) = Dusty(t) \cup {c} /\ c \notin Dusty(t)
    BY <1>3, <1>10 DEF Dusty
  <2>2. Cardinality(Dusty(s)) = Cardinality(Dusty(t)) + 1
    BY <1>8, <2>1, FS_AddElement
  <2>3. billedTokens[c] = castTokens[c] + 1
    BY <1>3, <1>9, <1>10 DEF billedTokens, castTokens
  <2>4. Total(castTokens, s) + Cardinality(Dusty(s)) = Total(billedTokens, s)
    BY <1>4, <1>5, <1>7, <1>8, <2>2, <2>3
  <2> QED
    BY <2>4
<1>11. CASE Product[c].rest # "dust"
  <2>1. Dusty(s) = Dusty(t)
    BY <1>3, <1>11 DEF Dusty
  <2>2. billedTokens[c] = castTokens[c]
    BY <1>3, <1>9, <1>11 DEF billedTokens, castTokens
  <2>3. Total(castTokens, s) + Cardinality(Dusty(s)) = Total(billedTokens, s)
    BY <1>4, <1>5, <1>7, <1>8, <2>1, <2>2
  <2> QED
    BY <2>3
<1> QED
  BY <1>10, <1>11

-----------------------------------------------------------------------------
(* Types. *)

Phases == {"down", "migrating", "seeding", "serving"}

UpgradeTypes ==
  /\ todo \in SUBSET DOMAIN Statements
  /\ anchored \in SUBSET Anchors
  /\ logged \in SUBSET Calls /\ pending \in SUBSET logged /\ forgiven \in SUBSET logged
  /\ raw \in [Calls -> Nat]
  /\ known \in BOOLEAN
  /\ used \in Nat /\ recomputed \in SUBSET logged

SeedTypes ==
  /\ status \in [Slugs -> {"absent", "on", "off"}]
  /\ sealed \in [Slugs -> Keks]
  /\ date \in [Slugs -> Nat \cup {NoDate}]
  /\ kek \in Keks
  /\ toSeed \in Seq(Slugs)
  /\ table \in SUBSET Slugs /\ removed \in SUBSET Slugs
  /\ seedCut \in BOOLEAN

ClockTypes == phase \in Phases /\ today \in Nat /\ day \in [Calls -> Nat]

TypesOK == UpgradeTypes /\ SeedTypes /\ ClockTypes

LEMMA InitTypes == Init => TypesOK
<1> SUFFICES ASSUME Init PROVE TypesOK
  OBVIOUS
<1>1. UpgradeTypes
  <2>1. raw \in [Calls -> Nat]
    BY UpgradeAssumption DEF Init, UpgradeInit
  <2>2. logged \in SUBSET Calls /\ forgiven \in SUBSET logged /\ recomputed \in SUBSET logged
    BY DEF Init, UpgradeInit
  <2>3. used \in Nat
    <3> DEFINE counted == logged \ forgiven
    <3>1. /\ Total(castTokens, counted \cap recomputed) \in Nat
          /\ Total(billedTokens, counted \ recomputed) \in Nat
          /\ Total(Tokens, counted) \in Nat
      BY <2>2, BillsAreNat, SumIsNat
    <3> QED
      BY <3>1 DEF Init, UpgradeInit
  <2> QED
    BY <2>1, <2>2, <2>3 DEF Init, UpgradeInit, UpgradeTypes
<1>2. SeedTypes
  <2>1. /\ status \in [Slugs -> {"absent", "on", "off"}]
        /\ sealed \in [Slugs -> Keks] /\ kek \in Keks
        /\ date \in [Slugs -> Nat \cup {NoDate}]
    BY DEF Init, SeedInit
  <2>2. removed \in SUBSET Slugs
    BY DEF Init, SeedInit
  <2>3. toSeed \in Seq(Slugs)
    BY DEF Init, SeedInit
  <2> QED
    BY <2>1, <2>2, <2>3 DEF Init, SeedInit, SeedTypes
<1>3. ClockTypes
  BY StartAssumption DEF Init, ClockTypes, Phases
<1> QED
  BY <1>1, <1>2, <1>3 DEF TypesOK

LEMMA TypesStep == TypesOK /\ [Next]_vars => TypesOK'
<1> SUFFICES ASSUME TypesOK, [Next]_vars PROVE TypesOK'
  OBVIOUS
<1> USE DEF TypesOK
<1>1. CASE Boot
  <2>1. UpgradeTypes'
    BY <1>1 DEF Boot, Plan, UpgradeTypes, database
  <2>2. SeedTypes'
    BY <1>1 DEF Boot, SeedTypes, providers
  <2>3. ClockTypes'
    BY <1>1 DEF Boot, ClockTypes, Phases
  <2> QED
    BY <2>1, <2>2, <2>3
<1>2. CASE RunMigrations
  <2>1. ClockTypes'
    BY <1>2 DEF RunMigrations, ClockTypes, Phases
  <2>2. CASE Migrate /\ UNCHANGED providers
    <3>1. SeedTypes'
      BY <1>2, <2>2 DEF RunMigrations, SeedTypes, providers
    <3>2. UpgradeTypes'
      <4>1. CASE AddColumn
        BY <4>1 DEF AddColumn, StatementDone, UpgradeTypes
      <4>2. CASE FillRaw
        BY <4>2, UpgradeAssumption DEF FillRaw, StatementDone, UpgradeTypes
      <4>3. CASE FillTotals
        <5>1. Recomputed(logged) \in Nat
          BY BillsAreNat, SumIsNat DEF UpgradeTypes, Recomputed
        <5> QED
          BY <4>3, <5>1 DEF FillTotals, StatementDone, UpgradeTypes
      <4>4. CASE FillAnchor
        BY <4>4 DEF FillAnchor, StatementDone, UpgradeTypes
      <4> QED
        BY <2>2, <4>1, <4>2, <4>3, <4>4 DEF Migrate
    <3> QED
      BY <2>1, <3>1, <3>2
  <2>3. CASE FillDates
    <3>1. UpgradeTypes'
      BY <2>3 DEF FillDates, StatementDone, UpgradeTypes, database
    <3>2. SeedTypes'
      <4>1. PICK d \in {Created - 1, Created} :
              date' = [s \in Slugs |-> IF s \in Rows /\ date[s] = NoDate THEN d ELSE date[s]]
        BY <2>3 DEF FillDates
      <4>2. d \in Nat
        BY StartAssumption
      <4>3. date' \in [Slugs -> Nat \cup {NoDate}]
        BY <4>1, <4>2 DEF SeedTypes
      <4> QED
        BY <1>2, <2>3, <4>3 DEF FillDates, RunMigrations, SeedTypes
    <3> QED
      BY <2>1, <3>1, <3>2
  <2> QED
    BY <1>2, <2>2, <2>3 DEF RunMigrations
<1>3. CASE SeedFromConfig
  <2>1. UpgradeTypes'
    BY <1>3 DEF SeedFromConfig, upgradeVars, database, UpgradeTypes
  <2>2. ClockTypes'
    BY <1>3 DEF SeedFromConfig, ClockTypes, Phases
  <2>3. SeedTypes'
    <3>1. CASE toSeed' = SeedPlan /\ UNCHANGED <<providers, kek, table, removed, seedCut>>
      BY <3>1, SeedAssumption DEF SeedPlan, SeedTypes, providers
    <3>2. CASE InsertSeed(today)
      <4>1. Head(toSeed) \in Slugs /\ Tail(toSeed) \in Seq(Slugs)
        BY <3>2 DEF InsertSeed, SeedTypes
      <4> QED
        BY <3>2, <4>1 DEF InsertSeed, SeedTypes, ClockTypes
    <3> QED
      BY <1>3, <3>1, <3>2 DEF SeedFromConfig
  <2> QED
    BY <2>1, <2>2, <2>3
<1>4. CASE NewRouter
  <2>1. UpgradeTypes' /\ ClockTypes'
    BY <1>4 DEF NewRouter, upgradeVars, database, UpgradeTypes, ClockTypes, Phases
  <2>2. SeedTypes'
    BY <1>4 DEF NewRouter, FirstLoad, SeedTypes, providers, Enabled
  <2> QED
    BY <2>1, <2>2
<1>5. CASE Crash
  <2>1. UpgradeTypes'
    BY <1>5 DEF Crash, Interrupted, database, UpgradeTypes
  <2>2. SeedTypes'
    BY <1>5 DEF Crash, SeedTypes, providers
  <2>3. ClockTypes'
    BY <1>5 DEF Crash, ClockTypes, Phases
  <2> QED
    BY <2>1, <2>2, <2>3
<1>6. ASSUME NEW c \in Calls, Serve(c)
      PROVE  TypesOK'
  <2>1. SeedTypes'
    BY <1>6 DEF Serve, seedVars, providers, SeedTypes
  <2>2. ClockTypes'
    BY <1>6 DEF Serve, ClockTypes
  <2>3. UpgradeTypes'
    <3>1. CASE LogCall(c)
      BY <3>1, UpgradeAssumption DEF LogCall, RawOf, UpgradeTypes
    <3>2. CASE BillCall(c)
      <4>1. billedTokens[c] \in Nat
        BY BillsAreNat
      <4> QED
        BY <3>2, <4>1 DEF BillCall, UpgradeTypes
    <3> QED
      BY <1>6, <3>1, <3>2 DEF Serve
  <2> QED
    BY <2>1, <2>2, <2>3
<1>7. CASE Quota
  <2>1. SeedTypes' /\ ClockTypes'
    BY <1>7 DEF Quota, seedVars, providers, SeedTypes, ClockTypes
  <2>2. UpgradeTypes'
    <3>1. CASE ResetTokens
      BY <3>1 DEF ResetTokens, UpgradeTypes
    <3>2. CASE Gate
      <4>1. anchored' \in SUBSET Anchors
        BY <3>2 DEF Gate, UpgradeTypes, Anchors
      <4> QED
        BY <3>2, <4>1 DEF Gate, UpgradeTypes
    <3> QED
      BY <1>7, <3>1, <3>2 DEF Quota
  <2> QED
    BY <2>1, <2>2
<1>8. ASSUME NEW s \in Slugs, AdminProviders(s)
      PROVE  TypesOK'
  <2>1. UpgradeTypes' /\ ClockTypes'
    BY <1>8 DEF AdminProviders, upgradeVars, database, UpgradeTypes, ClockTypes
  <2>2. SeedTypes'
    <3>1. ASSUME NEW d \in Dates \cup {today}, CreateProvider(s, d)
          PROVE  SeedTypes'
      <4>1. d \in Nat \cup {NoDate}
        BY StartAssumption DEF ClockTypes
      <4> QED
        BY <3>1, <4>1 DEF CreateProvider, Reload, Reloaded, SeedTypes
    <3>2. ASSUME NEW d \in Dates, UpdateProvider(s, d)
          PROVE  SeedTypes'
      <4>1. d \in Nat \cup {NoDate}
        BY StartAssumption
      <4>2. /\ status' \in [Slugs -> {"absent", "on", "off"}]
            /\ sealed' \in [Slugs -> Keks]
            /\ date' \in [Slugs -> Nat \cup {NoDate}]
        BY <3>2, <4>1 DEF UpdateProvider, SeedTypes
      <4> QED
        BY <3>2, <4>2 DEF UpdateProvider, Reload, Reloaded, SeedTypes
    <3>3. CASE DeleteProvider(s)
      BY <3>3 DEF DeleteProvider, Reload, Reloaded, SeedTypes
    <3> QED
      BY <1>8, <3>1, <3>2, <3>3 DEF AdminProviders
  <2> QED
    BY <2>1, <2>2
<1>9. CASE NextDay
  BY <1>9 DEF NextDay, upgradeVars, database, seedVars, providers, UpgradeTypes, SeedTypes, ClockTypes
<1>10. CASE UNCHANGED vars
  BY <1>10 DEF vars, upgradeVars, database, seedVars, providers, UpgradeTypes, SeedTypes, ClockTypes
<1> QED
  BY <1>1, <1>2, <1>3, <1>4, <1>5, <1>6, <1>7, <1>8, <1>9, <1>10 DEF Next

-----------------------------------------------------------------------------
(* The providers. *)

\* Every edit reloads, and a reload with readable keys publishes what is enabled.
LEMMA PublishedStep == Published /\ [Next]_vars => Published'
<1> SUFFICES ASSUME Published, [Next]_vars PROVE Published'
  OBVIOUS
<1>1. CASE NewRouter
  BY <1>1 DEF NewRouter, FirstLoad, providers, Published, Enabled, Readable
<1>2. ASSUME NEW s \in Slugs, AdminProviders(s)
      PROVE  Published'
  <2>1. phase' = phase /\ phase = "serving"
    BY <1>2 DEF AdminProviders
  <2>2. kek' = kek /\ Reload
    BY <1>2 DEF AdminProviders, CreateProvider, UpdateProvider, DeleteProvider
  <2> QED
    BY <2>1, <2>2 DEF Published, Reload, Reloaded, Enabled, Readable
<1>3. CASE UNCHANGED <<seedVars, phase>>
  BY <1>3 DEF seedVars, providers, Published, Enabled, Readable
<1>4. CASE phase' # "serving"
  BY <1>4 DEF Published
<1> QED
  <2>1. CASE Boot
    BY <2>1, <1>4 DEF Boot
  <2>2. CASE RunMigrations
    BY <2>2, <1>4 DEF RunMigrations
  <2>3. CASE SeedFromConfig
    BY <2>3, <1>4 DEF SeedFromConfig
  <2>4. CASE Crash
    BY <2>4, <1>4 DEF Crash
  <2>5. CASE Quota \/ NextDay \/ UNCHANGED vars \/ (\E c \in Calls : Serve(c))
    BY <2>5, <1>3 DEF Quota, NextDay, vars, Serve
  <2> QED
    BY <1>1, <1>2, <2>1, <2>2, <2>3, <2>4, <2>5 DEF Next

\* What a start leaves to seed, and what it has seeded unless it was cut.
SeedInv ==
  /\ removed \cap Rows = {}
  /\ removed # {} => Rows # {}
  /\ toSeed # <<>> => phase = "seeding" /\ removed = {}
  /\ ~seedCut => \/ phase \in {"down", "migrating"} /\ Rows = {}
                 \/ Range(Config) \subseteq Rows \cup removed \cup Range(toSeed)

LEMMA SeedInvHoldsAtFirst == Init => SeedInv
<1> SUFFICES ASSUME Init PROVE SeedInv
  OBVIOUS
<1>1. /\ phase = "down" /\ toSeed = <<>>
      /\ removed = IF Rows = {} THEN {} ELSE Slugs \ Rows
  BY DEF Init, SeedInit
<1>2. Range(Config) \subseteq Slugs
  BY SeedAssumption DEF Range
<1>3. Rows \subseteq Slugs
  BY DEF Rows
<1> QED
  BY <1>1, <1>2, <1>3 DEF SeedInv

\* InsertSeed takes one provider off the list and no other.
LEMMA HeadOrTail ==
  ASSUME NEW s \in Seq(Slugs), s # <<>>
  PROVE  Range(s) \subseteq {Head(s)} \cup Range(Tail(s))
<1> SUFFICES ASSUME NEW i \in DOMAIN s, s[i] # Head(s) PROVE s[i] \in Range(Tail(s))
  BY DEF Range
<1>1. /\ Tail(s) \in Seq(Slugs) /\ Len(Tail(s)) = Len(s) - 1
      /\ \A j \in 1 .. Len(Tail(s)) : Tail(s)[j] = s[j + 1]
  BY HeadTailProperties
<1>2. Len(s) \in Nat /\ DOMAIN s = 1 .. Len(s) /\ DOMAIN Tail(s) = 1 .. Len(Tail(s))
  BY <1>1, LenProperties
<1>3. i - 1 \in 1 .. Len(Tail(s)) /\ (i - 1) + 1 = i
  BY <1>1, <1>2
<1> QED
  BY <1>1, <1>2, <1>3 DEF Range

LEMMA SeedInvStep == SeedTypes /\ SeedInv /\ [Next]_vars => SeedInv'
<1> SUFFICES ASSUME SeedTypes, SeedInv, [Next]_vars PROVE SeedInv'
  OBVIOUS
<1>0. CASE UNCHANGED <<status, toSeed, removed, seedCut, phase>>
  BY <1>0 DEF SeedInv, Rows
<1>1. CASE Boot
  BY <1>1 DEF Boot, providers, SeedInv, Rows
<1>2. CASE SeedFromConfig
  <2>1. CASE /\ phase = "migrating" /\ phase' = "seeding" /\ toSeed' = SeedPlan
             /\ UNCHANGED <<providers, removed, seedCut>>
    <3>1. Rows' = Rows
      BY <2>1 DEF providers, Rows
    <3>2. Rows = {} => toSeed' = Config /\ removed = {}
      BY <2>1 DEF SeedPlan, SeedInv
    <3>3. Rows # {} => toSeed' = <<>> /\ Range(toSeed') = Range(toSeed)
      BY <2>1 DEF SeedPlan, SeedInv
    <3> QED
      BY <2>1, <3>1, <3>2, <3>3 DEF SeedInv
  <2>2. CASE phase = "seeding" /\ InsertSeed(today) /\ UNCHANGED phase
    <3> DEFINE s == Head(toSeed)
    <3>1. s \in Slugs /\ toSeed # <<>> /\ toSeed' = Tail(toSeed)
      BY <2>2 DEF InsertSeed, SeedTypes
    <3>2. Rows' = Rows \cup {s}
      BY <2>2, <3>1 DEF InsertSeed, SeedTypes, Rows
    <3>3. removed = {} /\ removed' = {} /\ seedCut' = seedCut
      BY <2>2, <3>1 DEF InsertSeed, SeedInv
    <3>4. Range(toSeed) \subseteq {s} \cup Range(toSeed')
      BY <3>1, HeadOrTail DEF SeedTypes
    <3> HIDE DEF s
    <3> QED
      BY <2>2, <3>2, <3>3, <3>4 DEF SeedInv
  <2> QED
    BY <1>2, <2>1, <2>2 DEF SeedFromConfig
<1>3. CASE NewRouter
  BY <1>3 DEF NewRouter, FirstLoad, providers, SeedInv, Rows
<1>4. CASE Crash
  <2>1. /\ phase' = "down" /\ toSeed' = <<>> /\ removed' = removed /\ Rows' = Rows
        /\ seedCut' = (seedCut \/ toSeed # <<>>)
    BY <1>4 DEF Crash, providers, Rows
  <2> QED
    BY <2>1 DEF SeedInv
<1>5. ASSUME NEW s \in Slugs, AdminProviders(s)
      PROVE  SeedInv'
  <2>1. phase' = phase /\ phase = "serving" /\ toSeed' = toSeed /\ toSeed = <<>> /\ seedCut' = seedCut
    BY <1>5 DEF AdminProviders, CreateProvider, UpdateProvider, DeleteProvider, SeedInv
  <2>2. \/ Rows' = Rows \cup {s} /\ removed' = removed \ {s}
        \/ Rows' = Rows /\ removed' = removed
        \/ Rows' = Rows \ {s} /\ removed' = removed \cup {s} /\ Rows # {s} /\ s \in Rows
    <3>1. ASSUME NEW d, CreateProvider(s, d)
          PROVE  Rows' = Rows \cup {s} /\ removed' = removed \ {s}
      BY <3>1 DEF CreateProvider, SeedTypes, Rows
    <3>2. ASSUME NEW d, UpdateProvider(s, d)
          PROVE  Rows' = Rows /\ removed' = removed
      BY <3>2 DEF UpdateProvider, SeedTypes, Rows
    <3>3. ASSUME DeleteProvider(s)
          PROVE  Rows' = Rows \ {s} /\ removed' = removed \cup {s} /\ Rows # {s} /\ s \in Rows
      BY <3>3 DEF DeleteProvider, SeedTypes, Rows
    <3> QED
      BY <1>5, <3>1, <3>2, <3>3 DEF AdminProviders
  <2> QED
    BY <2>1, <2>2 DEF SeedInv
<1> QED
  <2>1. CASE RunMigrations
    <3>1. UNCHANGED <<status, toSeed, removed, seedCut, phase>>
      BY <2>1 DEF RunMigrations, FillDates, providers
    <3> QED
      BY <3>1, <1>0
  <2>2. CASE NextDay
    BY <2>2, <1>0 DEF NextDay, seedVars, providers
  <2>3. CASE Quota \/ UNCHANGED vars \/ (\E c \in Calls : Serve(c))
    BY <2>3, <1>0 DEF Quota, vars, Serve, seedVars, providers
  <2> QED
    BY <1>1, <1>2, <1>3, <1>4, <1>5, <2>1, <2>2, <2>3 DEF Next

-----------------------------------------------------------------------------
(* The cycles of a provider. *)

\* What \div means.
LEMMA Quotients ==
  ASSUME NEW n \in Int, NEW k \in Nat \ {0}
  PROVE  n \div k \in Int /\ k * (n \div k) <= n /\ n < k * (n \div k) + k
OBVIOUS

\* A day at most y days after the anchor is in the cycle of day y exactly when it is
\* not before the first day of that cycle.
LEMMA CyclesAreIntervals ==
  ASSUME NEW x \in Int, NEW y \in Nat, NEW k \in Nat \ {0}, x <= y
  PROVE  x >= (y \div k) * k <=> x >= 0 /\ x \div k = y \div k
<1> DEFINE q == y \div k  p == x \div k
<1>1. q \in Int /\ k * q <= y /\ y < k * q + k
  BY Quotients
<1>2. p \in Int /\ k * p <= x /\ x < k * p + k
  BY Quotients
<1> HIDE DEF p, q
<1>3. q * k = k * q /\ k * (q + 1) = k * q + k /\ k * (p + 1) = k * p + k
  BY <1>1, <1>2
<1>4. q >= 0
  <2> SUFFICES ASSUME q + 1 <= 0 PROVE FALSE
    BY <1>1
  <2>1. k * (q + 1) <= 0
    BY <1>1
  <2> QED
    BY <1>1, <1>3, <2>1
<1>5. k * q >= 0
  BY <1>1, <1>4
<1>6. ASSUME x >= q * k
      PROVE  x >= 0 /\ p = q
  <2>1. x >= 0
    BY <1>1, <1>3, <1>5, <1>6
  <2>2. ASSUME p + 1 <= q PROVE FALSE
    <3>1. k * (p + 1) <= k * q
      BY <1>1, <1>2, <2>2
    <3> QED
      BY <1>1, <1>2, <1>3, <1>6, <3>1
  <2>3. ASSUME q + 1 <= p PROVE FALSE
    <3>1. k * (q + 1) <= k * p
      BY <1>1, <1>2, <2>3
    <3> QED
      BY <1>1, <1>2, <1>3, <3>1
  <2> QED
    BY <1>1, <1>2, <2>1, <2>2, <2>3
<1>7. ASSUME x >= 0, p = q
      PROVE  x >= q * k
  BY <1>1, <1>2, <1>3, <1>7
<1> QED
  BY <1>6, <1>7 DEF p, q

\* No call is logged in the future.
NoFutureCalls == \A c \in Calls : day[c] <= today

LEMMA NoFutureCallsStep == ClockTypes /\ NoFutureCalls /\ [Next]_vars => NoFutureCalls'
<1> SUFFICES ASSUME ClockTypes, NoFutureCalls, [Next]_vars PROVE NoFutureCalls'
  OBVIOUS
<1>1. CASE UNCHANGED <<today, day>>
  BY <1>1 DEF NoFutureCalls
<1>2. CASE NextDay
  BY <1>2 DEF NextDay, NoFutureCalls, ClockTypes
<1>3. ASSUME NEW c \in Calls, Serve(c)
      PROVE  NoFutureCalls'
  BY <1>3 DEF Serve, NoFutureCalls, ClockTypes
<1> QED
  <2>1. CASE Boot \/ NewRouter \/ Crash \/ SeedFromConfig \/ Quota \/ UNCHANGED vars
    BY <2>1, <1>1 DEF Boot, NewRouter, Crash, SeedFromConfig, Quota, vars
  <2>2. CASE RunMigrations
    BY <2>2, <1>1 DEF RunMigrations
  <2>3. ASSUME NEW s \in Slugs, AdminProviders(s)
        PROVE  NoFutureCalls'
    BY <2>3, <1>1 DEF AdminProviders
  <2> QED
    BY <1>2, <1>3, <2>1, <2>2, <2>3 DEF Next

LEMMA CountedIsOneCycle == TypesOK /\ NoFutureCalls => UsedIsThisCycle
<1> SUFFICES ASSUME TypesOK, NoFutureCalls, NEW s \in Rows, date[s] \in 0 .. today,
                    NEW c \in logged
             PROVE  day[c] >= CycleStart(date[s], today)
                      <=> day[c] >= date[s] /\ Cycle(s, day[c]) = Cycle(s, today)
  BY DEF UsedIsThisCycle, Counted
<1>1. /\ today \in Nat /\ day[c] \in Nat /\ day[c] <= today
      /\ date[s] \in Nat /\ date[s] <= today /\ date[s] # NoDate
      /\ CycleLen \in Nat \ {0}
  BY CycleAssumption DEF TypesOK, UpgradeTypes, ClockTypes, NoFutureCalls, NoDate
<1>2. CycleStart(date[s], today) = date[s] + ((today - date[s]) \div CycleLen) * CycleLen
  BY <1>1 DEF CycleStart, AnchorDay
<1> DEFINE x == day[c] - date[s]  y == today - date[s]
<1>3. x \in Int /\ y \in Nat /\ x <= y
  BY <1>1
<1>4. x >= (y \div CycleLen) * CycleLen <=> x >= 0 /\ x \div CycleLen = y \div CycleLen
  BY <1>1, <1>3, CyclesAreIntervals
<1>5. (y \div CycleLen) * CycleLen \in Int
  BY <1>1, <1>3, Quotients
<1>6. day[c] >= date[s] + (y \div CycleLen) * CycleLen <=> x >= (y \div CycleLen) * CycleLen
  BY <1>1, <1>5
<1> QED
  BY <1>1, <1>2, <1>4, <1>6 DEF Cycle

-----------------------------------------------------------------------------
(* The migrations. *)

\* The statements that recompute the counter of billed tokens.
Bills(s) == s.do = "fill" /\ s.col \in BilledColumns

\* A column the counter depends on is there or about to be added; once there are cleared
\* tokens to bring back, no statement that would do so is left.
UpgradeInv ==
  /\ phase # "migrating" => todo = {}
  /\ phase # "serving" => pending = {}
  /\ phase \in {"seeding", "serving"} => BilledColumns \subseteq columns
  /\ phase = "migrating" =>
       \A c \in BilledColumns : c \in columns \/ \E i \in todo : Statements[i] = Alter(c)
  /\ known /\ forgiven # {} =>
       BilledColumns \subseteq columns /\ \A i \in todo : ~Bills(Statements[i])

LEMMA InitUpgradeInv == Init => UpgradeInv
<1> SUFFICES ASSUME Init PROVE UpgradeInv
  OBVIOUS
<1>1. phase = "down" /\ todo = {} /\ pending = {}
  BY DEF Init, UpgradeInit
<1>2. known => BilledColumns \subseteq columns
  BY UpgradeAssumption DEF Init, UpgradeInit, BilledColumns
<1> QED
  BY <1>1, <1>2 DEF UpgradeInv

\* columnExists: what is planned at a start is what is missing.
LEMMA BootPlans ==
  ASSUME UpgradeInv, Boot
  PROVE  UpgradeInv'
<1>1. /\ phase = "down" /\ phase' = "migrating" /\ todo' = Plan(columns)
      /\ UNCHANGED <<columns, pending, known, forgiven>>
  BY DEF Boot, database
<1>2. \A c \in BilledColumns : c \in columns \/ \E i \in todo' : Statements[i] = Alter(c)
  <2> SUFFICES ASSUME NEW c \in BilledColumns, c \notin columns
               PROVE  \E i \in todo' : Statements[i] = Alter(c)
    OBVIOUS
  <2>1. PICK i \in DOMAIN Statements : Statements[i] = Alter(c)
    BY StatementsHold DEF Range
  <2>2. Due(Statements[i], columns)
    BY <2>1 DEF Due, Alter
  <2> QED
    BY <1>1, <2>1, <2>2 DEF Plan
<1>3. \A i \in todo' : Bills(Statements[i]) => Statements[i].col \in BilledColumns \ columns
  BY <1>1 DEF Plan, Due, Bills
<1> QED
  BY <1>1, <1>2, <1>3 DEF UpgradeInv

\* Any one statement of RunMigrations.
LEMMA StatementKeeps ==
  ASSUME UpgradeInv, phase = "migrating", UNCHANGED <<phase, pending>>, StatementDone,
         \/ columns' = columns /\ Current.do # "alter" /\ UNCHANGED <<known, forgiven>>
         \/ columns' = columns \cup {Current.col} /\ UNCHANGED <<known, forgiven>>
         \/ columns' = columns /\ Current.do # "alter" /\ forgiven' = {}
  PROVE  UpgradeInv'
<1>1. \A c \in BilledColumns : c \in columns' \/ \E i \in todo' : Statements[i] = Alter(c)
  <2> SUFFICES ASSUME NEW c \in BilledColumns, c \notin columns'
               PROVE  \E i \in todo' : Statements[i] = Alter(c)
    OBVIOUS
  <2>1. c \notin columns
    OBVIOUS
  <2>2. PICK i \in todo : Statements[i] = Alter(c)
    BY <2>1 DEF UpgradeInv
  <2>3. Current # Alter(c)
    BY DEF Alter
  <2>4. i # Min(todo)
    BY <2>2, <2>3 DEF Current
  <2> QED
    BY <2>2, <2>4 DEF StatementDone
<1>2. todo' \subseteq todo
  BY DEF StatementDone
<1>3. columns \subseteq columns'
  OBVIOUS
<1> QED
  BY <1>1, <1>2, <1>3 DEF UpgradeInv

LEMMA UpgradeInvStep == UpgradeTypes /\ UpgradeInv /\ [Next]_vars => UpgradeInv'
<1> SUFFICES ASSUME UpgradeTypes, UpgradeInv, [Next]_vars PROVE UpgradeInv'
  OBVIOUS
<1>1. CASE Boot
  BY <1>1, BootPlans
<1>2. CASE RunMigrations
  <2>1. phase = "migrating" /\ UNCHANGED phase
    BY <1>2 DEF RunMigrations
  <2>2. CASE AddColumn
    BY <2>1, <2>2, StatementKeeps DEF AddColumn
  <2>3. CASE FillRaw
    BY <2>1, <2>3, StatementKeeps DEF FillRaw
  <2>4. CASE FillTotals
    BY <2>1, <2>4, StatementKeeps DEF FillTotals
  <2>5. CASE FillAnchor
    BY <2>1, <2>5, StatementKeeps DEF FillAnchor
  <2>6. CASE FillDates
    <3>1. Current.do # "alter"
      BY <2>6 DEF FillDates, Fill
    <3> QED
      BY <2>1, <2>6, <3>1, StatementKeeps DEF FillDates, database
  <2> QED
    BY <1>2, <2>2, <2>3, <2>4, <2>5, <2>6 DEF RunMigrations, Migrate
<1>3. CASE SeedFromConfig
  <2>1. /\ UNCHANGED <<columns, todo, pending, known, forgiven>>
        /\ \/ phase = "migrating" /\ todo = {} /\ phase' = "seeding"
           \/ phase = "seeding" /\ phase' = "seeding"
    BY <1>3 DEF SeedFromConfig, upgradeVars, database
  <2> QED
    BY <2>1 DEF UpgradeInv
<1>4. CASE NewRouter
  BY <1>4 DEF NewRouter, upgradeVars, database, UpgradeInv
<1>5. CASE Crash
  <2>1. /\ phase # "down" /\ phase' = "down" /\ todo' = {} /\ pending' = {}
        /\ forgiven' = forgiven \cup pending /\ UNCHANGED <<columns, known>>
    BY <1>5 DEF Crash, Interrupted, database
  <2>2. phase # "serving" => forgiven' = forgiven
    BY <2>1 DEF UpgradeInv
  <2> QED
    BY <2>1, <2>2 DEF UpgradeInv
<1>6. CASE phase = "serving" /\ UNCHANGED <<columns, todo, phase, known>>
  BY <1>6 DEF UpgradeInv
<1>7. CASE UNCHANGED <<upgradeVars, phase>>
  BY <1>7 DEF upgradeVars, database, UpgradeInv
<1> QED
  <2>1. ASSUME NEW c \in Calls, Serve(c)
        PROVE  UpgradeInv'
    BY <2>1, <1>6 DEF Serve, LogCall, BillCall
  <2>2. CASE Quota
    BY <2>2, <1>6 DEF Quota, ResetTokens, Gate
  <2>3. ASSUME NEW s \in Slugs, AdminProviders(s)
        PROVE  UpgradeInv'
    BY <2>3, <1>7 DEF AdminProviders
  <2>4. CASE NextDay \/ UNCHANGED vars
    BY <2>4, <1>7 DEF NextDay, vars
  <2> QED
    BY <1>1, <1>2, <1>3, <1>4, <1>5, <2>1, <2>2, <2>3, <2>4 DEF Next

\* A call is forgiven for good, or still to be billed, never both; and what the recompute
\* has billed is not billed again.
NeverBoth == (forgiven \cup recomputed) \cap pending = {}

LEMMA NeverBothStep == UpgradeTypes /\ UpgradeInv /\ NeverBoth /\ [Next]_vars => NeverBoth'
<1> SUFFICES ASSUME UpgradeTypes, UpgradeInv, NeverBoth, [Next]_vars PROVE NeverBoth'
  OBVIOUS
<1>1. CASE UNCHANGED <<recomputed, forgiven, pending>>
  BY <1>1 DEF NeverBoth
<1>2. CASE RunMigrations
  <2>1. pending = {}
    BY <1>2 DEF RunMigrations, UpgradeInv
  <2>2. pending' = pending
    BY <1>2 DEF RunMigrations, Migrate, AddColumn, FillRaw, FillTotals, FillAnchor, FillDates
  <2> QED
    BY <2>1, <2>2 DEF NeverBoth
<1>3. CASE Crash
  BY <1>3 DEF Crash, Interrupted, NeverBoth
<1>4. ASSUME NEW c \in Calls, Serve(c)
      PROVE  NeverBoth'
  BY <1>4 DEF Serve, LogCall, BillCall, NeverBoth, UpgradeTypes
<1>5. CASE Quota
  BY <1>5 DEF Quota, ResetTokens, Gate, NeverBoth
<1> QED
  <2>1. CASE Boot \/ SeedFromConfig \/ NewRouter \/ NextDay \/ UNCHANGED vars
    BY <2>1, <1>1 DEF Boot, SeedFromConfig, NewRouter, NextDay, vars, upgradeVars, database
  <2>2. ASSUME NEW s \in Slugs, AdminProviders(s)
        PROVE  NeverBoth'
    BY <2>2, <1>1 DEF AdminProviders, upgradeVars
  <2> QED
    BY <1>2, <1>3, <1>4, <1>5, <2>1, <2>2 DEF Next

LEMMA ResetsStayStep ==
  UpgradeTypes /\ UpgradeInv /\ NeverBoth /\ [Next]_vars => (known => forgiven \subseteq forgiven')
<1> SUFFICES ASSUME UpgradeTypes, UpgradeInv, NeverBoth, [Next]_vars, known
             PROVE  forgiven \subseteq forgiven'
  OBVIOUS
<1>1. CASE forgiven' = forgiven
  BY <1>1
<1>2. CASE RunMigrations
  <2>1. CASE FillTotals
    <3>1. todo # {} /\ Bills(Current)
      BY <2>1 DEF FillTotals, Bills
    <3>2. todo \in SUBSET Nat
      <4>1. DOMAIN Statements = 1 .. Len(Statements) /\ Len(Statements) \in Nat
        BY StatementsHold, LenProperties
      <4> QED
        BY <4>1 DEF UpgradeTypes
    <3>3. Min(todo) \in todo
      BY <3>1, <3>2, MinIsLeast
    <3>4. forgiven = {}
      BY <3>1, <3>3 DEF Current, UpgradeInv
    <3> QED
      BY <3>4
  <2>2. CASE AddColumn \/ FillRaw \/ FillAnchor \/ FillDates
    BY <2>2 DEF AddColumn, FillRaw, FillAnchor, FillDates
  <2> QED
    BY <1>2, <2>1, <2>2 DEF RunMigrations, Migrate
<1>3. CASE Crash
  BY <1>3 DEF Crash, Interrupted
<1>4. CASE Quota
  BY <1>4 DEF Quota, ResetTokens, Gate, NeverBoth, UpgradeTypes
<1> QED
  <2>1. CASE Boot \/ SeedFromConfig \/ NewRouter \/ NextDay \/ UNCHANGED vars
    BY <2>1, <1>1 DEF Boot, SeedFromConfig, NewRouter, NextDay, vars, upgradeVars
  <2>2. ASSUME NEW s \in Slugs, AdminProviders(s)
        PROVE  forgiven \subseteq forgiven'
    BY <2>2 DEF AdminProviders, upgradeVars
  <2>3. ASSUME NEW c \in Calls, Serve(c)
        PROVE  forgiven \subseteq forgiven'
    BY <2>3 DEF Serve, LogCall, BillCall
  <2> QED
    BY <1>2, <1>3, <1>4, <2>1, <2>2, <2>3 DEF Next

-----------------------------------------------------------------------------
(* The log. *)

\* Every row of the log holds its raw tokens.
RawDone == \A c \in logged : raw[c] = Tokens[c]

\* A row holds its tokens or 0, and the statement that fills it is ahead until it has run.
RawInv ==
  /\ \A c \in logged : raw[c] \in {0, Tokens[c]}
  /\ \/ RawDone
     \/ phase = "down"
     \/ phase = "migrating" /\ \E i \in todo : Statements[i] = Refill("raw_total_tokens")

LEMMA RawInvStep == UpgradeTypes /\ UpgradeInv /\ RawInv /\ [Next]_vars => RawInv'
<1> SUFFICES ASSUME UpgradeTypes, UpgradeInv, RawInv, [Next]_vars PROVE RawInv'
  OBVIOUS
<1>1. CASE Boot
  <2>1. phase' = "migrating" /\ todo' = Plan(columns) /\ UNCHANGED <<logged, raw>>
    BY <1>1 DEF Boot, database
  <2>2. PICK i \in DOMAIN Statements : Statements[i] = Refill("raw_total_tokens")
    BY StatementsHold DEF Range
  <2>3. i \in todo'
    BY <2>1, <2>2 DEF Plan, Due, Refill
  <2> QED
    BY <2>1, <2>2, <2>3 DEF RawInv
<1>2. CASE RunMigrations
  <2>1. CASE FillRaw
    <3>1. /\ raw' = [c \in Calls |-> IF c \in logged /\ raw[c] = 0 THEN Tokens[c] ELSE raw[c]]
          /\ logged' = logged
      BY <2>1 DEF FillRaw
    <3>2. RawDone'
      BY <3>1 DEF RawDone, RawInv, UpgradeTypes
    <3> QED
      BY <3>1, <3>2 DEF RawInv, RawDone
  <2>2. CASE AddColumn \/ FillTotals \/ FillAnchor \/ FillDates
    <3>1. StatementDone /\ Current # Refill("raw_total_tokens") /\ UNCHANGED <<logged, raw, phase>>
      BY <1>2, <2>2
      DEF RunMigrations, AddColumn, FillTotals, FillAnchor, FillDates, database, Refill, Fill
    <3>2. \A i \in todo : Statements[i] = Refill("raw_total_tokens") => i \in todo'
      BY <3>1 DEF StatementDone, Current
    <3> QED
      BY <3>1, <3>2 DEF RawInv, RawDone
  <2> QED
    BY <1>2, <2>1, <2>2 DEF RunMigrations, Migrate
<1>3. CASE SeedFromConfig
  <2>1. RawDone /\ UNCHANGED <<logged, raw>>
    BY <1>3 DEF SeedFromConfig, upgradeVars, database, RawInv
  <2> QED
    BY <2>1 DEF RawInv, RawDone
<1>4. CASE Crash
  BY <1>4 DEF Crash, Interrupted, database, RawInv
<1>5. ASSUME NEW c \in Calls, Serve(c)
      PROVE  RawInv'
  <2>1. RawDone /\ phase' = phase
    BY <1>5 DEF Serve, RawInv
  <2>2. CASE LogCall(c)
    <3>1. RawDone'
      BY <2>1, <2>2 DEF LogCall, RawOf, RawDone, UpgradeTypes
    <3> QED
      BY <3>1 DEF RawInv, RawDone
  <2>3. CASE BillCall(c)
    BY <2>1, <2>3 DEF BillCall, RawInv, RawDone
  <2> QED
    BY <1>5, <2>2, <2>3 DEF Serve
<1>6. CASE RawDone /\ UNCHANGED <<logged, raw>>
  BY <1>6 DEF RawInv, RawDone
<1>7. CASE UNCHANGED <<logged, raw, todo, phase>>
  BY <1>7 DEF RawInv, RawDone
<1> QED
  <2>1. CASE NewRouter
    BY <2>1, <1>6 DEF NewRouter, upgradeVars, database, RawInv
  <2>2. CASE Quota
    BY <2>2, <1>7 DEF Quota, ResetTokens, Gate
  <2>3. CASE NextDay \/ UNCHANGED vars
    BY <2>3, <1>7 DEF NextDay, vars, upgradeVars, database
  <2>4. ASSUME NEW s \in Slugs, AdminProviders(s)
        PROVE  RawInv'
    BY <2>4, <1>7 DEF AdminProviders, upgradeVars, database
  <2> QED
    BY <1>1, <1>2, <1>3, <1>4, <1>5, <2>1, <2>2, <2>3, <2>4 DEF Next

-----------------------------------------------------------------------------
(* Columns that are added and then filled. *)

\* The columns whose fill is part of Upgraded.
Filled == Anchors \cup {"quota_token_total_mult_v1"}

StatementSeqs == Seq(StatementType)

\* In s, column c is added at i and filled right after it, and nowhere else.
Place(s, c, i) ==
  /\ i \in DOMAIN s /\ i + 1 \in DOMAIN s
  /\ s[i] = Alter(c) /\ s[i + 1] = Fill(c)
  /\ \A j \in DOMAIN s : s[j].col = c => j \in {i, i + 1}

\* No statement of s is about column c.
Without(c) == {s \in StatementSeqs : \A j \in DOMAIN s : s[j].col # c}

With(c) == {s \in StatementSeqs : \E i : Place(s, c, i)}

\* Column c is filled before column d is added.
InOrder(c, d) ==
  {s \in StatementSeqs : \E i, j : Place(s, c, i) /\ Place(s, d, j) /\ i + 1 < j}

LEMMA ConcatIndex ==
  ASSUME NEW s \in StatementSeqs, NEW t \in StatementSeqs
  PROVE  /\ s \o t \in StatementSeqs
         /\ Len(s) \in Nat /\ DOMAIN s = 1 .. Len(s)
         /\ Len(t) \in Nat /\ DOMAIN t = 1 .. Len(t)
         /\ DOMAIN (s \o t) = 1 .. (Len(s) + Len(t))
         /\ \A i \in DOMAIN s : (s \o t)[i] = s[i]
         /\ \A i \in DOMAIN t : (s \o t)[Len(s) + i] = t[i]
         /\ \A i \in DOMAIN (s \o t) : i \in DOMAIN s \/ i - Len(s) \in DOMAIN t
<1>1. /\ s \o t \in StatementSeqs
      /\ Len(s \o t) = Len(s) + Len(t)
      /\ \A i \in 1 .. Len(s) + Len(t) :
           (s \o t)[i] = IF i <= Len(s) THEN s[i] ELSE t[i - Len(s)]
  BY ConcatProperties DEF StatementSeqs
<1>2. /\ Len(s) \in Nat /\ DOMAIN s = 1 .. Len(s)
      /\ Len(t) \in Nat /\ DOMAIN t = 1 .. Len(t)
      /\ DOMAIN (s \o t) = 1 .. Len(s \o t)
  BY <1>1, LenProperties DEF StatementSeqs
<1> DEFINE u == s \o t
<1> HIDE DEF u
<1>3. \A i \in DOMAIN s : u[i] = s[i]
  BY <1>1, <1>2 DEF u
<1>4. ASSUME NEW i \in DOMAIN t PROVE u[Len(s) + i] = t[i]
  <2>1. Len(s) + i \in 1 .. Len(s) + Len(t) /\ ~(Len(s) + i <= Len(s))
        /\ (Len(s) + i) - Len(s) = i
    BY <1>2
  <2> QED
    BY <1>1, <2>1 DEF u
<1> QED
  BY <1>1, <1>2, <1>3, <1>4 DEF u

LEMMA PlaceLeft ==
  ASSUME NEW c, NEW i, NEW s \in StatementSeqs, NEW t \in Without(c), Place(s, c, i)
  PROVE  Place(s \o t, c, i)
<1> DEFINE u == s \o t
<1>1. /\ t \in StatementSeqs
      /\ Len(s) \in Nat /\ DOMAIN s = 1 .. Len(s)
      /\ Len(t) \in Nat /\ DOMAIN t = 1 .. Len(t)
      /\ DOMAIN u = 1 .. (Len(s) + Len(t))
      /\ \A k \in DOMAIN s : u[k] = s[k]
      /\ \A k \in DOMAIN t : u[Len(s) + k] = t[k]
      /\ \A k \in DOMAIN u : k \in DOMAIN s \/ k - Len(s) \in DOMAIN t
  BY ConcatIndex DEF Without
<1> HIDE DEF u
<1>2. i \in DOMAIN u /\ i + 1 \in DOMAIN u /\ u[i] = Alter(c) /\ u[i + 1] = Fill(c)
  BY <1>1 DEF Place
<1>3. ASSUME NEW j \in DOMAIN u, u[j].col = c PROVE j \in {i, i + 1}
  <2>1. CASE j \in DOMAIN s
    BY <1>1, <1>3, <2>1 DEF Place
  <2>2. CASE j - Len(s) \in DOMAIN t
    <3>1. Len(s) + (j - Len(s)) = j
      BY <1>1
    <3>2. u[j] = t[j - Len(s)]
      BY <1>1, <2>2, <3>1
    <3> QED
      BY <1>3, <2>2, <3>2 DEF Without
  <2> QED
    BY <1>1, <2>1, <2>2
<1> QED
  BY <1>2, <1>3 DEF Place, u

LEMMA PlaceRight ==
  ASSUME NEW c, NEW i, NEW s \in Without(c), NEW t \in StatementSeqs, Place(t, c, i)
  PROVE  Place(s \o t, c, Len(s) + i)
<1> DEFINE u == s \o t
           n == Len(s)
<1>1. /\ s \in StatementSeqs
      /\ n \in Nat /\ DOMAIN s = 1 .. n
      /\ Len(t) \in Nat /\ DOMAIN t = 1 .. Len(t)
      /\ DOMAIN u = 1 .. (n + Len(t))
      /\ \A k \in DOMAIN s : u[k] = s[k]
      /\ \A k \in DOMAIN t : u[n + k] = t[k]
      /\ \A k \in DOMAIN u : k \in DOMAIN s \/ k - n \in DOMAIN t
  BY ConcatIndex DEF Without
<1> HIDE DEF u, n
<1>2. (n + i) + 1 = n + (i + 1) /\ i \in Int
  BY <1>1 DEF Place
<1>3. /\ n + i \in DOMAIN u /\ n + (i + 1) \in DOMAIN u
      /\ u[n + i] = Alter(c) /\ u[n + (i + 1)] = Fill(c)
  BY <1>1 DEF Place
<1>4. ASSUME NEW j \in DOMAIN u, u[j].col = c PROVE j \in {n + i, n + (i + 1)}
  <2>1. CASE j \in DOMAIN s
    BY <1>1, <1>4, <2>1 DEF Without
  <2>2. CASE j - n \in DOMAIN t
    <3>1. n + (j - n) = j
      BY <1>1
    <3>2. u[j] = t[j - n]
      BY <1>1, <2>2, <3>1
    <3>3. j - n \in {i, i + 1}
      BY <1>4, <2>2, <3>2 DEF Place
    <3> QED
      BY <3>1, <3>3
  <2> QED
    BY <1>1, <2>1, <2>2
<1> QED
  BY <1>2, <1>3, <1>4 DEF Place, u, n

\* How the three kinds of sequences go together.
LEMMA Kinds ==
  ASSUME NEW c, NEW d
  PROVE  /\ \A s, t \in Without(c) : s \o t \in Without(c)
         /\ \A s \in With(c), t \in Without(c) : s \o t \in With(c) /\ t \o s \in With(c)
         /\ \A s \in With(c) \cap Without(d), t \in With(d) \cap Without(c) : s \o t \in InOrder(c, d)
         /\ \A s \in InOrder(c, d), t \in Without(c) \cap Without(d) :
              s \o t \in InOrder(c, d) /\ t \o s \in InOrder(c, d)
<1>1. ASSUME NEW s \in Without(c), NEW t \in Without(c) PROVE s \o t \in Without(c)
  <2> DEFINE u == s \o t
  <2>1. /\ u \in StatementSeqs /\ Len(s) \in Nat /\ DOMAIN u = 1 .. (Len(s) + Len(t)) /\ Len(t) \in Nat
        /\ \A k \in DOMAIN s : u[k] = s[k]
        /\ \A k \in DOMAIN t : u[Len(s) + k] = t[k]
        /\ \A k \in DOMAIN u : k \in DOMAIN s \/ k - Len(s) \in DOMAIN t
    BY ConcatIndex DEF Without
  <2> HIDE DEF u
  <2>2. ASSUME NEW j \in DOMAIN u PROVE u[j].col # c
    <3>1. CASE j \in DOMAIN s
      BY <2>1, <3>1 DEF Without
    <3>2. CASE j - Len(s) \in DOMAIN t
      <4>1. Len(s) + (j - Len(s)) = j
        BY <2>1
      <4>2. u[j] = t[j - Len(s)]
        BY <2>1, <3>2, <4>1
      <4> QED
        BY <3>2, <4>2 DEF Without
    <3> QED
      BY <2>1, <3>1, <3>2
  <2> QED
    BY <2>1, <2>2 DEF Without, u
<1>2. ASSUME NEW s \in With(c), NEW t \in Without(c)
      PROVE  s \o t \in With(c) /\ t \o s \in With(c)
  <2>1. s \in StatementSeqs /\ t \in StatementSeqs
    BY DEF With, Without
  <2>2. s \o t \in StatementSeqs /\ t \o s \in StatementSeqs
    BY <2>1, ConcatIndex
  <2>3. PICK i : Place(s, c, i)
    BY DEF With
  <2>4. Place(s \o t, c, i) /\ Place(t \o s, c, Len(t) + i)
    BY <2>1, <2>3, PlaceLeft, PlaceRight
  <2> QED
    BY <2>2, <2>4 DEF With
<1>3. ASSUME NEW s \in With(c) \cap Without(d), NEW t \in With(d) \cap Without(c)
      PROVE  s \o t \in InOrder(c, d)
  <2>1. s \in StatementSeqs /\ t \in StatementSeqs
    BY DEF With
  <2>2. PICK i : Place(s, c, i)
    BY DEF With
  <2>3. PICK j : Place(t, d, j)
    BY DEF With
  <2>4. Place(s \o t, c, i) /\ Place(s \o t, d, Len(s) + j)
    BY <2>1, <2>2, <2>3, PlaceLeft, PlaceRight
  <2>5. /\ s \o t \in StatementSeqs
        /\ Len(s) \in Nat /\ DOMAIN s = 1 .. Len(s) /\ Len(t) \in Nat /\ DOMAIN t = 1 .. Len(t)
    BY <2>1, ConcatIndex
  <2>6. i + 1 <= Len(s) /\ j >= 1 /\ i \in Int /\ j \in Int
    BY <2>2, <2>3, <2>5 DEF Place
  <2>7. i + 1 < Len(s) + j
    BY <2>5, <2>6
  <2> QED
    BY <2>4, <2>5, <2>7 DEF InOrder
<1>4. ASSUME NEW s \in InOrder(c, d), NEW t \in Without(c) \cap Without(d)
      PROVE  s \o t \in InOrder(c, d) /\ t \o s \in InOrder(c, d)
  <2>1. s \in StatementSeqs /\ t \in StatementSeqs
    BY DEF InOrder, Without
  <2>2. PICK i, j : Place(s, c, i) /\ Place(s, d, j) /\ i + 1 < j
    BY DEF InOrder
  <2>3. /\ Place(s \o t, c, i) /\ Place(s \o t, d, j)
        /\ Place(t \o s, c, Len(t) + i) /\ Place(t \o s, d, Len(t) + j)
    BY <2>1, <2>2, PlaceLeft, PlaceRight
  <2>4. s \o t \in StatementSeqs /\ t \o s \in StatementSeqs /\ Len(t) \in Nat
        /\ Len(s) \in Nat /\ DOMAIN s = 1 .. Len(s)
    BY <2>1, ConcatIndex
  <2>5. i \in Int /\ j \in Int
    BY <2>2, <2>4 DEF Place
  <2>6. (Len(t) + i) + 1 < Len(t) + j
    BY <2>2, <2>4, <2>5
  <2> QED
    BY <2>2, <2>3, <2>4, <2>6 DEF InOrder
<1> QED
  BY <1>1, <1>2, <1>3, <1>4

\* A column of the plan, on its own.
LEMMA OneColumn ==
  ASSUME NEW d \in Columns
  PROVE  /\ AddedAndFilled(d) \in With(d)
         /\ \A c : c # d => Added(d) \in Without(c) /\ AddedAndFilled(d) \in Without(c)
<1>1. Added(d) \in StatementSeqs /\ AddedAndFilled(d) \in StatementSeqs
  BY Parts DEF StatementSeqs
<1>2. /\ AddedAndFilled(d) = <<Alter(d), Fill(d)>> /\ DOMAIN AddedAndFilled(d) = {1, 2}
      /\ AddedAndFilled(d)[1] = Alter(d) /\ AddedAndFilled(d)[2] = Fill(d)
  BY DEF AddedAndFilled
<1>3. DOMAIN Added(d) = {1} /\ Added(d)[1] = Alter(d)
  BY DEF Added
<1>4. Alter(d).col = d /\ Fill(d).col = d
  BY DEF Alter, Fill
<1>5. Place(AddedAndFilled(d), d, 1)
  <2>1. 1 + 1 = 2
    OBVIOUS
  <2> QED
    BY <1>2, <2>1 DEF Place
<1>6. AddedAndFilled(d) \in With(d)
  BY <1>1, <1>5 DEF With
<1> QED
  BY <1>1, <1>2, <1>3, <1>4, <1>6 DEF Without

\* Where the columns of Upgraded are in the five parts of RunMigrations.
LEMMA PartsWithout ==
  ASSUME NEW c \in Filled
  PROVE  /\ CallLogSteps \in Without(c) /\ UserSteps \in Without(c) /\ ProviderSteps \in Without(c)
         /\ c # "quota_token_total_mult_v1" => QuotaSteps \in Without(c)
         /\ c = "quota_token_total_mult_v1" => WindowSteps \in Without(c)
<1>1. \A d \in Columns : d # c => Added(d) \in Without(c) /\ AddedAndFilled(d) \in Without(c)
  BY OneColumn
<1>2. \A s, t \in Without(c) : s \o t \in Without(c)
  BY Kinds
<1>3. \A d \in Columns \ (Anchors \cup BilledColumns) :
        Added(d) \in Without(c) /\ AddedAndFilled(d) \in Without(c)
  BY <1>1 DEF Filled, Anchors, BilledColumns
<1>4. CallLogSteps \in Without(c)
  <2>1. Refill("raw_total_tokens") \in StatementType /\ Refill("raw_total_tokens").col = "raw_total_tokens"
    BY DEF Refill, StatementType, Columns
  <2>2. /\ <<Refill("raw_total_tokens")>> \in StatementSeqs
        /\ DOMAIN <<Refill("raw_total_tokens")>> = {1}
        /\ <<Refill("raw_total_tokens")>>[1] = Refill("raw_total_tokens")
    BY <2>1, ShortTuples DEF StatementSeqs
  <2>3. <<Refill("raw_total_tokens")>> \in Without(c)
    BY <2>1, <2>2 DEF Without, Filled, Anchors
  <2>4. Added("provider_id") \in Without(c) /\ Added("raw_total_tokens") \in Without(c)
    BY <1>3 DEF Columns, Anchors, BilledColumns
  <2> QED
    BY <1>2, <2>3, <2>4 DEF CallLogSteps
<1>5. UserSteps \in Without(c)
  <2>1. /\ Added("expires_at") \in Without(c) /\ Added("route_mode") \in Without(c)
        /\ Added("fixed_provider") \in Without(c) /\ Added("max_body_size") \in Without(c)
        /\ Added("max_concurrency") \in Without(c)
    BY <1>3 DEF Columns, Anchors, BilledColumns
  <2> QED
    BY <1>2, <2>1 DEF UserSteps
<1>6. ProviderSteps \in Without(c)
  <2>1. /\ Added("allow_passthrough") \in Without(c) /\ Added("auth_header") \in Without(c)
        /\ Added("auth_scheme") \in Without(c) /\ Added("extra_headers") \in Without(c)
        /\ Added("monthly_token_limit") \in Without(c) /\ Added("monthly_call_limit") \in Without(c)
        /\ Added("monthly_token_low_ratio") \in Without(c)
        /\ Added("monthly_call_low_ratio") \in Without(c)
        /\ AddedAndFilled("cycle_start_date") \in Without(c)
    BY <1>3 DEF Columns, Anchors, BilledColumns
  <2> QED
    BY <1>2, <2>1 DEF ProviderSteps
<1>7. ASSUME c # "quota_token_total_mult_v1" PROVE QuotaSteps \in Without(c)
  <2>1. c \in Anchors
    BY <1>7 DEF Filled
  <2>2. /\ Added("fixed_multiplier") \in Without(c) /\ Added("quota_token_total_used") \in Without(c)
        /\ Added("priority") \in Without(c)
        /\ AddedAndFilled("quota_token_total_limit") \in Without(c)
        /\ AddedAndFilled("quota_token_total_mult_v1") \in Without(c)
    BY <1>1, <2>1 DEF Columns, Anchors
  <2> QED
    BY <1>2, <2>2 DEF QuotaSteps
<1>8. ASSUME c = "quota_token_total_mult_v1" PROVE WindowSteps \in Without(c)
  <2>1. /\ Added("quota_token_5h_limit") \in Without(c) /\ Added("quota_token_5h_used") \in Without(c)
        /\ Added("quota_token_week_limit") \in Without(c) /\ Added("quota_token_week_used") \in Without(c)
        /\ AddedAndFilled("week_start") \in Without(c) /\ AddedAndFilled("week_cycle_start") \in Without(c)
        /\ AddedAndFilled("month_start") \in Without(c)
    BY <1>1, <1>8 DEF Columns
  <2> QED
    BY <1>2, <2>1 DEF WindowSteps
<1> QED
  BY <1>4, <1>5, <1>6, <1>7, <1>8

LEMMA PartsWith ==
  /\ QuotaSteps \in With("quota_token_total_mult_v1")
  /\ WindowSteps \in With("month_start")
  /\ WindowSteps \in InOrder("week_start", "week_cycle_start")
<1>1. QuotaSteps \in With("quota_token_total_mult_v1")
  <2> DEFINE c == "quota_token_total_mult_v1"
             a == Added("fixed_multiplier") \o Added("quota_token_total_used") \o Added("priority")
                    \o AddedAndFilled("quota_token_total_limit")
  <2>1. /\ Added("fixed_multiplier") \in Without(c) /\ Added("quota_token_total_used") \in Without(c)
        /\ Added("priority") \in Without(c)
        /\ AddedAndFilled("quota_token_total_limit") \in Without(c)
        /\ AddedAndFilled(c) \in With(c)
    BY OneColumn DEF Columns
  <2>2. /\ \A s, t \in Without(c) : s \o t \in Without(c)
        /\ \A s \in With(c), t \in Without(c) : t \o s \in With(c)
    BY Kinds
  <2>3. a \in Without(c)
    BY <2>1, <2>2
  <2>4. QuotaSteps = a \o AddedAndFilled(c)
    BY DEF QuotaSteps
  <2> HIDE DEF a, c
  <2>5. QuotaSteps \in With(c)
    BY <2>1, <2>2, <2>3, <2>4
  <2> QED
    BY <2>5 DEF c
<1> DEFINE five == Added("quota_token_5h_limit") \o Added("quota_token_5h_used")
                     \o Added("quota_token_week_limit") \o Added("quota_token_week_used")
           ws == AddedAndFilled("week_start")
           wc == AddedAndFilled("week_cycle_start")
           ms == AddedAndFilled("month_start")
<1>2. WindowSteps = ((five \o ws) \o wc) \o ms
  BY DEF WindowSteps
<1>3. \A c \in Anchors : five \in Without(c)
  <2> SUFFICES ASSUME NEW c \in Anchors PROVE five \in Without(c)
    OBVIOUS
  <2>1. /\ Added("quota_token_5h_limit") \in Without(c) /\ Added("quota_token_5h_used") \in Without(c)
        /\ Added("quota_token_week_limit") \in Without(c) /\ Added("quota_token_week_used") \in Without(c)
    BY OneColumn DEF Columns, Anchors
  <2>2. \A s, t \in Without(c) : s \o t \in Without(c)
    BY Kinds
  <2> QED
    BY <2>1, <2>2
<1>4. /\ ws \in With("week_start") /\ ws \in Without("week_cycle_start") /\ ws \in Without("month_start")
      /\ wc \in With("week_cycle_start") /\ wc \in Without("week_start") /\ wc \in Without("month_start")
      /\ ms \in With("month_start") /\ ms \in Without("week_start") /\ ms \in Without("week_cycle_start")
  BY OneColumn DEF Columns
<1>5. /\ five \in Without("week_start") /\ five \in Without("week_cycle_start")
      /\ five \in Without("month_start")
  BY <1>3 DEF Anchors
<1> HIDE DEF five, ws, wc, ms
<1>6. WindowSteps \in With("month_start")
  <2>1. /\ \A s, t \in Without("month_start") : s \o t \in Without("month_start")
        /\ \A s \in With("month_start"), t \in Without("month_start") : t \o s \in With("month_start")
    BY Kinds
  <2>2. (five \o ws) \o wc \in Without("month_start")
    BY <1>4, <1>5, <2>1
  <2> QED
    BY <1>2, <1>4, <2>1, <2>2
<1>7. WindowSteps \in InOrder("week_start", "week_cycle_start")
  <2>1. five \o ws \in With("week_start")
    BY <1>4, <1>5, Kinds
  <2>2. five \o ws \in Without("week_cycle_start")
    BY <1>4, <1>5, Kinds
  <2>3. (five \o ws) \o wc \in InOrder("week_start", "week_cycle_start")
    BY <1>4, <2>1, <2>2, Kinds
  <2> QED
    BY <1>2, <1>4, <2>3, Kinds
<1> QED
  BY <1>1, <1>6, <1>7

\* Every one of these columns is added and filled at one place, week_start before
\* week_cycle_start.
LEMMA StatementsPlaced ==
  /\ \A c \in Filled : \E i : Place(Statements, c, i)
  /\ \E i, j : Place(Statements, "week_start", i) /\ Place(Statements, "week_cycle_start", j) /\ i + 1 < j
<1> DEFINE a == CallLogSteps  b == UserSteps  q == QuotaSteps  w == WindowSteps  p == ProviderSteps
<1>1. Statements = (((a \o b) \o q) \o w) \o p
  BY DEF Statements
<1>2. /\ \A c \in Filled : a \in Without(c) /\ b \in Without(c) /\ p \in Without(c)
      /\ \A c \in Anchors : q \in Without(c)
      /\ w \in Without("quota_token_total_mult_v1")
  BY PartsWithout DEF Filled, Anchors
<1>3. /\ q \in With("quota_token_total_mult_v1") /\ w \in With("month_start")
      /\ w \in InOrder("week_start", "week_cycle_start")
  BY PartsWith
<1> HIDE DEF a, b, q, w, p
<1>4. Statements \in With("quota_token_total_mult_v1")
  <2> DEFINE c == "quota_token_total_mult_v1"
  <2>1. a \in Without(c) /\ b \in Without(c) /\ p \in Without(c) /\ w \in Without(c) /\ q \in With(c)
    BY <1>2, <1>3 DEF Filled
  <2>2. /\ \A s, t \in Without(c) : s \o t \in Without(c)
        /\ \A s \in With(c), t \in Without(c) : s \o t \in With(c) /\ t \o s \in With(c)
    BY Kinds
  <2> HIDE DEF c
  <2>3. Statements \in With(c)
    BY <1>1, <2>1, <2>2
  <2> QED
    BY <2>3 DEF c
<1>5. Statements \in With("month_start")
  <2> DEFINE c == "month_start"
  <2>1. a \in Without(c) /\ b \in Without(c) /\ p \in Without(c) /\ q \in Without(c) /\ w \in With(c)
    BY <1>2, <1>3 DEF Filled, Anchors
  <2>2. /\ \A s, t \in Without(c) : s \o t \in Without(c)
        /\ \A s \in With(c), t \in Without(c) : s \o t \in With(c) /\ t \o s \in With(c)
    BY Kinds
  <2> HIDE DEF c
  <2>3. Statements \in With(c)
    BY <1>1, <2>1, <2>2
  <2> QED
    BY <2>3 DEF c
<1>6. Statements \in InOrder("week_start", "week_cycle_start")
  <2> DEFINE c == "week_start"  d == "week_cycle_start"
  <2>1. /\ a \in Without(c) /\ b \in Without(c) /\ p \in Without(c) /\ q \in Without(c)
        /\ a \in Without(d) /\ b \in Without(d) /\ p \in Without(d) /\ q \in Without(d)
        /\ w \in InOrder(c, d)
    BY <1>2, <1>3 DEF Filled, Anchors
  <2> HIDE DEF c, d
  <2>2. a \o b \in Without(c) /\ a \o b \in Without(d)
    BY <2>1, Kinds
  <2>3. (a \o b) \o q \in Without(c) /\ (a \o b) \o q \in Without(d)
    BY <2>1, <2>2, Kinds
  <2>4. ((a \o b) \o q) \o w \in InOrder(c, d)
    BY <2>1, <2>3, Kinds
  <2>5. Statements \in InOrder(c, d)
    BY <1>1, <2>1, <2>4, Kinds
  <2> QED
    BY <2>5 DEF c, d
<1>7. \E i, j : Place(Statements, "week_start", i) /\ Place(Statements, "week_cycle_start", j) /\ i + 1 < j
  BY <1>6 DEF InOrder
<1>8. ASSUME NEW c \in Filled PROVE \E i : Place(Statements, c, i)
  BY <1>4, <1>5, <1>7 DEF Filled, Anchors, With
<1> QED
  BY <1>7, <1>8


-----------------------------------------------------------------------------
(* Fills that run, and fills that a crash has prevented. *)

\* What Upgraded asks of column c: its fill has had its effect, or a crash prevents it.
Repaired(c) ==
  \/ IF c \in Anchors THEN c \in anchored ELSE known
  \/ c \in cut
  \/ c = "week_cycle_start" /\ "week_start" \in cut

\* Column c, added by statement i and filled by the next one: what is not there yet is
\* ahead, both statements of it, and what is there is repaired or the very next to be.
FillAhead(c, i) ==
  /\ phase = "migrating" /\ c \notin columns => i \in todo /\ i + 1 \in todo
  /\ phase \in {"seeding", "serving"} => c \in columns
  /\ c \in columns =>
       Repaired(c) \/ (phase = "migrating" /\ todo # {} /\ i + 1 = Min(todo))

FillsInv == \A c \in Filled : \A i : Place(Statements, c, i) => FillAhead(c, i)

\* The places of RunMigrations are natural numbers.
LEMMA PlacesAreNumbers == DOMAIN Statements \subseteq Nat
<1>1. DOMAIN Statements = 1 .. Len(Statements) /\ Len(Statements) \in Nat
  BY StatementsHold, LenProperties
<1> QED
  BY <1>1

LEMMA InitFills == Init => FillsInv
<1> SUFFICES ASSUME Init, NEW c \in Filled, NEW i, Place(Statements, c, i) PROVE FillAhead(c, i)
  BY DEF FillsInv
<1>1. phase = "down" /\ anchored = columns \cap Anchors
      /\ known = ("quota_token_total_mult_v1" \in columns)
  BY DEF Init, UpgradeInit
<1>2. c \in columns => Repaired(c)
  BY <1>1 DEF Filled, Repaired
<1> QED
  BY <1>1, <1>2 DEF FillAhead

\* What is repaired stays so.
LEMMA StaysRepaired ==
  ASSUME NEW c, Repaired(c), anchored \subseteq anchored', known => known', cut \subseteq cut'
  PROVE  Repaired(c)'
BY DEF Repaired

\* AddColumn: the fill of the column is now the statement at hand.
LEMMA AddColumnFills ==
  ASSUME UpgradeTypes, FillsInv, phase = "migrating", phase' = phase, AddColumn
  PROVE  FillsInv'
<1> SUFFICES ASSUME NEW c \in Filled, NEW i, Place(Statements, c, i) PROVE FillAhead(c, i)'
  BY DEF FillsInv
<1> DEFINE m == Min(todo)
<1>1. /\ todo # {} /\ Statements[m].do = "alter" /\ columns' = columns \cup {Statements[m].col}
      /\ todo' = todo \ {m} /\ UNCHANGED <<anchored, known, cut>>
  BY DEF AddColumn, StatementDone, Current
<1>2. todo \in SUBSET Nat
  BY PlacesAreNumbers DEF UpgradeTypes
<1>3. m \in todo /\ \A n \in todo : m <= n
  BY <1>1, <1>2, MinIsLeast
<1>4. /\ i \in DOMAIN Statements /\ i + 1 \in DOMAIN Statements
      /\ Statements[i].col = c /\ Statements[i + 1].do = "fill" /\ Statements[i + 1].col = c
      /\ \A j \in DOMAIN Statements : Statements[j].col = c => j \in {i, i + 1}
      /\ i \in Nat
  BY PlacesAreNumbers DEF Place, Alter, Fill
<1>5. m # i + 1
  BY <1>1, <1>4
<1> HIDE DEF m
<1>6. CASE c \in columns
  <2>1. Repaired(c)
    BY <1>5, <1>6 DEF FillsInv, FillAhead, m
  <2>2. Repaired(c)'
    BY <1>1, <2>1, StaysRepaired
  <2> QED
    BY <1>1, <1>6, <2>2 DEF FillAhead
<1>7. CASE c \notin columns /\ Statements[m].col # c
  <2>1. i \in todo /\ i + 1 \in todo /\ m # i /\ c \notin columns'
    BY <1>1, <1>4, <1>7 DEF FillsInv, FillAhead
  <2>2. i \in todo' /\ i + 1 \in todo' /\ c \notin columns'
    BY <1>1, <1>5, <2>1
  <2> QED
    BY <2>2 DEF FillAhead
<1>8. CASE c \notin columns /\ Statements[m].col = c
  <2>1. m = i
    BY <1>3, <1>4, <1>5, <1>8 DEF UpgradeTypes
  <2>2. i + 1 \in todo'
    <3>1. i + 1 \in todo
      BY <1>8 DEF FillsInv, FillAhead
    <3> QED
      BY <1>1, <1>5, <3>1
  <2>3. \A n \in todo' : i + 1 <= n
    <3> SUFFICES ASSUME NEW n \in todo' PROVE i + 1 <= n
      OBVIOUS
    <3>1. n \in todo /\ n # m /\ n \in Nat /\ i <= n
      BY <1>1, <1>2, <1>3, <2>1
    <3> QED
      BY <1>4, <2>1, <3>1
  <2>4. todo' \in SUBSET Nat /\ todo' # {}
    BY <1>1, <1>2, <2>2
  <2>5. Min(todo') = i + 1
    BY <2>2, <2>3, <2>4, MinIsLeast
  <2>6. c \in columns' /\ phase' = "migrating"
    BY <1>1, <1>8
  <2> QED
    BY <2>4, <2>5, <2>6 DEF FillAhead
<1> QED
  BY <1>6, <1>7, <1>8

\* Any other statement: the ALTER of a column that is missing is not it, so neither is its
\* fill, and a fill that runs repairs its column.
LEMMA OthersFill ==
  ASSUME UpgradeTypes, FillsInv, phase = "migrating", phase' = phase,
         FillRaw \/ FillTotals \/ FillAnchor \/ FillDates
  PROVE  FillsInv'
<1> SUFFICES ASSUME NEW c \in Filled, NEW i, Place(Statements, c, i) PROVE FillAhead(c, i)'
  BY DEF FillsInv
<1> DEFINE m == Min(todo)
<1>1. /\ todo # {} /\ Statements[m].do # "alter" /\ columns' = columns
      /\ todo' = todo \ {m} /\ cut' = cut
      /\ anchored \subseteq anchored' /\ (known => known')
  BY DEF FillRaw, FillTotals, FillAnchor, FillDates, StatementDone, Current, Fill, database
<1>2. todo \in SUBSET Nat
  BY PlacesAreNumbers DEF UpgradeTypes
<1>3. m \in todo /\ \A n \in todo : m <= n
  BY <1>1, <1>2, MinIsLeast
<1>4. /\ i \in DOMAIN Statements /\ i \in Nat
      /\ Statements[i].do = "alter" /\ Statements[i + 1] = Fill(c)
  BY PlacesAreNumbers DEF Place, Alter
<1>5. m = i + 1 => Current = Fill(c)
  BY <1>4 DEF Current
<1> HIDE DEF m
<1>6. CASE c \notin columns
  <2>1. i \in todo /\ i + 1 \in todo
    BY <1>6 DEF FillsInv, FillAhead
  <2>2. m # i /\ m <= i /\ m \in Nat
    BY <1>1, <1>2, <1>3, <1>4, <2>1
  <2>3. m # i + 1
    BY <1>4, <2>2
  <2>4. i \in todo' /\ i + 1 \in todo'
    BY <1>1, <2>1, <2>2, <2>3
  <2> QED
    BY <1>1, <1>6, <2>4 DEF FillAhead
<1>7. CASE c \in columns /\ Repaired(c)
  <2>1. Repaired(c)'
    BY <1>1, <1>7, StaysRepaired
  <2> QED
    BY <1>1, <1>7, <2>1 DEF FillAhead
<1>8. CASE c \in columns /\ ~Repaired(c)
  <2>1. m = i + 1
    BY <1>8 DEF FillsInv, FillAhead, m
  <2>2. Current = Fill(c)
    BY <1>5, <2>1
  <2>3. Current.do = "fill" /\ Current.col = c
    BY <2>2 DEF Fill
  <2>4. Repaired(c)'
    <3>1. CASE c = "quota_token_total_mult_v1"
      <4>1. FillTotals
        BY <2>2, <2>3, <3>1 DEF FillRaw, FillAnchor, FillDates, Fill, Anchors
      <4> QED
        BY <3>1, <4>1 DEF FillTotals, Repaired, Anchors
    <3>2. CASE c \in Anchors
      <4>1. FillAnchor
        BY <2>2, <2>3, <3>2 DEF FillRaw, FillTotals, FillDates, Fill, Anchors, BilledColumns
      <4>2. CASE c = "week_cycle_start" /\ "week_start" \notin anchored
        <5>1. PICK k, j : /\ Place(Statements, "week_start", k)
                          /\ Place(Statements, "week_cycle_start", j) /\ k + 1 < j
          BY StatementsPlaced
        <5>2. i \in {j, j + 1} /\ j \in Nat /\ k \in Nat
          <6>1. Statements[i].col = c
            BY DEF Place, Alter
          <6> QED
            BY <1>4, <4>2, <5>1, <6>1, PlacesAreNumbers DEF Place
        <5>3. k \notin todo /\ k + 1 # m
          BY <1>2, <1>3, <1>4, <2>1, <5>1, <5>2
        <5>4. "week_start" \in Filled
          BY DEF Filled, Anchors
        <5>5. FillAhead("week_start", k)
          BY <5>1, <5>4 DEF FillsInv
        <5>6. Repaired("week_start")
          BY <5>3, <5>5 DEF FillAhead, m
        <5>7. "week_start" \in cut
          BY <4>2, <5>6 DEF Repaired, Anchors
        <5> QED
          BY <1>1, <4>2, <5>7 DEF Repaired
      <4>3. CASE ~(c = "week_cycle_start" /\ "week_start" \notin anchored)
        BY <2>3, <3>2, <4>1, <4>3 DEF FillAnchor, Repaired
      <4> QED
        BY <4>2, <4>3
    <3> QED
      BY <3>1, <3>2 DEF Filled
  <2> QED
    BY <1>1, <1>8, <2>4 DEF FillAhead
<1> QED
  BY <1>6, <1>7, <1>8

LEMMA FillsInvStep == UpgradeTypes /\ UpgradeInv /\ FillsInv /\ [Next]_vars => FillsInv'
<1> SUFFICES ASSUME UpgradeTypes, UpgradeInv, FillsInv, [Next]_vars PROVE FillsInv'
  OBVIOUS
<1>1. CASE Boot
  <2> SUFFICES ASSUME NEW c \in Filled, NEW i, Place(Statements, c, i) PROVE FillAhead(c, i)'
    BY DEF FillsInv
  <2>1. /\ phase = "down" /\ phase' = "migrating" /\ todo' = Plan(columns)
        /\ UNCHANGED <<columns, anchored, known, cut>>
    BY <1>1 DEF Boot, database
  <2>2. c \notin columns => i \in todo' /\ i + 1 \in todo'
    BY <2>1 DEF Plan, Due, Place, Alter, Fill
  <2>3. c \in columns => Repaired(c)
    BY <2>1 DEF FillsInv, FillAhead
  <2>4. c \in columns => Repaired(c)'
    BY <2>1, <2>3, StaysRepaired
  <2> QED
    BY <2>1, <2>2, <2>4 DEF FillAhead
<1>2. CASE RunMigrations
  <2>1. phase = "migrating" /\ phase' = phase
    BY <1>2 DEF RunMigrations
  <2> QED
    BY <1>2, <2>1, AddColumnFills, OthersFill DEF RunMigrations, Migrate
<1>3. CASE SeedFromConfig
  <2> SUFFICES ASSUME NEW c \in Filled, NEW i, Place(Statements, c, i) PROVE FillAhead(c, i)'
    BY DEF FillsInv
  <2>1. /\ UNCHANGED <<columns, todo, anchored, known, cut>>
        /\ phase' = "seeding"
        /\ (phase = "migrating" /\ todo = {}) \/ phase = "seeding"
    BY <1>3 DEF SeedFromConfig, upgradeVars, database
  <2>2. c \in columns /\ Repaired(c)
    BY <2>1 DEF FillsInv, FillAhead
  <2>3. Repaired(c)'
    BY <2>1, <2>2, StaysRepaired
  <2> QED
    BY <2>1, <2>2, <2>3 DEF FillAhead
<1>4. CASE NewRouter
  <2> SUFFICES ASSUME NEW c \in Filled, NEW i, Place(Statements, c, i) PROVE FillAhead(c, i)'
    BY DEF FillsInv
  <2>1. /\ UNCHANGED <<columns, todo, anchored, known, cut>>
        /\ phase' = "serving" /\ phase = "seeding"
    BY <1>4 DEF NewRouter, upgradeVars, database
  <2>2. c \in columns /\ Repaired(c)
    BY <2>1 DEF FillsInv, FillAhead
  <2>3. Repaired(c)'
    BY <2>1, <2>2, StaysRepaired
  <2> QED
    BY <2>1, <2>2, <2>3 DEF FillAhead
<1>5. CASE Crash
  <2> SUFFICES ASSUME NEW c \in Filled, NEW i, Place(Statements, c, i) PROVE FillAhead(c, i)'
    BY DEF FillsInv
  <2>1. /\ phase' = "down" /\ UNCHANGED <<columns, anchored, known>>
        /\ cut' = IF todo # {} /\ Current.do = "fill" THEN cut \cup {Current.col} ELSE cut
    BY <1>5 DEF Crash, Interrupted, database
  <2>2. c \in columns => Repaired(c)'
    <3>1. CASE Repaired(c)
      BY <2>1, <3>1, StaysRepaired
    <3>2. CASE todo # {} /\ i + 1 = Min(todo)
      <4>1. Current = Fill(c)
        BY <3>2 DEF Current, Place
      <4>2. c \in cut'
        BY <2>1, <3>2, <4>1 DEF Fill
      <4> QED
        BY <4>2 DEF Repaired
    <3> QED
      BY <3>1, <3>2 DEF FillsInv, FillAhead
  <2> QED
    BY <2>1, <2>2 DEF FillAhead
<1>6. CASE /\ phase' = phase /\ UNCHANGED <<columns, todo, cut>>
           /\ anchored \subseteq anchored' /\ (known => known')
  <2> SUFFICES ASSUME NEW c \in Filled, NEW i, Place(Statements, c, i) PROVE FillAhead(c, i)'
    BY DEF FillsInv
  <2>1. Repaired(c) => Repaired(c)'
    BY <1>6, StaysRepaired
  <2>2. FillAhead(c, i)
    BY DEF FillsInv
  <2> QED
    BY <1>6, <2>1, <2>2 DEF FillAhead
<1> QED
  <2>1. ASSUME NEW c \in Calls, Serve(c)
        PROVE  FillsInv'
    BY <2>1, <1>6 DEF Serve, LogCall, BillCall
  <2>2. CASE Quota
    <3>1. CASE ResetTokens
      <4>1. anchored \subseteq anchored'
        BY <3>1 DEF ResetTokens, UpgradeTypes
      <4> QED
        BY <2>2, <3>1, <4>1, <1>6 DEF Quota, ResetTokens
    <3> QED
      BY <2>2, <3>1, <1>6 DEF Quota, Gate
  <2>3. ASSUME NEW s \in Slugs, AdminProviders(s)
        PROVE  FillsInv'
    BY <2>3, <1>6 DEF AdminProviders, upgradeVars, database
  <2>4. CASE NextDay \/ UNCHANGED vars
    BY <2>4, <1>6 DEF NextDay, vars, upgradeVars, database
  <2> QED
    BY <1>1, <1>2, <1>3, <1>4, <1>5, <2>1, <2>2, <2>3, <2>4 DEF Next

-----------------------------------------------------------------------------
(* The counter. *)

\* The running gateway adds what the recompute, but for its dust, would have added.
LEMMA CountsStep ==
  UpgradeTypes /\ UpgradeInv /\ NeverBoth /\ CountsWhatWasLogged /\ [Next]_vars
    => CountsWhatWasLogged'
<1> SUFFICES ASSUME UpgradeTypes, UpgradeInv, NeverBoth, CountsWhatWasLogged, [Next]_vars
             PROVE  CountsWhatWasLogged'
  OBVIOUS
<1> DEFINE counted == logged \ (forgiven \cup pending)
<1>0. counted \in SUBSET Calls
  BY DEF UpgradeTypes
<1>1. CASE UNCHANGED <<known, used, recomputed>> /\ counted' = counted
  BY <1>1 DEF CountsWhatWasLogged
<1>2. CASE used' = 0 /\ counted' = {}
  <2>1. Dusty({}) = {} /\ Cardinality({}) = 0
    BY FS_EmptySet DEF Dusty
  <2>2. Total(billedTokens, {}) = 0
    BY SumTakesFirst
  <2>3. (counted \cap recomputed)' = {}
    BY <1>2
  <2> QED
    BY <1>2, <2>1, <2>2, <2>3 DEF CountsWhatWasLogged
<1>3. CASE RunMigrations
  <2>1. CASE FillTotals
    <3>1. /\ pending' = {} /\ forgiven' = {} /\ logged' = logged /\ recomputed' = logged
          /\ used' = Total(castTokens, logged)
      BY <1>3, <2>1 DEF RunMigrations, FillTotals, Recomputed, UpgradeInv
    <3>2. counted' = logged /\ (counted \cap recomputed)' = logged
      BY <3>1
    <3>3. Total(castTokens, logged) + Cardinality(Dusty(logged)) = Total(billedTokens, logged)
      BY RecomputeLosesDust DEF UpgradeTypes
    <3> QED
      BY <3>1, <3>2, <3>3 DEF CountsWhatWasLogged
  <2>2. CASE AddColumn \/ FillRaw \/ FillAnchor \/ FillDates
    <3>1. UNCHANGED <<known, used, recomputed, logged, forgiven, pending>>
      BY <2>2 DEF AddColumn, FillRaw, FillAnchor, FillDates, database
    <3> QED
      BY <3>1, <1>1
  <2> QED
    BY <1>3, <2>1, <2>2 DEF RunMigrations, Migrate
<1>4. CASE Crash
  <2>1. UNCHANGED <<known, used, recomputed, logged>> /\ pending' = {} /\ forgiven' = forgiven \cup pending
    BY <1>4 DEF Crash, Interrupted, database
  <2>2. counted' = counted
    BY <2>1
  <2> QED
    BY <1>1, <2>1, <2>2
<1>5. ASSUME NEW c \in Calls, Serve(c)
      PROVE  CountsWhatWasLogged'
  <2>1. CASE LogCall(c)
    <3>1. /\ c \notin logged /\ logged' = logged \cup {c} /\ pending' = pending \cup {c}
          /\ UNCHANGED <<known, used, recomputed, forgiven>>
      BY <2>1 DEF LogCall
    <3>2. counted' = counted
      BY <3>1
    <3> QED
      BY <1>1, <3>1, <3>2
  <2>2. CASE BillCall(c)
    <3>1. /\ c \in pending /\ pending' = pending \ {c} /\ used' = used + billedTokens[c]
          /\ UNCHANGED <<known, recomputed, logged, forgiven>>
      BY <2>2 DEF BillCall
    <3>2. c \in logged /\ c \notin forgiven /\ c \notin recomputed
      BY <3>1 DEF UpgradeTypes, NeverBoth
    <3>3. /\ counted' = counted \cup {c} /\ counted' \ {c} = counted
          /\ (counted \cap recomputed)' = counted \cap recomputed
      BY <3>1, <3>2
    <3>4. billedTokens \in [Calls -> Nat]
      BY BillsAreNat
    <3>5. Total(billedTokens, counted') = billedTokens[c] + Total(billedTokens, counted)
      BY <1>0, <3>3, <3>4, SumTakesAny
    <3>6. billedTokens[c] \in Nat /\ Total(billedTokens, counted) \in Nat
      BY <1>0, <3>4, SumIsNat
    <3>7. IsFiniteSet(Dusty(counted \cap recomputed))
      BY <1>0, UpgradeAssumption, FS_Subset DEF Dusty
    <3>8. Cardinality(Dusty(counted \cap recomputed)) \in Nat
      BY <3>7, FS_CardinalityType
    <3>9. used \in Nat
      BY DEF UpgradeTypes
    <3> DEFINE dusty == Cardinality(Dusty(counted \cap recomputed))
    <3>10. dusty' = dusty
      BY <3>3 DEF Dusty
    <3>11. known' => used' + dusty = Total(billedTokens, counted')
      <4>1. known => used + dusty = Total(billedTokens, counted)
        BY DEF CountsWhatWasLogged
      <4> HIDE DEF dusty, counted
      <4>2. known => used' + dusty = billedTokens[c] + Total(billedTokens, counted)
        BY <3>1, <3>6, <3>8, <3>9, <4>1 DEF dusty
      <4> QED
        BY <3>1, <3>5, <4>2
    <3> QED
      BY <3>10, <3>11 DEF CountsWhatWasLogged
  <2> QED
    BY <1>5, <2>1, <2>2 DEF Serve
<1>6. CASE Quota
  <2>1. CASE ResetTokens
    BY <1>2, <2>1 DEF ResetTokens
  <2>2. CASE Gate
    BY <1>1, <1>2, <2>2 DEF Gate
  <2> QED
    BY <1>6, <2>1, <2>2 DEF Quota
<1> QED
  <2>1. CASE Boot \/ SeedFromConfig \/ NewRouter \/ NextDay \/ UNCHANGED vars
    <3>1. UNCHANGED <<known, used, recomputed, logged, forgiven, pending>>
      BY <2>1 DEF Boot, SeedFromConfig, NewRouter, NextDay, vars, upgradeVars, database
    <3> QED
      BY <3>1, <1>1
  <2>2. ASSUME NEW s \in Slugs, AdminProviders(s)
        PROVE  CountsWhatWasLogged'
    <3>1. UNCHANGED <<known, used, recomputed, logged, forgiven, pending>>
      BY <2>2 DEF AdminProviders, upgradeVars, database
    <3> QED
      BY <3>1, <1>1
  <2> QED
    BY <1>3, <1>4, <1>5, <1>6, <2>1, <2>2 DEF Next

-----------------------------------------------------------------------------
(* The theorems. *)

IInv ==
  /\ TypesOK /\ Published /\ SeedInv /\ NoFutureCalls
  /\ UpgradeInv /\ NeverBoth /\ RawInv /\ FillsInv /\ CountsWhatWasLogged

LEMMA InitInv == Init => IInv
<1> SUFFICES ASSUME Init PROVE IInv
  OBVIOUS
<1>1. Published /\ NoFutureCalls /\ NeverBoth
  BY StartAssumption DEF Init, UpgradeInit, Published, NoFutureCalls, NeverBoth
<1>2. RawInv
  BY UpgradeAssumption DEF Init, UpgradeInit, RawInv
<1>3. CountsWhatWasLogged
  <2> DEFINE counted == logged \ forgiven
  <2>1. /\ logged \ (forgiven \cup pending) = counted /\ counted \in SUBSET Calls
        /\ known => used = Total(castTokens, counted \cap recomputed)
                            + Total(billedTokens, counted \ recomputed)
    BY DEF Init, UpgradeInit
  <2> HIDE DEF counted
  <2> DEFINE old == counted \cap recomputed
             new == counted \ recomputed
  <2>2. Total(billedTokens, counted) = Total(billedTokens, old) + Total(billedTokens, new)
    BY <2>1, BillsAreNat, SumSplits
  <2>3. Total(castTokens, old) + Cardinality(Dusty(old)) = Total(billedTokens, old)
    BY <2>1, RecomputeLosesDust
  <2>4. /\ Total(castTokens, old) \in Nat /\ Total(billedTokens, old) \in Nat
        /\ Total(billedTokens, new) \in Nat
    BY <2>1, BillsAreNat, SumIsNat
  <2>5. IsFiniteSet(Dusty(old))
    BY <2>1, UpgradeAssumption, FS_Subset DEF Dusty
  <2>6. Cardinality(Dusty(old)) \in Nat
    BY <2>5, FS_CardinalityType
  <2>7. known => used + Cardinality(Dusty(old)) = Total(billedTokens, counted)
    <3> HIDE DEF old, new
    <3> QED
      BY <2>1, <2>2, <2>3, <2>4, <2>6 DEF old, new
  <2> QED
    BY <2>1, <2>7 DEF CountsWhatWasLogged
<1> QED
  BY <1>1, <1>2, <1>3, InitTypes, SeedInvHoldsAtFirst, InitUpgradeInv, InitFills DEF IInv

LEMMA InvStep == IInv /\ [Next]_vars => IInv'
BY TypesStep, PublishedStep, SeedInvStep, NoFutureCallsStep, UpgradeInvStep, NeverBothStep, RawInvStep,
   FillsInvStep, CountsStep
DEF IInv, TypesOK

LEMMA InvAlways == Spec => []IInv
BY InitInv, InvStep, PTL DEF Spec

\* Reload (internal/router/selector.go): whenever the keys of all enabled providers can be
\* decrypted, the table of the running gateway holds exactly these providers, however many
\* reloads have failed before.
THEOREM EditsArePublished == Spec => []Published
<1>1. IInv => Published
  BY DEF IInv
<1> QED
  BY <1>1, InvAlways, PTL

\* SeedFromConfig (internal/provider/store.go): a start brings back no provider that was
\* deleted, and unless a crash cut the seeding nothing of config.yaml is missing.
THEOREM SeedingHappensOnce == Spec => []SeededOnce
<1>1. IInv => SeededOnce
  <2> SUFFICES ASSUME IInv PROVE SeededOnce
    OBVIOUS
  <2>1. phase = "serving" => Range(toSeed) = {}
    BY DEF IInv, SeedInv, Range
  <2> QED
    BY <2>1 DEF IInv, SeedInv, SeededOnce
<1> QED
  BY <1>1, InvAlways, PTL

\* CurrentCycleWindow (internal/models/provider_usage.go): for every length of a cycle and
\* every day, the calls a usage view adds up are those of the cycle of today.
THEOREM UsageIsOfOneCycle == Spec => []UsedIsThisCycle
<1>1. IInv => UsedIsThisCycle
  BY CountedIsOneCycle DEF IInv
<1> QED
  BY <1>1, InvAlways, PTL

\* RunMigrations (internal/db/migrations.go): tokens cleared after the recompute stay
\* cleared, at whatever statement earlier starts have died.
THEOREM ResetsAreNotUndone == Spec => ResetsStay
<1>1. IInv /\ [Next]_vars => [known => forgiven \subseteq forgiven']_vars
  BY ResetsStayStep DEF IInv, TypesOK
<1> QED
  BY <1>1, InvAlways, PTL DEF Spec, ResetsStay

\* Whatever raw_total_tokens an older build left, the running gateway finds it filled.
LogRepaired == phase = "serving" => \A c \in logged : raw[c] = Tokens[c]

\* backfillRawTotalTokensSQL (internal/db/migrations.go) has run on every row of the log
\* before the first call is served, and InsertCallLog keeps up what it did.
THEOREM StartRepairsLog == Spec => []LogRepaired
<1>1. IInv => LogRepaired
  BY DEF IInv, RawInv, RawDone, LogRepaired
<1> QED
  BY <1>1, InvAlways, PTL

\* RunMigrations: a start that has come to serve calls has repaired everything, but for the
\* fills that a crash after their ALTER has prevented for good, whatever columns the older
\* build had and wherever starts have died.
THEOREM StartsRepair == Spec => []Upgraded
<1>1. IInv => Upgraded
  <2> SUFFICES ASSUME IInv, phase = "serving"
               PROVE  /\ \A c \in logged : raw[c] = Tokens[c]
                      /\ known \/ "quota_token_total_mult_v1" \in cut
                      /\ \A a \in Anchors \ anchored :
                           a \in cut \/ (a = "week_cycle_start" /\ "week_start" \in cut)
    BY DEF Upgraded
  <2>1. \A c \in logged : raw[c] = Tokens[c]
    BY DEF IInv, RawInv, RawDone
  <2>2. ASSUME NEW c \in Filled PROVE Repaired(c)
    BY StatementsPlaced DEF IInv, FillsInv, FillAhead
  <2>3. known \/ "quota_token_total_mult_v1" \in cut
    BY <2>2 DEF Filled, Repaired, Anchors
  <2> QED
    BY <2>1, <2>2, <2>3 DEF Filled, Repaired
<1> QED
  BY <1>1, InvAlways, PTL
\* backfillQuotaTokenTotalUsed, AddTokenUsage (internal/db/migrations.go, internal/models/
\* quota.go): for every log, every multiplier and every interruption, the counter of billed
\* tokens is the sum over the log, without the calls a reset or a crash keeps out of it, and
\* short by one token for each recomputed call whose product is dust above a whole number.
THEOREM CounterIsTheLog == Spec => []CountsWhatWasLogged
<1>1. IInv => CountsWhatWasLogged
  BY DEF IInv
<1> QED
  BY <1>1, InvAlways, PTL
=============================================================================
