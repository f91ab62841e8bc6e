------------------------- MODULE CallTicketsProofs -------------------------
(***************************************************************************)
(* How the worth of a set of requests changes when a request joins or      *)
(* leaves it, for any finite set of requests and any multipliers.          *)
(***************************************************************************)
EXTENDS CallTickets, FiniteSetTheorems, TLAPS

LEMMA TicketsFinite ==
  ASSUME NEW S
  PROVE  IsFiniteSet(Tickets(S)) /\ CallsOf(S) \in Nat
<1>1. IsFiniteSet(Requests) /\ IsFiniteSet(1..MaxCalls)
  BY CallsAssumption, FS_Interval
<1>2. IsFiniteSet(Requests \X (1..MaxCalls))
  BY <1>1, FS_Product
<1>3. Tickets(S) \subseteq Requests \X (1..MaxCalls)
  BY DEF Tickets
<1>4. QED
  BY <1>2, <1>3, FS_Subset, FS_CardinalityType DEF CallsOf

LEMMA NoTickets == CallsOf({}) = 0
<1>1. Tickets({}) = {}
  BY DEF Tickets
<1>2. QED
  BY <1>1, FS_EmptySet DEF CallsOf

\* One request is worth its effective calls.
LEMMA TicketsOfOne ==
  ASSUME NEW r \in Requests
  PROVE  CallsOf({r}) = Calls[r]
<1> DEFINE f == [i \in 1..Calls[r] |-> <<r, i>>]
<1>1. Calls[r] \in Nat /\ Calls[r] <= MaxCalls /\ MaxCalls \in Nat
  BY CallsAssumption
<1>2. Tickets({r}) = {<<r, i>> : i \in 1..Calls[r]}
  BY <1>1 DEF Tickets
<1>3. f \in Bijection(1..Calls[r], Tickets({r}))
  <2>1. f \in [1..Calls[r] -> Tickets({r})]
    BY <1>2
  <2>2. \A a, b \in 1..Calls[r] : f[a] = f[b] => a = b
    OBVIOUS
  <2>3. \A t \in Tickets({r}) : \E i \in 1..Calls[r] : f[i] = t
    BY <1>2
  <2>4. QED
    BY <2>1, <2>2, <2>3 DEF Bijection, Injection, Surjection, IsInjective
<1>4. ExistsBijection(1..Calls[r], Tickets({r}))
  BY <1>3, Zenon DEF ExistsBijection
<1>5. IsFiniteSet(1..Calls[r]) /\ Cardinality(1..Calls[r]) = Calls[r]
  <2> DEFINE n == Calls[r]
  <2>1. n \in Nat
    BY <1>1
  <2> HIDE DEF n
  <2>2. /\ IsFiniteSet(1..n)
        /\ Cardinality(1..n) = IF 1 > n THEN 0 ELSE n - 1 + 1
    BY <2>1, FS_Interval
  <2>3. IsFiniteSet(1..n) /\ Cardinality(1..n) = n
    BY <2>1, <2>2
  <2>4. QED
    BY <2>3 DEF n
<1>6. QED
  BY <1>4, <1>5, FS_Bijection DEF CallsOf

LEMMA TicketsAdded ==
  ASSUME NEW S, NEW r \in Requests, r \notin S
  PROVE  CallsOf(S \cup {r}) = CallsOf(S) + Calls[r]
<1>1. Tickets(S \cup {r}) = Tickets(S) \cup Tickets({r})
  BY DEF Tickets
<1>2. Tickets(S) \cap Tickets({r}) = {}
  BY DEF Tickets
<1>3. Cardinality(Tickets(S) \cup Tickets({r}))
        = Cardinality(Tickets(S)) + Cardinality(Tickets({r})) - Cardinality(Tickets(S) \cap Tickets({r}))
  BY TicketsFinite, FS_Union
<1>4. Cardinality(Tickets(S) \cap Tickets({r})) = 0
  BY <1>2, FS_EmptySet
<1>5. CallsOf({r}) = Calls[r] /\ CallsOf(S) \in Nat /\ CallsOf({r}) \in Nat
  BY TicketsOfOne, TicketsFinite
<1>6. CallsOf(S \cup {r}) = CallsOf(S) + CallsOf({r}) - 0
  BY <1>1, <1>3, <1>4, Zenon DEF CallsOf
<1>7. QED
  BY <1>5, <1>6

LEMMA TicketsRemoved ==
  ASSUME NEW S, NEW r \in Requests
  PROVE  CallsOf(S \ {r}) = IF r \in S THEN CallsOf(S) - Calls[r] ELSE CallsOf(S)
<1>1. CASE r \in S
  <2>1. CallsOf((S \ {r}) \cup {r}) = CallsOf(S \ {r}) + Calls[r]
    BY TicketsAdded
  <2>2. (S \ {r}) \cup {r} = S
    BY <1>1
  <2>3. CallsOf(S \ {r}) \in Nat /\ Calls[r] \in Nat
    BY TicketsFinite, CallsAssumption
  <2>4. CallsOf(S) = CallsOf(S \ {r}) + Calls[r]
    BY <2>1, <2>2, Zenon
  <2>5. CallsOf(S \ {r}) = CallsOf(S) - Calls[r]
    BY <2>3, <2>4
  <2>6. QED
    BY <1>1, <2>5
<1>2. CASE r \notin S
  <2>1. S \ {r} = S
    BY <1>2
  <2>2. QED
    BY <1>2, <2>1
<1>3. QED
  BY <1>1, <1>2
=============================================================================
