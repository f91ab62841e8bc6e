-------------------------- MODULE CallMeterProofs --------------------------
(* Whatever implements CallMeter never overbills. *)
EXTENDS CallMeter, CallTicketsProofs

MeterShape ==
  /\ used \in Nat
  /\ credited \subseteq charged
  /\ owed \subseteq charged \ credited
  /\ charged \subseteq Requests

MeterInv == MeterShape /\ NeverOverbilled

\* A bucket never shows more calls than were charged since it was last cleared
\* and not given back, however charges, credits and clears follow each other.
THEOREM MeterNeverOverbills == Spec => []NeverOverbilled
<1> USE DEF MeterInv, MeterShape, NeverOverbilled
<1>1. Init => MeterInv
  BY NoTickets DEF Init
<1>2. MeterInv /\ [Next]_meterVars => MeterInv'
  <2> SUFFICES ASSUME MeterInv, [Next]_meterVars PROVE MeterInv'
    OBVIOUS
  <2>0. \A q \in Requests : Calls[q] \in Nat
    BY CallsAssumption
  <2>1. ASSUME NEW r \in Requests, Charge(r) PROVE MeterInv'
    <3>1. CallsOf(owed \cup {r}) = CallsOf(owed) + Calls[r] /\ CallsOf(owed) \in Nat
      BY <2>1, TicketsAdded, TicketsFinite DEF Charge
    <3>2. QED
      BY <2>0, <2>1, <3>1 DEF Charge
  <2>2. ASSUME NEW r \in Requests, Credit(r) PROVE MeterInv'
    <3>1. /\ CallsOf(owed \ {r}) = IF r \in owed THEN CallsOf(owed) - Calls[r] ELSE CallsOf(owed)
          /\ CallsOf(owed) \in Nat /\ CallsOf(owed \ {r}) \in Nat
      BY TicketsRemoved, TicketsFinite
    <3>2. QED
      BY <2>0, <2>2, <3>1 DEF Credit
  <2>3. CASE Clear
    BY <2>3, NoTickets DEF Clear
  <2>4. CASE SetLimit \/ UNCHANGED meterVars
    BY <2>4 DEF SetLimit, meterVars
  <2>5. QED
    BY <2>1, <2>2, <2>3, <2>4 DEF Next
<1>3. QED
  BY <1>1, <1>2, PTL DEF Spec
=============================================================================
