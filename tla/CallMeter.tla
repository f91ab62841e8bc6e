----------------------------- MODULE CallMeter -----------------------------
(***************************************************************************)
(* What one call-count bucket of a user promises.  A request is charged at *)
(* most once, and only while its calls fit under the limit in force; it is *)
(* credited at most once, and only after it was charged; the bucket may be *)
(* cleared at any time, and its limit edited.  owed is what the bucket     *)
(* stands for: the requests charged since the last clear and not credited  *)
(* since.  used is all that is stored, and it may forget (a credit for a   *)
(* request charged before a clear takes calls off the others).             *)
(***************************************************************************)
EXTENDS CallTickets

VARIABLES
  used,      \* the stored counter
  limit,     \* the stored limit; 0 means unlimited
  owed,      \* the requests charged since the last clear and not credited
  charged,   \* every request charged so far
  credited   \* every request credited so far

meterVars == <<used, limit, owed, charged, credited>>

Init ==
  /\ used = 0
  /\ limit \in Nat
  /\ owed = {} /\ charged = {} /\ credited = {}

Charge(r) ==
  /\ r \notin charged
  /\ limit = 0 \/ used + Calls[r] <= limit
  /\ used' = used + Calls[r]
  /\ owed' = owed \cup {r}
  /\ charged' = charged \cup {r}
  /\ UNCHANGED <<limit, credited>>

Credit(r) ==
  /\ r \in charged \ credited
  /\ used' = IF Calls[r] > used THEN 0 ELSE used - Calls[r]
  /\ owed' = owed \ {r}
  /\ credited' = credited \cup {r}
  /\ UNCHANGED <<limit, charged>>

Clear ==
  /\ used' = 0
  /\ owed' = {}
  /\ UNCHANGED <<limit, charged, credited>>

SetLimit ==
  /\ limit' \in Nat
  /\ UNCHANGED <<used, owed, charged, credited>>

Next == (\E r \in Requests : Charge(r) \/ Credit(r)) \/ Clear \/ SetLimit

Spec == Init /\ [][Next]_meterVars

\* Nobody pays for more than was charged and not given back.
NeverOverbilled == used <= CallsOf(owed)
=============================================================================
