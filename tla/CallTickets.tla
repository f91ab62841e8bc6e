---------------------------- MODULE CallTickets ----------------------------
(***************************************************************************)
(* Counting calls.  A request is worth Calls[r] effective calls (the       *)
(* multiplier, rounded up); the worth of a set of requests is the number   *)
(* of its tickets, one pair <<r, i>> per call.                             *)
(***************************************************************************)
EXTENDS Naturals, FiniteSets

CONSTANTS
  Requests,  \* the requests one user may send
  Calls,     \* Calls[r]: effectiveCalls of r
  MaxCalls   \* the largest multiplier, rounded up

ASSUME CallsAssumption ==
  /\ IsFiniteSet(Requests)
  /\ MaxCalls \in Nat
  /\ Calls \in [Requests -> 0..MaxCalls]

Tickets(S) == {t \in Requests \X (1..MaxCalls) : t[1] \in S /\ t[2] <= Calls[t[1]]}

CallsOf(S) == Cardinality(Tickets(S))
=============================================================================
