---------------------------- MODULE RequestPath ----------------------------
(***************************************************************************)
(* A request from its slot to its bill: RequestLimit, which the counters   *)
(* of ConcurrencyCap implement, and QuotaLedger, for the requests of one   *)
(* user.  Both handlers acquire the slot first and release it in a defer,  *)
(* so that the gate, the upstream call, the refund and the accounting lie  *)
(* between Admit and Finish.  The ledger's own guard on the number of      *)
(* requests in flight (SlotFree) is not here: that the slots imply it is   *)
(* what this composition is for.                                           *)
(*                                                                         *)
(* The user is not deleted, and does not go from unlimited to limited: a   *)
(* steady user, for whom ConcurrencyCap implements RequestLimit.           *)
(***************************************************************************)
EXTENDS QuotaLedger

CONSTANT Caps  \* the values max_concurrency of the user takes

VARIABLES
  stage,   \* stage[r]: where r stands with its slot
  limit    \* limit[r]: the cap SubKeyAuth put in its context

slotVars == <<stage, limit>>
pathVars == <<vars, slotVars>>

Slots == INSTANCE RequestLimit WITH
  Users <- {"user"},
  Owner <- [r \in Requests |-> "user"],
  Caps <- [u \in {"user"} |-> Caps]

PathInit == Init /\ Slots!Init

\* A request arrives, and gets a slot or the 429 of the cap.
Arrive(r) ==
  /\ up
  /\ Slots!Ask(r) \/ Slots!Admit(r) \/ Slots!TurnAway(r) \/ Slots!Refuse(r)
  /\ UNCHANGED vars

\* ServeHTTP while the slot is held.
Hold(r) ==
  /\ stage[r] = "running"
  /\ Enter(r) \/ Serve(r)
  /\ UNCHANGED slotVars

\* A mutant of MayRelease: the slot is released when the upstream has answered.
MayReleaseEarly(r) == pc[r] \in {"new", "refunding", "billing", "done"}

\* ServeHTTP has returned: after the request, or before the gate (a bad body, no provider).
MayRelease(r) == pc[r] \in {"new", "done"}

\* The deferred release.
Release(r) ==
  /\ MayRelease(r)
  /\ Slots!Finish(r)
  /\ UNCHANGED vars

\* The scheduler, the clock, a restart and the admin do not touch the slots.
Elsewhere ==
  /\ Time \/ Restart \/ \E a \in Admins : Admin(a) /\ present'
  /\ UNCHANGED slotVars

\* The process dies, with its map of counters.
Die == Crash /\ Slots!Crash

PathNext ==
  \/ \E r \in Requests : Arrive(r) \/ Hold(r) \/ Release(r)
  \/ Elsewhere
  \/ Die

PathSpec == PathInit /\ [][PathNext]_pathVars
=============================================================================
