--------------------------- MODULE MCRequestPath ---------------------------
(* An instance of RequestPath for TLC: requests that are all alike and   *)
(* succeed: a refund changes call counters only, and there is no limit on    *)
(* calls.                                                                    *)
EXTENDS RequestPath, TLC

AllSync == [r \in Requests |-> "sync"]
UnitCalls == [r \in Requests |-> 1]

\* No limit on calls; three tokens per window and week, two in all.
TokenLimits == {[call5h |-> 0, callTotal |-> 0, tok5h |-> 3, tokWeek |-> 3, tokTotal |-> 2]}

\* An anchor one hour before the user was created.
PastAnchor == {-1}

\* The requests are alike, and so are those to the admin API.
Alike == Permutations(Requests) \cup Permutations(Admins)
=============================================================================
