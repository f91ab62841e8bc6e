--------------------------- MODULE MCQuotaLedger ---------------------------
(* Instances of QuotaLedger for TLC: how each request is sent, how many      *)
(* effective calls it is worth, and the limits in play.                      *)
EXTENDS QuotaLedger, TLC

CONSTANTS r1, r2, r3

SyncAndStream == (r1 :> "sync") @@ (r2 :> "stream")
OneOfEach == (r1 :> "sync") @@ (r2 :> "stream") @@ (r3 :> "pass")
AllSync == [r \in Requests |-> "sync"]
AllStream == [r \in Requests |-> "stream"]

OneTwoOne == (r1 :> 1) @@ (r2 :> 2) @@ (r3 :> 1)
UnitCalls == [r \in Requests |-> 1]

Lim(c5, ct, t5, tw, tt) ==
  [call5h |-> c5, callTotal |-> ct, tok5h |-> t5, tokWeek |-> tw, tokTotal |-> tt]

CallLimits == {Lim(2, 3, 0, 0, 0)}
TokenLimits == {Lim(0, 0, 3, 3, 2)}
EditedLimits == {Lim(0, 0, 0, 1, 0), Lim(0, 0, 0, 0, 0)}
=============================================================================
