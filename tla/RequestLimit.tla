---------------------------- MODULE RequestLimit ----------------------------
(***************************************************************************)
(* What the gateway promises about concurrent requests of one user, with   *)
(* no counter, map or pointer in sight: a request asks under the limit its *)
(* user had when it was authenticated (0 = no limit), is admitted only     *)
(* while fewer than that many requests of the user are running, and is     *)
(* turned away only when at least that many are running or are themselves  *)
(* being turned away.                                                      *)
(***************************************************************************)
EXTENDS Naturals, FiniteSets

CONSTANTS
  Users,     \* the users of the gateway
  Requests,  \* the requests that may arrive
  Owner,     \* Owner[r]: the user whose sub-key request r presents
  Caps       \* Caps[u]: the limits user u can be given (0 = no limit)

VARIABLES
  stage,     \* stage[r]: where request r stands
  limit      \* limit[r]: the limit request r was admitted or refused under

limitVars == <<stage, limit>>

Stages == {"away", "asking", "running", "refusing", "refused", "finished"}

OthersIn(r, S) == {q \in Requests \ {r} : Owner[q] = Owner[r] /\ stage[q] \in S}

Init ==
  /\ stage = [r \in Requests |-> "away"]
  /\ limit = [r \in Requests |-> 0]

Ask(r) ==
  /\ stage[r] = "away"
  /\ stage' = [stage EXCEPT ![r] = "asking"]
  /\ \E n \in Caps[Owner[r]] : limit' = [limit EXCEPT ![r] = n]

Admit(r) ==
  /\ stage[r] = "asking"
  /\ limit[r] = 0 \/ Cardinality(OthersIn(r, {"running"})) < limit[r]
  /\ stage' = [stage EXCEPT ![r] = "running"]
  /\ UNCHANGED limit

TurnAway(r) ==
  /\ stage[r] = "asking"
  /\ limit[r] # 0
  /\ Cardinality(OthersIn(r, {"running", "refusing"})) >= limit[r]
  /\ stage' = [stage EXCEPT ![r] = "refusing"]
  /\ UNCHANGED limit

Refuse(r) ==
  /\ stage[r] = "refusing"
  /\ stage' = [stage EXCEPT ![r] = "refused"]
  /\ UNCHANGED limit

Finish(r) ==
  /\ stage[r] = "running"
  /\ stage' = [stage EXCEPT ![r] = "finished"]
  /\ UNCHANGED limit

\* The process dies: nothing runs any more, and nobody waits for an answer.
Crash ==
  /\ stage' = [r \in Requests |->
                IF stage[r] \in {"asking", "running", "refusing"} THEN "finished" ELSE stage[r]]
  /\ UNCHANGED limit

Request(r) == Ask(r) \/ Admit(r) \/ TurnAway(r) \/ Refuse(r) \/ Finish(r)

Next == (\E r \in Requests : Request(r)) \/ Crash

Spec == Init /\ [][Next]_limitVars
=============================================================================
