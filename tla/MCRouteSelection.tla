-------------------------- MODULE MCRouteSelection --------------------------
(* Instances of RouteSelection for TLC: endpoints, spellings and mappings.  *)
(* The multiplier windows have the same columns as the routing rules, and   *)
(* what a request costs does not depend on its provider: the two tables     *)
(* hold the same windows.                                                   *)
EXTENDS RouteSelection, TLC

AtMinute(m) == [at |-> m, read |-> m]

\* Every time of the day.
Times == {AtMinute(m) : m \in 0..(Day - 1)}

SomeDays == {{0, 1}, {1}}

LowerCase == ("GLM" :> "glm") @@ ("glm" :> "glm") @@ ("Glm" :> "glm")

\* One spelling, mapped for both providers; two spellings, the second for p2 only, and
\* the first for p2 as well, with an empty real model.
SomeCatalogs ==
  {"glm" :> (("p1" :> "real1") @@ ("p2" :> "real2")),
   ("GLM" :> (("p1" :> "real1") @@ ("p2" :> NoModel))) @@ ("glm" :> ("p2" :> "real2"))}

\* The rules as multiplier windows, priority 0 and 1 being 1.0 and 1.5.
SameWindows(f) ==
  {[n \in 1..Cardinality(RuleIds) |->
      [start |-> f[n].start, end |-> f[n].end, days |-> f[n].days,
       enabled |-> f[n].enabled, multiplier |-> 2 + f[n].priority]]}
=============================================================================
