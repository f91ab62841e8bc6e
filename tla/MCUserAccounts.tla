--------------------------- MODULE MCUserAccounts ---------------------------
(* Bodies of requests for UserAccounts. *)
EXTENDS UserAccounts, TLC

CONSTANTS h1, h2

Alike == Permutations({h1, h2})

Body(n, e, c) == [name |-> n, expiry |-> e, caps |-> [d \in CapFields |-> c]]

\* One body per way through CreateUser: no caps, caps, a negative cap.
SomeCreates == {Body("ann", 1, 0), Body("bob", 0, 1), Body("bob", 0, -1)}

None == [d \in {} |-> 0]

\* Half of the caps and of the route, with every other step; a status that is refused
\* after the other cap was written; the other column of the route, before a later
\* field is refused.
SomeUpdates ==
  {[caps |-> [d \in {"h5"} |-> 1], status |-> "disabled", route |-> [f \in {"mode"} |-> "glm"],
    refused |-> FALSE, regenerate |-> TRUE],
   [caps |-> [d \in {"week"} |-> 1], status |-> "invalid", route |-> None,
    refused |-> FALSE, regenerate |-> FALSE],
   [caps |-> None, status |-> "active", route |-> [f \in {"fixed"} |-> "glm"],
    refused |-> TRUE, regenerate |-> TRUE]}

\* By a day, and to a date.
SomeExtends == {[days |-> 1, until |-> 0], [days |-> 0, until |-> 2]}
=============================================================================
