------------------------- MODULE MCClusterCommands -------------------------
(***************************************************************************)
(* An instance of ClusterCommands: nodes are numbers, and a routing shifts  *)
(* the keys over them by its own number.                                    *)
(***************************************************************************)
EXTENDS ClusterCommands, FiniteSets

OwnerByRank(S, r, k) ==
    CHOOSE n \in S : Cardinality({m \in S : m < n}) = (k + r) % Cardinality(S)

============================================================================
