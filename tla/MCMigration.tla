---------------------------- MODULE MCMigration ----------------------------
(***************************************************************************)
(* An instance of Migration: the nodes are numbers, and a key belongs to    *)
(* the node hashBasedStrategy gives it, the key being its own hash.         *)
(***************************************************************************)
EXTENDS Migration

OwnerByRank(S, k) ==
    CHOOSE n \in S : Cardinality({m \in S : m < n}) = k % Cardinality(S)

============================================================================
