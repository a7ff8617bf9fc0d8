------------------------------ MODULE Routing ------------------------------
(***************************************************************************)
(* The three sharding strategies: which node a key belongs to under a        *)
(* configuration, where the code panics instead, and which nodes a range     *)
(* query asks.  Node ids, keys and boundaries are strings in the code and    *)
(* numbers here: only their order matters.  A configuration is a record      *)
(*   [nodes, weights, strategy, vnodes, ranges].                             *)
(***************************************************************************)
EXTENDS Naturals, FiniteSets, Sequences

CONSTANTS
    Nodes,            \* node ids, in the order sort.Slice puts them
    Keys,             \* keys, in lexicographic order
    KeyHash(_),       \* hash of a key
    PointHash(_, _),  \* hash of nodeId#index
    MaxPoints         \* bound: points of one node on the ring

ASSUME RoutingAssumption ==
    /\ Nodes \subseteq Nat
    /\ Keys \subseteq Nat
    /\ MaxPoints \in Nat
    /\ \A k \in Keys : KeyHash(k) \in Nat
    /\ \A n \in Nodes, i \in 0 .. MaxPoints - 1 : PointHash(n, i) \in Nat

\* Eight bytes of SHA-256: two points of the ring do not collide.
ASSUME NoCollision ==
    \A m, n \in Nodes : \A i, j \in 0 .. MaxPoints - 1 :
        PointHash(m, i) = PointHash(n, j) => m = n /\ i = j

Strategies == {"hash", "range", "consistent"}

\* nodes[i] of the slice sorted by id.
NodeAt(S, i) == CHOOSE n \in S : Cardinality({m \in S : m < n}) = i

HashOwner(c, k) == NodeAt(c.nodes, KeyHash(k) % Cardinality(c.nodes))

\* The indices (from 1) of the boundaries the loop of rangeBasedStrategy visits
\* and stops at.
StopsAt(c, k) ==
    {i \in 1 .. Cardinality(c.nodes) - 1 : i <= Len(c.ranges) /\ c.ranges[i] > k}

RangeOwner(c, k) ==
    LET stops == StopsAt(c, k)
    IN  IF stops = {} THEN NodeAt(c.nodes, Cardinality(c.nodes) - 1)
        ELSE NodeAt(c.nodes, (CHOOSE i \in stops : \A j \in stops : i <= j) - 1)

\* BuildRing: vnodes times weight points of every node.
Ring(c) == UNION {{n} \X (0 .. c.vnodes * c.weights[n] - 1) : n \in c.nodes}

HashOf(p) == PointHash(p[1], p[2])

FirstOf(S) == CHOOSE p \in S : \A q \in S : HashOf(p) <= HashOf(q)

\* Mutant: the point of the ring is found by division, as hashBasedStrategy does.
PointByDivision(c, k) ==
    LET before(p) == {q \in Ring(c) : HashOf(q) < HashOf(p)}
    IN  CHOOSE p \in Ring(c) :
            Cardinality(before(p)) = KeyHash(k) % Cardinality(Ring(c))

\* sort.Search with the wrap to the first point.
PointOf(c, k) ==
    LET ahead == {p \in Ring(c) : HashOf(p) >= KeyHash(k)}
    IN  FirstOf(IF ahead = {} THEN Ring(c) ELSE ahead)

RingOwner(c, k) == PointOf(c, k)[1]

\* FindShard, where it does not panic.
Owner(c, k) ==
    CASE c.strategy = "hash"       -> HashOwner(c, k)
      [] c.strategy = "range"      -> RangeOwner(c, k)
      [] c.strategy = "consistent" -> RingOwner(c, k)

\* FindShard panics: division by a cluster of 0, an index out of the ring or of
\* the nodes, or of boundaries fewer than the nodes ask for.
FindShardPanics(c, k) ==
    \/ c.nodes = {}
    \/ /\ c.strategy = "range"
       /\ Len(c.ranges) < Cardinality(c.nodes) - 1
       /\ StopsAt(c, k) = {}

\* handlerClientRangeGetRequest indexes Ranges[0], Ranges[n-2], and the
\* boundaries in between.
RangeGetPanics(c) ==
    \/ Cardinality(c.nodes) < 2
    \/ Len(c.ranges) < Cardinality(c.nodes) - 1

\* Mutant: the nodes in between are skipped by their lower boundary.
RangeGetNodesLower(c, left, right) ==
    LET n == Cardinality(c.nodes)
    IN  {NodeAt(c.nodes, i) : i \in
            {j \in 0 .. n - 1 :
                \/ j = 0     /\ left < c.ranges[1]
                \/ j = n - 1 /\ right >= c.ranges[n - 1]
                \/ /\ 0 < j /\ j < n - 1
                   /\ ~ (right < c.ranges[j] \/ left >= c.ranges[j])}}

\* The nodes a range query from left to right asks for a dump.
RangeGetNodes(c, left, right) ==
    LET n == Cardinality(c.nodes)
    IN  {NodeAt(c.nodes, i) : i \in
            {j \in 0 .. n - 1 :
                \/ j = 0     /\ left < c.ranges[1]
                \/ j = n - 1 /\ right >= c.ranges[n - 1]
                \/ /\ 0 < j /\ j < n - 1
                   /\ ~ (right < c.ranges[j] \/ left >= c.ranges[j + 1])}}

============================================================================
