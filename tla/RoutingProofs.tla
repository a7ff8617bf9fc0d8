--------------------------- MODULE RoutingProofs ---------------------------
(***************************************************************************)
(* What consistent hashing is for, proved for every ring: when the ring     *)
(* gains points a key stays where it is or moves to one of the new points,  *)
(* so a new node takes keys from the others and nothing else moves, and a   *)
(* node that leaves gives its keys away and nothing else moves.  And for    *)
(* every configuration: a key belongs to a node of the cluster, and a range *)
(* query asks the owners of its keys.                                       *)
(***************************************************************************)
EXTENDS Routing, FiniteSetTheorems, WellFoundedInduction, TLAPS

\* Every non-empty set of numbers has a least element.
LEMMA LeastNat ==
    ASSUME NEW T, T \subseteq Nat, T # {}
    PROVE  \E x \in T : \A y \in T : x <= y
  <1> DEFINE R == {ss \in Nat \X Nat : ss[1] < ss[2]}
  <1>0. OpToRel(<, Nat) = R
    BY Zenon DEF OpToRel
  <1>1. IsWellFoundedOn(R, Nat)
    BY <1>0, NatLessThanWellFounded
  <1>2. PICK x \in T : \A y \in T : ~ (<<y, x>> \in R)
    <2> HIDE DEF R
    <2> QED BY <1>1, WFMin
  <1>3. ASSUME NEW y \in T PROVE x <= y
    <2>1. <<y, x>> \notin R /\ x \in Nat /\ y \in Nat
      BY <1>2
    <2>2. ~ (y < x)
      BY <2>1
    <2> QED BY <2>1, <2>2
  <1> QED BY <1>3

\* The points any ring may have, and the configurations whose ring is in them.
Points == Nodes \X (0 .. MaxPoints - 1)

FitsRing(c) ==
    /\ c.nodes \subseteq Nodes
    /\ \A n \in c.nodes : c.vnodes * c.weights[n] \in 1 .. MaxPoints

\* The point of R clockwise from hash h: PointOf, of any set of points.
Nearest(R, h) ==
    LET ahead == {p \in R : HashOf(p) >= h}
    IN  FirstOf(IF ahead = {} THEN R ELSE ahead)

LEMMA HashType == ASSUME NEW p \in Points PROVE HashOf(p) \in Nat
  <1>1. p[1] \in Nodes /\ p[2] \in 0 .. MaxPoints - 1
    BY DEF Points
  <1> QED BY <1>1, RoutingAssumption DEF HashOf

\* No two points have one hash.
LEMMA HashInjective ==
    ASSUME NEW p \in Points, NEW q \in Points, HashOf(p) = HashOf(q)
    PROVE  p = q
  <1>1. /\ p[1] \in Nodes /\ p[2] \in 0 .. MaxPoints - 1 /\ p = <<p[1], p[2]>>
        /\ q[1] \in Nodes /\ q[2] \in 0 .. MaxPoints - 1 /\ q = <<q[1], q[2]>>
    BY DEF Points
  <1>2. p[1] = q[1] /\ p[2] = q[2]
    BY <1>1, NoCollision DEF HashOf
  <1> QED BY <1>1, <1>2

\* The first point of a set of points is one of them, and no other comes before.
LEMMA FirstOfIsFirst ==
    ASSUME NEW S, S \subseteq Points, S # {}
    PROVE  FirstOf(S) \in S /\ \A q \in S : HashOf(FirstOf(S)) <= HashOf(q)
  <1> DEFINE H == {HashOf(p) : p \in S}
  <1>1. H \subseteq Nat /\ H # {}
    BY HashType
  <1>2. PICK h \in H : \A g \in H : h <= g
    <2> HIDE DEF H
    <2> QED BY <1>1, LeastNat
  <1>3. PICK p \in S : HashOf(p) = h
    OBVIOUS
  <1>4. \A q \in S : HashOf(p) <= HashOf(q)
    BY <1>2, <1>3
  <1> QED BY <1>4 DEF FirstOf

LEMMA FirstOfUnique ==
    ASSUME NEW S, S \subseteq Points, NEW p \in S, \A q \in S : HashOf(p) <= HashOf(q)
    PROVE  p = FirstOf(S)
  <1>1. FirstOf(S) \in S /\ \A q \in S : HashOf(FirstOf(S)) <= HashOf(q)
    BY FirstOfIsFirst
  <1>2. HashOf(p) <= HashOf(FirstOf(S)) /\ HashOf(FirstOf(S)) <= HashOf(p)
    BY <1>1
  <1>3. HashOf(p) \in Nat /\ HashOf(FirstOf(S)) \in Nat
    BY <1>1, HashType
  <1>4. HashOf(p) = HashOf(FirstOf(S))
    BY <1>2, <1>3
  <1> QED BY <1>1, <1>4, HashInjective

\* The nearest point of a larger ring, if the smaller ring has it, is the
\* nearest point there.
LEMMA NearestOfMore ==
    ASSUME NEW R, NEW Q, R # {}, R \subseteq Q, Q \subseteq Points,
           NEW h \in Nat, Nearest(Q, h) \in R
    PROVE  Nearest(Q, h) = Nearest(R, h)
  <1> DEFINE p == Nearest(Q, h)
             aheadR == {q \in R : HashOf(q) >= h}
             aheadQ == {q \in Q : HashOf(q) >= h}
  <1>1. CASE aheadQ = {}
    <2>1. aheadR = {}
      BY <1>1
    <2>2. p = FirstOf(Q) /\ Nearest(R, h) = FirstOf(R)
      BY <1>1, <2>1 DEF Nearest
    <2>3. \A q \in R : HashOf(p) <= HashOf(q)
      BY <2>2, FirstOfIsFirst
    <2> HIDE DEF p
    <2> QED BY <2>2, <2>3, FirstOfUnique DEF p
  <1>2. CASE aheadQ # {}
    <2>1. p = FirstOf(aheadQ)
      BY <1>2 DEF Nearest
    <2>2. aheadQ \subseteq Points /\ aheadR \subseteq Points /\ aheadR \subseteq aheadQ
      OBVIOUS
    <2>3. p \in aheadQ /\ \A q \in aheadQ : HashOf(p) <= HashOf(q)
      <3> HIDE DEF aheadQ, p
      <3> QED BY <1>2, <2>1, <2>2, FirstOfIsFirst
    <2>4. p \in aheadR
      BY <2>3
    <2>5. Nearest(R, h) = FirstOf(aheadR)
      BY <2>4 DEF Nearest
    <2>6. p = FirstOf(aheadR)
      <3> HIDE DEF aheadQ, aheadR, p
      <3> QED BY <2>2, <2>3, <2>4, FirstOfUnique
    <2> QED BY <2>5, <2>6
  <1> QED BY <1>1, <1>2

LEMMA RingPoints ==
    ASSUME NEW c, FitsRing(c)
    PROVE  /\ Ring(c) \subseteq Points
           /\ c.nodes # {} => Ring(c) # {}
           /\ \A p \in Ring(c) : p[1] \in c.nodes
           /\ \A k : PointOf(c, k) = Nearest(Ring(c), KeyHash(k))
  <1>1. ASSUME NEW n \in c.nodes
        PROVE  /\ n \in Nodes
               /\ 0 .. c.vnodes * c.weights[n] - 1 \subseteq 0 .. MaxPoints - 1
               /\ 0 \in 0 .. c.vnodes * c.weights[n] - 1
    BY RoutingAssumption DEF FitsRing
  <1>2. Ring(c) \subseteq Points
    BY <1>1 DEF Ring, Points
  <1>3. ASSUME NEW n \in c.nodes PROVE <<n, 0>> \in Ring(c)
    BY <1>1 DEF Ring
  <1>4. \A p \in Ring(c) : p[1] \in c.nodes
    BY DEF Ring
  <1>5. \A k : PointOf(c, k) = Nearest(Ring(c), KeyHash(k))
    BY DEF PointOf, Nearest
  <1> QED BY <1>2, <1>3, <1>4, <1>5

\* The point a key is given is a point of the ring.
LEMMA PointInRing ==
    ASSUME NEW c, FitsRing(c), c.nodes # {}, NEW k \in Keys
    PROVE  PointOf(c, k) \in Ring(c)
  <1> DEFINE ahead == {p \in Ring(c) : HashOf(p) >= KeyHash(k)}
             S == IF ahead = {} THEN Ring(c) ELSE ahead
  <1>1. S \subseteq Ring(c) /\ S # {} /\ S \subseteq Points
    BY RingPoints
  <1>2. PointOf(c, k) = FirstOf(S)
    BY DEF PointOf
  <1>3. FirstOf(S) \in S
    <2> HIDE DEF S
    <2> QED BY <1>1, FirstOfIsFirst
  <1> QED BY <1>1, <1>2, <1>3

\* Under consistent hashing a key of a cluster with nodes belongs to one of
\* them (consistentHashingStrategy neither panics nor leaves the cluster).
THEOREM RingOwnerInCluster ==
    ASSUME NEW c, FitsRing(c), c.nodes # {}, NEW k \in Keys
    PROVE  RingOwner(c, k) \in c.nodes
  BY PointInRing, RingPoints DEF RingOwner

\* When the ring gains points, because a node is added, a weight or the number
\* of virtual nodes is raised, a key stays with its owner or moves to a point
\* that is new (consistentHashingStrategy, BuildRing).
THEOREM RingGrows ==
    ASSUME NEW c, NEW d, FitsRing(c), FitsRing(d), c.nodes # {},
           Ring(c) \subseteq Ring(d), NEW k \in Keys
    PROVE  RingOwner(d, k) = RingOwner(c, k) \/ PointOf(d, k) \notin Ring(c)
  <1> SUFFICES ASSUME PointOf(d, k) \in Ring(c)
               PROVE  PointOf(d, k) = PointOf(c, k)
    BY DEF RingOwner
  <1>1. /\ Ring(c) # {} /\ Ring(d) \subseteq Points
        /\ PointOf(c, k) = Nearest(Ring(c), KeyHash(k))
        /\ PointOf(d, k) = Nearest(Ring(d), KeyHash(k))
    BY RingPoints
  <1>2. KeyHash(k) \in Nat
    BY RoutingAssumption
  <1> QED BY <1>1, <1>2, NearestOfMore

\* Adding a node n (d is c with n) moves keys to n only; read from d to c,
\* removing n moves only the keys n had.
THEOREM AddedNodeTakesOnly ==
    ASSUME NEW c, NEW d, FitsRing(c), FitsRing(d), c.nodes # {},
           NEW n \in Nodes \ c.nodes, d.nodes = c.nodes \cup {n},
           d.vnodes = c.vnodes, \A m \in c.nodes : d.weights[m] = c.weights[m],
           NEW k \in Keys
    PROVE  RingOwner(d, k) = RingOwner(c, k) \/ RingOwner(d, k) = n
  <1>1. Ring(c) \subseteq Ring(d)
    BY DEF Ring
  <1>2. ASSUME NEW p \in Ring(d), p[1] \in c.nodes PROVE p \in Ring(c)
    <2>1. PICK m \in d.nodes : p \in {m} \X (0 .. d.vnodes * d.weights[m] - 1)
      BY DEF Ring
    <2>2. m \in c.nodes /\ d.vnodes * d.weights[m] = c.vnodes * c.weights[m]
      BY <1>2, <2>1
    <2> QED BY <2>1, <2>2 DEF Ring
  <1>3. RingOwner(d, k) = RingOwner(c, k) \/ PointOf(d, k) \notin Ring(c)
    BY <1>1, RingGrows
  <1>4. RingOwner(d, k) \in d.nodes /\ PointOf(d, k) \in Ring(d)
    BY RingOwnerInCluster, PointInRing
  <1> QED BY <1>2, <1>3, <1>4 DEF RingOwner

----------------------------------------------------------------------------
(* The nodes sorted by id, which hash and range index into.                 *)

Below(S, n) == {m \in S : m < n}

\* A node has fewer nodes before it than any node after it, and than there are.
LEMMA BelowGrows ==
    ASSUME NEW S, S \subseteq Nat, IsFiniteSet(S), NEW n \in S
    PROVE  /\ IsFiniteSet(Below(S, n))
           /\ Cardinality(Below(S, n)) \in 0 .. Cardinality(S) - 1
           /\ \A m \in S : m < n => Cardinality(Below(S, m)) < Cardinality(Below(S, n))
  <1>1. /\ Below(S, n) \in SUBSET (S \ {n})
        /\ \A m \in S : m < n => Below(S, m) \in SUBSET (Below(S, n) \ {m})
    <2>1. \A x, y, z \in S : ~ (x < x) /\ (x < y /\ y < z => x < z)
      OBVIOUS
    <2>2. n \notin Below(S, n) /\ Below(S, n) \subseteq S
      BY <2>1 DEF Below
    <2>3. ASSUME NEW m \in S, m < n, NEW x \in Below(S, m) PROVE x \in Below(S, n) \ {m}
      BY <2>1, <2>3 DEF Below
    <2> QED BY <2>2, <2>3
  <1>2. /\ IsFiniteSet(S \ {n}) /\ Cardinality(S \ {n}) = Cardinality(S) - 1
        /\ Cardinality(S) \in Nat
    BY FS_RemoveElement, FS_CardinalityType
  <1>3. /\ IsFiniteSet(Below(S, n)) /\ Cardinality(Below(S, n)) \in Nat
        /\ Cardinality(Below(S, n)) <= Cardinality(S) - 1
    BY <1>1, <1>2, FS_Subset, FS_CardinalityType
  <1>4. ASSUME NEW m \in S, m < n
        PROVE  Cardinality(Below(S, m)) < Cardinality(Below(S, n))
    <2>1. m \in Below(S, n)
      BY <1>4 DEF Below
    <2>2. /\ IsFiniteSet(Below(S, n) \ {m})
          /\ Cardinality(Below(S, n) \ {m}) = Cardinality(Below(S, n)) - 1
      BY <1>3, <2>1, FS_RemoveElement
    <2>3. IsFiniteSet(Below(S, m)) /\ Cardinality(Below(S, m)) \in Nat
      BY <1>1, <1>4, <2>2, FS_Subset, FS_CardinalityType
    <2>4. Cardinality(Below(S, m)) <= Cardinality(Below(S, n)) - 1
      BY <1>1, <1>4, <2>2, FS_Subset
    <2> QED BY <1>3, <2>3, <2>4
  <1> QED BY <1>2, <1>3, <1>4

\* A finite set of nodes has a last one: it has the most nodes before it.
LEMMA LastNode ==
    ASSUME NEW S, S \subseteq Nat, IsFiniteSet(S), S # {}
    PROVE  \E n \in S : Below(S, n) = S \ {n}
  <1> DEFINE Room(n) == Cardinality(S) - Cardinality(Below(S, n))
             T == {Room(n) : n \in S}
  <1>1. ASSUME NEW n \in S PROVE Room(n) \in Nat
    <2>1. Cardinality(Below(S, n)) \in 0 .. Cardinality(S) - 1 /\ Cardinality(S) \in Nat
      BY BelowGrows, FS_CardinalityType
    <2> QED BY <2>1
  <1>2. T \subseteq Nat /\ T # {}
    BY <1>1
  <1>3. PICK x \in T : \A y \in T : x <= y
    <2> HIDE DEF T
    <2> QED BY <1>2, LeastNat
  <1>4. PICK n \in S : x = Room(n)
    BY <1>3
  <1>5. ASSUME NEW m \in S, m # n PROVE m < n
    <2>1. Room(n) <= Room(m)
      BY <1>3, <1>4
    <2>2. /\ Cardinality(Below(S, n)) \in Nat /\ Cardinality(Below(S, m)) \in Nat
          /\ Cardinality(S) \in Nat
          /\ n < m => Cardinality(Below(S, n)) < Cardinality(Below(S, m))
      BY BelowGrows, FS_CardinalityType
    <2>3. ~ (n < m)
      BY <2>1, <2>2
    <2>4. m \in Nat /\ n \in Nat
      OBVIOUS
    <2> QED BY <1>5, <2>3, <2>4
  <1>6. Below(S, n) = S \ {n}
    <2>1. ~ (n < n)
      OBVIOUS
    <2> QED BY <1>5, <2>1 DEF Below
  <1> QED BY <1>6

\* nodes[i] of the sorted slice exists for every i below its length: it is the
\* least of the nodes that have i others before them.
LEMMA NodeAtInCluster ==
    ASSUME NEW S, S \subseteq Nat, IsFiniteSet(S), NEW i \in 0 .. Cardinality(S) - 1
    PROVE  NodeAt(S, i) \in S
  <1> DEFINE T == {n \in S : Cardinality(Below(S, n)) >= i}
  <1>1. Cardinality(S) \in Nat /\ i \in Nat /\ S # {}
    BY FS_CardinalityType, FS_EmptySet
  <1>2. PICK last \in S : Below(S, last) = S \ {last}
    BY <1>1, LastNode
  <1>3. last \in T
    BY <1>1, <1>2, FS_RemoveElement
  <1>4. PICK n \in T : \A m \in T : n <= m
    <2>1. T \subseteq Nat /\ T # {}
      BY <1>3
    <2> HIDE DEF T
    <2> QED BY <2>1, LeastNat
  <1>5. /\ n \in S /\ Cardinality(Below(S, n)) >= i
        /\ IsFiniteSet(Below(S, n)) /\ Cardinality(Below(S, n)) \in Nat
    <2>1. n \in S /\ Cardinality(Below(S, n)) >= i
      OBVIOUS
    <2> HIDE DEF T
    <2> QED BY <2>1, BelowGrows, FS_CardinalityType
  <1>6. Cardinality(Below(S, n)) = i
    <2> SUFFICES ASSUME Cardinality(Below(S, n)) > i PROVE FALSE
      BY <1>1, <1>4, <1>5
    <2>0. Below(S, n) # {}
      BY <1>1, <1>5, FS_EmptySet
    <2>1. Below(S, n) \subseteq S /\ Below(S, n) \subseteq Nat
      BY DEF Below
    <2>2. PICK p \in Below(S, n) : Below(Below(S, n), p) = Below(S, n) \ {p}
      BY <1>5, <2>0, <2>1, LastNode
    <2>3. p \in S /\ p < n /\ p \in Nat /\ n \in Nat
      BY <1>5, <2>0 DEF Below
    <2>4. Below(S, p) = Below(Below(S, n), p)
      <3>1. \A x \in S : x < p => x < n
        BY <2>3
      <3> QED BY <3>1 DEF Below
    <2>5. Cardinality(Below(S, p)) = Cardinality(Below(S, n)) - 1
      <3>1. Cardinality(Below(S, n) \ {p}) = Cardinality(Below(S, n)) - 1
        BY <1>5, FS_RemoveElement
      <3> QED BY <2>2, <2>4, <3>1
    <2>6. p \in T
      BY <1>1, <1>5, <2>3, <2>5
    <2> QED BY <1>4, <2>3, <2>6
  <1>7. n \in S /\ Cardinality({m \in S : m < n}) = i
    BY <1>6 DEF Below
  <1> QED BY <1>7 DEF NodeAt

\* What the theorems ask of a configuration: nodes, and a list of boundaries.
IsConfig(c) ==
    /\ c.nodes \subseteq Nodes /\ IsFiniteSet(c.nodes) /\ c.nodes # {}
    /\ c.ranges \in Seq(Nat)

LEMMA ClusterSize ==
    ASSUME NEW c, IsConfig(c)
    PROVE  c.nodes \subseteq Nat /\ Cardinality(c.nodes) \in Nat \ {0}
  BY RoutingAssumption, FS_CardinalityType, FS_EmptySet DEF IsConfig

\* The boundary at which the loop of rangeBasedStrategy stops.
FirstStop(c, k) == CHOOSE i \in StopsAt(c, k) : \A j \in StopsAt(c, k) : i <= j

LEMMA FirstStopIsFirst ==
    ASSUME NEW c, IsConfig(c), NEW k, StopsAt(c, k) # {}
    PROVE  /\ FirstStop(c, k) \in StopsAt(c, k)
           /\ \A j \in StopsAt(c, k) : FirstStop(c, k) <= j
           /\ FirstStop(c, k) - 1 \in 0 .. Cardinality(c.nodes) - 2
  <1>1. StopsAt(c, k) \subseteq 1 .. Cardinality(c.nodes) - 1
    BY DEF StopsAt
  <1>2. \E i \in StopsAt(c, k) : \A j \in StopsAt(c, k) : i <= j
    BY <1>1, LeastNat, ClusterSize
  <1>3. /\ FirstStop(c, k) \in StopsAt(c, k)
        /\ \A j \in StopsAt(c, k) : FirstStop(c, k) <= j
    BY <1>2 DEF FirstStop
  <1> QED BY <1>1, <1>3, ClusterSize

LEMMA RangeOwnerIndex ==
    ASSUME NEW c, IsConfig(c), NEW k
    PROVE  RangeOwner(c, k) = NodeAt(c.nodes, IF StopsAt(c, k) = {}
                                              THEN Cardinality(c.nodes) - 1
                                              ELSE FirstStop(c, k) - 1)
  BY DEF RangeOwner, FirstStop

\* Whatever the strategy, a key belongs to a node of the cluster: FindShard
\* returns the connection of a node that is there.
THEOREM OwnerInCluster ==
    ASSUME NEW c, IsConfig(c), c.strategy \in Strategies,
           c.strategy = "consistent" => FitsRing(c), NEW k \in Keys
    PROVE  Owner(c, k) \in c.nodes
  <1>1. c.nodes \subseteq Nat /\ Cardinality(c.nodes) \in Nat \ {0} /\ IsFiniteSet(c.nodes)
    BY ClusterSize DEF IsConfig
  <1>2. CASE c.strategy = "hash"
    <2>1. KeyHash(k) % Cardinality(c.nodes) \in 0 .. Cardinality(c.nodes) - 1
      BY <1>1, RoutingAssumption
    <2> QED BY <1>1, <1>2, <2>1, NodeAtInCluster DEF Owner, HashOwner
  <1>3. CASE c.strategy = "range"
    <2>1. Owner(c, k) = RangeOwner(c, k)
      BY <1>3 DEF Owner
    <2>2. CASE StopsAt(c, k) = {}
      <3>1. Cardinality(c.nodes) - 1 \in 0 .. Cardinality(c.nodes) - 1
        BY <1>1
      <3> QED BY <1>1, <2>1, <2>2, <3>1, RangeOwnerIndex, NodeAtInCluster
    <2>3. CASE StopsAt(c, k) # {}
      <3>1. FirstStop(c, k) - 1 \in 0 .. Cardinality(c.nodes) - 1
        BY <1>1, <2>3, FirstStopIsFirst
      <3> QED BY <1>1, <2>1, <2>3, <3>1, RangeOwnerIndex, NodeAtInCluster
    <2> QED BY <2>2, <2>3
  <1>4. CASE c.strategy = "consistent"
    <2>1. Owner(c, k) = RingOwner(c, k)
      BY <1>4 DEF Owner
    <2>2. c.nodes # {}
      BY DEF IsConfig
    <2> QED BY <1>4, <2>1, <2>2, RingOwnerInCluster
  <1> QED BY <1>2, <1>3, <1>4 DEF Strategies

\* A range query whose boundaries are there asks the owner of every key of the
\* range, though the handler and rangeBasedStrategy compare with different
\* boundaries, and whether the boundaries are sorted or not.
THEOREM RangeGetAsksOwner ==
    ASSUME NEW c, IsConfig(c), c.strategy = "range", ~ RangeGetPanics(c),
           NEW k \in Nat, NEW left \in Nat, NEW right \in Nat, left <= k, k < right
    PROVE  Owner(c, k) \in RangeGetNodes(c, left, right)
  <1> DEFINE n == Cardinality(c.nodes)
             Asked(j) == \/ j = 0     /\ left < c.ranges[1]
                         \/ j = n - 1 /\ right >= c.ranges[n - 1]
                         \/ /\ 0 < j /\ j < n - 1
                            /\ ~ (right < c.ranges[j] \/ left >= c.ranges[j + 1])
  <1>1. n \in Nat /\ n >= 2 /\ Len(c.ranges) \in Nat /\ Len(c.ranges) >= n - 1
        /\ \A i \in 1 .. n - 1 : c.ranges[i] \in Nat
    BY ClusterSize DEF RangeGetPanics, IsConfig
  <1>2. \A i \in 1 .. n - 1 : i \in StopsAt(c, k) <=> c.ranges[i] > k
    BY <1>1 DEF StopsAt
  <1>3. Owner(c, k) = RangeOwner(c, k)
    BY DEF Owner
  <1>4. CASE StopsAt(c, k) = {}
    <2>1. n - 1 \in 0 .. n - 1 /\ Asked(n - 1)
      BY <1>1, <1>2, <1>4
    <2>2. Owner(c, k) = NodeAt(c.nodes, n - 1)
      BY <1>3, <1>4, RangeOwnerIndex
    <2> QED BY <2>1, <2>2 DEF RangeGetNodes
  <1>5. CASE StopsAt(c, k) # {}
    <2> DEFINE i == FirstStop(c, k)
    <2>1. i \in StopsAt(c, k) /\ (\A j \in StopsAt(c, k) : i <= j) /\ i - 1 \in 0 .. n - 2
      BY <1>5, FirstStopIsFirst
    <2>2. i \in 1 .. n - 1 /\ c.ranges[i] > k
      BY <1>1, <2>1 DEF StopsAt
    <2>3. i > 1 => c.ranges[i - 1] <= k
      <3> SUFFICES ASSUME i > 1 PROVE c.ranges[i - 1] <= k
        OBVIOUS
      <3>1. i - 1 \in 1 .. n - 1 /\ ~ (i <= i - 1)
        BY <1>1, <2>2
      <3>2. i - 1 \notin StopsAt(c, k)
        BY <2>1, <3>1
      <3> QED BY <1>1, <1>2, <3>1, <3>2
    <2>4. i - 1 \in 0 .. n - 1 /\ Asked(i - 1)
      <3> HIDE DEF n, i
      <3>1. CASE i = 1
        <4>1. left < c.ranges[1] /\ 0 \in 0 .. n - 1
          BY <1>1, <2>2, <3>1
        <4> QED BY <3>1, <4>1
      <3>2. CASE i > 1
        <4>1. /\ 0 < i - 1 /\ i - 1 < n - 1 /\ (i - 1) + 1 = i
              /\ c.ranges[i] \in Nat /\ c.ranges[i - 1] \in Nat
          BY <1>1, <2>2, <3>2
        <4>2. ~ (right < c.ranges[i - 1] \/ left >= c.ranges[(i - 1) + 1])
          BY <2>2, <2>3, <3>2, <4>1
        <4>3. i - 1 \in 0 .. n - 1
          BY <1>1, <2>2, <3>2
        <4> QED BY <4>1, <4>2, <4>3
      <3> QED BY <2>2, <3>1, <3>2
    <2>5. Owner(c, k) = NodeAt(c.nodes, i - 1)
      BY <1>3, <1>5, RangeOwnerIndex
    <2> QED BY <2>4, <2>5 DEF RangeGetNodes
  <1> QED BY <1>4, <1>5

============================================================================
