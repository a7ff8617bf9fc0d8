------------------------ MODULE ClusterConfigProofs ------------------------
(***************************************************************************)
(* Proofs about ClusterConfig, for all nodes, keys, hashes and bounds: its   *)
(* types, that the commands which migrate by themselves are the right ones,  *)
(* that a command loses no key and changes no value, that on the ring keys   *)
(* move only onto an added node and off a removed one, and that a range      *)
(* query asks every node that it must.                                       *)
(***************************************************************************)
EXTENDS ClusterConfig, RoutingProofs, SequenceTheorems

----------------------------------------------------------------------------
(* Configurations.                                                          *)

\* What the commands keep of a configuration.
GoodConfig(c) ==
    /\ c.nodes \subseteq Nodes /\ c.strategy \in Strategies
    /\ c.weights \in [Nodes -> 0 .. MaxWeight] /\ \A n \in c.nodes : c.weights[n] > 0
    /\ c.vnodes \in 1 .. MaxVNodes
    /\ c.ranges \in Seq(Bounds)

LEMMA ProductBound ==
    ASSUME NEW v \in Nat \ {0}, NEW w \in Nat \ {0}, NEW V \in Nat, NEW W \in Nat,
           NEW P \in Nat, v <= V, w <= W, V * W <= P
    PROVE  v * w \in 1 .. P
  <1>1. (V - v) * w >= 0 /\ V * (W - w) >= 0
    OBVIOUS
  <1>2. (V - v) * w = V * w - v * w /\ V * (W - w) = V * W - V * w
    OBVIOUS
  <1>3. (v - 1) * w >= 0 /\ (v - 1) * w = v * w - w
    OBVIOUS
  <1> QED
    BY <1>1, <1>2, <1>3

LEMMA Limits ==
    MaxWeight \in Nat \ {0} /\ MaxVNodes \in Nat /\ MaxPoints \in Nat /\ DefaultVNodes \in 1 .. MaxVNodes
  BY ConfigAssumption, RoutingAssumption

LEMMA GoodFits ==
    ASSUME NEW c, GoodConfig(c)
    PROVE  FitsRing(c) /\ (c.nodes # {} => IsConfig(c))
  <1>1. ASSUME NEW n \in c.nodes
        PROVE  c.vnodes * c.weights[n] \in 1 .. MaxPoints
    <2>1. c.weights[n] \in Nat \ {0} /\ c.weights[n] <= MaxWeight
      BY Limits DEF GoodConfig
    <2>2. c.vnodes \in Nat \ {0} /\ c.vnodes <= MaxVNodes
      BY Limits DEF GoodConfig
    <2>3. MaxVNodes * MaxWeight <= MaxPoints
      BY ConfigAssumption
    <2> QED
      BY <2>1, <2>2, <2>3, Limits, ProductBound
  <1>2. c.ranges \in Seq(Nat)
    <2>1. Bounds \subseteq Nat /\ c.ranges \in Seq(Bounds)
      BY ConfigAssumption DEF GoodConfig
    <2> QED
      BY <2>1, SeqMonotonic
  <1>3. c.nodes \subseteq Nodes /\ IsFiniteSet(c.nodes)
    BY ConfigAssumption, FS_Subset DEF GoodConfig
  <1> QED
    BY <1>1, <1>2, <1>3 DEF FitsRing, IsConfig

LEMMA GoodOwner ==
    ASSUME NEW c, GoodConfig(c), c.nodes # {}, NEW k \in Keys
    PROVE  Owner(c, k) \in c.nodes
  BY GoodFits, OwnerInCluster DEF GoodConfig

LEMMA ConfigGood == TypeOK => GoodConfig(Config)
  BY DEF TypeOK, GoodConfig, Config

LEMMA ConfigGoodNext == TypeOK' => GoodConfig(Config')
  BY DEF TypeOK, GoodConfig, Config

----------------------------------------------------------------------------
(* What migrate does.                                                       *)

Holders(c, k) == {n \in c.nodes : storage[n][k] # Missing}

\* The keys migrate finds.
Found(c, base, k) == base[k] # Missing \/ Holders(c, k) # {}

\* The values that may be put to the owner of a key.
Incoming(c, base, k) ==
    LET strays == Holders(c, k) \ {Owner(c, k)}
    IN  IF strays # {} THEN {storage[n][k] : n \in strays}
        ELSE {IF base[k] # Missing THEN base[k] ELSE storage[Owner(c, k)][k]}

\* Where a migration that does not panic leaves the keys.
Placed(c, base) ==
    /\ storage' \in [Nodes -> [Keys -> Values]]
    /\ \A k \in Keys :
          /\ Found(c, base, k) => ~ FindShardPanics(c, k)
          /\ \A n \in Nodes \ c.nodes : storage'[n][k] = storage[n][k]
          /\ \A n \in c.nodes : storage'[n][k] # Missing => Found(c, base, k) /\ n = Owner(c, k)
          /\ Found(c, base, k) /\ Owner(c, k) \in c.nodes =>
                storage'[Owner(c, k)][k] \in Incoming(c, base, k)

LEMMA NothingType == Nothing \in [Keys -> Values] /\ \A k \in Keys : Nothing[k] = Missing
  BY ConfigAssumption DEF Nothing, Values, Missing

LEMMA MigratePlaces ==
    ASSUME storage \in [Nodes -> [Keys -> Values]], NEW c, c.nodes \subseteq Nodes,
           NEW base \in [Keys -> Values], Migrate(c, base)
    PROVE  /\ deleted' = Nothing
           /\ \/ /\ routerUp' = FALSE /\ UNCHANGED <<storage, due>>
                 /\ \E k \in Keys : FindShardPanics(c, k)
              \/ UNCHANGED routerUp /\ due' = FALSE /\ Placed(c, base)
  <1> DEFINE holders == [k \in Keys |-> {n \in c.nodes : storage[n][k] # Missing}]
             asked == {k \in Keys : base[k] # Missing \/ holders[k] # {}}
             owner == [k \in asked |-> Owner(c, k)]
             strays == [k \in asked |-> holders[k] \ {owner[k]}]
             incoming == [k \in asked |->
                            IF strays[k] # {} THEN {storage[n][k] : n \in strays[k]}
                            ELSE {IF base[k] # Missing THEN base[k] ELSE storage[owner[k]][k]}]
             Stored(last) ==
                storage' = [n \in Nodes |-> [k \in Keys |->
                              IF n \notin c.nodes \/ k \notin asked THEN storage[n][k]
                              ELSE IF n = owner[k] THEN last[k] ELSE Missing]]
  <1>1. /\ deleted' = Nothing
        /\ \/ /\ routerUp' = FALSE /\ UNCHANGED <<storage, due>>
              /\ \E k \in asked : FindShardPanics(c, k)
           \/ /\ UNCHANGED routerUp /\ due' = FALSE
              /\ ~ \E k \in asked : FindShardPanics(c, k)
              /\ \E last \in [asked -> Values] :
                    /\ \A k \in asked : last[k] \in incoming[k]
                    /\ Stored(last)
    BY Zenon DEF Migrate
  <1>2. ASSUME ~ \E k \in asked : FindShardPanics(c, k),
               NEW last \in [asked -> Values], \A k \in asked : last[k] \in incoming[k], Stored(last)
        PROVE  Placed(c, base)
    <2>1. \A k \in Keys : k \in asked <=> Found(c, base, k)
      BY DEF Found, Holders
    <2>2. \A k \in asked : owner[k] = Owner(c, k) /\ incoming[k] = Incoming(c, base, k)
      BY DEF Incoming, Holders
    <2>3. ASSUME NEW k \in Keys, k \notin asked, NEW n \in c.nodes
          PROVE  storage[n][k] = Missing
      BY <2>3
    <2>4. \A n \in Nodes, k \in Keys : storage'[n][k] =
              IF n \notin c.nodes \/ k \notin asked THEN storage[n][k]
              ELSE IF n = owner[k] THEN last[k] ELSE Missing
      BY <1>2
    <2>5. storage' \in [Nodes -> [Keys -> Values]]
      <3>1. \A k \in asked : last[k] \in Values
        BY <1>2
      <3>2. Missing \in Values
        BY NothingType, ConfigAssumption DEF Values, Missing
      <3> HIDE DEF asked, owner
      <3> QED
        BY <1>2, <3>1, <3>2
    <2> HIDE DEF asked, owner, incoming, holders, strays, Stored
    <2>6. ASSUME NEW k \in Keys
          PROVE  /\ Found(c, base, k) => ~ FindShardPanics(c, k)
                 /\ \A n \in Nodes \ c.nodes : storage'[n][k] = storage[n][k]
                 /\ \A n \in c.nodes : storage'[n][k] # Missing =>
                       Found(c, base, k) /\ n = Owner(c, k)
                 /\ Found(c, base, k) /\ Owner(c, k) \in c.nodes =>
                       storage'[Owner(c, k)][k] \in Incoming(c, base, k)
      <3>1. Found(c, base, k) => ~ FindShardPanics(c, k)
        BY <1>2, <2>1
      <3>2. \A n \in Nodes \ c.nodes : storage'[n][k] = storage[n][k]
        BY <2>4
      <3>3. \A n \in c.nodes : storage'[n][k] # Missing =>
                       Found(c, base, k) /\ n = Owner(c, k)
        BY <2>1, <2>2, <2>3, <2>4
      <3>4. Found(c, base, k) /\ Owner(c, k) \in c.nodes =>
                       storage'[Owner(c, k)][k] \in Incoming(c, base, k)
        BY <1>2, <2>1, <2>2, <2>4
      <3> QED
        BY <3>1, <3>2, <3>3, <3>4
    <2> QED
      BY <2>5, <2>6 DEF Placed
  <1>3. asked \subseteq Keys
    OBVIOUS
  <1> HIDE DEF asked, incoming, Stored
  <1> QED
    BY <1>1, <1>2, <1>3

\* A found key is at its owner afterwards, with a value it had.
LEMMA PlacedValue ==
    ASSUME NEW c, GoodConfig(c), c.nodes # {}, NEW base, Placed(c, base),
           NEW k \in Keys, Found(c, base, k)
    PROVE  /\ Owner(c, k) \in c.nodes /\ storage'[Owner(c, k)][k] # Missing
           /\ \/ storage'[Owner(c, k)][k] = base[k]
              \/ \E n \in Holders(c, k) : storage'[Owner(c, k)][k] = storage[n][k]
  <1> DEFINE o == Owner(c, k)
  <1>1. o \in c.nodes /\ storage'[o][k] \in Incoming(c, base, k)
    BY GoodOwner DEF Placed
  <1>2. CASE Holders(c, k) \ {o} # {}
    BY <1>1, <1>2 DEF Incoming, Holders
  <1>3. CASE Holders(c, k) \ {o} = {}
    <2>1. storage'[o][k] = IF base[k] # Missing THEN base[k] ELSE storage[o][k]
      BY <1>1, <1>3 DEF Incoming
    <2> QED
      BY <1>1, <1>3, <2>1 DEF Found, Holders
  <1> QED
    BY <1>1, <1>2, <1>3

----------------------------------------------------------------------------
(* What a step does.                                                        *)

LeastOf(S) == CHOOSE i \in S : \A j \in S : i <= j

LEMMA RoutingSame ==
    ASSUME NEW c, NEW d, c.nodes = d.nodes, c.strategy = d.strategy, c.strategy \in Strategies,
           c.strategy = "range" => c.ranges = d.ranges,
           c.strategy = "consistent" => c.vnodes = d.vnodes /\ c.weights = d.weights,
           NEW k
    PROVE  (FindShardPanics(c, k) <=> FindShardPanics(d, k)) /\ Owner(c, k) = Owner(d, k)
  <1>1. CASE c.strategy = "hash"
    <2>1. HashOwner(c, k) = HashOwner(d, k)
      BY DEF HashOwner
    <2> QED
      BY <1>1, <2>1 DEF FindShardPanics, Owner
  <1>2. CASE c.strategy = "range"
    <2>1. StopsAt(c, k) = StopsAt(d, k)
      BY <1>2 DEF StopsAt
    <2>2. RangeOwner(c, k) = RangeOwner(d, k)
      <3>1. \A e : RangeOwner(e, k) =
                     IF StopsAt(e, k) = {} THEN NodeAt(e.nodes, Cardinality(e.nodes) - 1)
                     ELSE NodeAt(e.nodes, LeastOf(StopsAt(e, k)) - 1)
        BY DEF RangeOwner, LeastOf
      <3> QED
        BY <2>1, <3>1
    <2> QED
      BY <1>2, <2>1, <2>2 DEF FindShardPanics, Owner
  <1>3. CASE c.strategy = "consistent"
    <2>1. Ring(c) = Ring(d)
      BY <1>3 DEF Ring
    <2>2. RingOwner(c, k) = RingOwner(d, k)
      BY <2>1 DEF RingOwner, PointOf
    <2> QED
      BY <1>3, <2>2 DEF FindShardPanics, Owner
  <1> QED
    BY <1>1, <1>2, <1>3 DEF Strategies

\* What deletedData holds when n is removed.
Kept(n) ==
    [k \in Keys |-> IF storage[n][k] # Missing THEN storage[n][k] ELSE deleted[k]]

SameRouting ==
    /\ nodes' = nodes
    /\ \A k : /\ FindShardPanics(Config', k) <=> FindShardPanics(Config, k)
              /\ Owner(Config', k) = Owner(Config, k)

\* A command that migrates and keeps the nodes; one that removes a node; one
\* that leaves the keys where they are, because the operator owes a migration
\* or the routing is the same.
Migrating ==
    /\ nodes \subseteq nodes' /\ Migrate(Config', deleted)
    /\ strategy' \in AutoMigrating \/ UNCHANGED configVars

Removing(n) ==
    /\ nodes' = nodes \ {n}
    /\ \/ Migrate(Config', Kept(n)) /\ strategy' \in AutoMigrating
       \/ deleted' = Kept(n) /\ due' = TRUE /\ UNCHANGED <<routerUp, storage>>

Staying ==
    /\ nodes \subseteq nodes' /\ UNCHANGED <<routerUp, deleted, storage>>
    /\ due' = TRUE \/ (due' = due /\ SameRouting)

LEMMA ConfigOf ==
    ASSUME NEW S, NEW n, NEW w
    PROVE  [Config EXCEPT !.nodes = S, !.weights[n] = w] =
              [nodes |-> S, weights |-> [weights EXCEPT ![n] = w],
               strategy |-> strategy, vnodes |-> vnodes, ranges |-> ranges]
  <1> DEFINE c == [Config EXCEPT !.nodes = S, !.weights[n] = w]
             b == [Config EXCEPT !.nodes = S]
  <1>1. c = [b EXCEPT !.weights[n] = w]
    OBVIOUS
  <1>2. b = [nodes |-> S, weights |-> weights, strategy |-> strategy, vnodes |-> vnodes,
             ranges |-> ranges]
    BY DEF Config
  <1> HIDE DEF b, c
  <1>3. c = [nodes |-> S, weights |-> [weights EXCEPT ![n] = w],
             strategy |-> strategy, vnodes |-> vnodes, ranges |-> ranges]
    BY <1>1, <1>2
  <1> QED
    BY <1>3 DEF c

LEMMA AddNodeConfig ==
    ASSUME NEW n, AddNode(n)
    PROVE  [Config EXCEPT !.nodes = nodes \cup {n}, !.weights[n] = 1] = Config'
  <1> DEFINE c == [Config EXCEPT !.nodes = nodes \cup {n}, !.weights[n] = 1]
  <1>1. c = [nodes |-> nodes \cup {n}, weights |-> [weights EXCEPT ![n] = 1],
             strategy |-> strategy, vnodes |-> vnodes, ranges |-> ranges]
    BY ConfigOf
  <1>2. nodes' = c.nodes /\ weights' = c.weights /\ UNCHANGED <<strategy, vnodes, ranges>>
    BY DEF AddNode
  <1> HIDE DEF c
  <1>3. c = Config'
    BY <1>1, <1>2 DEF Config
  <1> QED
    BY <1>3 DEF c

LEMMA RemoveNodeConfig ==
    ASSUME NEW n, RemoveNode(n)
    PROVE  [Config EXCEPT !.nodes = nodes \ {n}, !.weights[n] = 0] = Config'
  <1> DEFINE c == [Config EXCEPT !.nodes = nodes \ {n}, !.weights[n] = 0]
  <1>1. c = [nodes |-> nodes \ {n}, weights |-> [weights EXCEPT ![n] = 0],
             strategy |-> strategy, vnodes |-> vnodes, ranges |-> ranges]
    BY ConfigOf
  <1>2. nodes' = c.nodes /\ weights' = c.weights /\ UNCHANGED <<strategy, vnodes, ranges>>
    BY DEF RemoveNode
  <1> HIDE DEF c
  <1>3. c = Config'
    BY <1>1, <1>2 DEF Config
  <1> QED
    BY <1>3 DEF c

LEMMA CommandKinds ==
    ASSUME TypeOK, Command
    PROVE  /\ UNCHANGED <<latest, writes>>
           /\ Migrating \/ Staying \/ \E n \in nodes : Removing(n)
  <1> USE DEF NoMigration
  <1>0. ASSUME nodes' = nodes, strategy' = strategy, strategy = "range" => ranges' = ranges,
               strategy = "consistent" => vnodes' = vnodes /\ weights' = weights
        PROVE  SameRouting
    <2> DEFINE c == Config
               d == Config'
    <2>1. /\ c.nodes = d.nodes /\ c.strategy = d.strategy /\ c.strategy \in Strategies
          /\ c.strategy = "range" => c.ranges = d.ranges
          /\ c.strategy = "consistent" => c.vnodes = d.vnodes /\ c.weights = d.weights
      BY <1>0 DEF Config, TypeOK
    <2> HIDE DEF c, d
    <2>2. \A k : (FindShardPanics(c, k) <=> FindShardPanics(d, k)) /\ Owner(c, k) = Owner(d, k)
      BY <2>1, RoutingSame
    <2> QED
      BY <1>0, <2>2 DEF SameRouting, c, d
  <1>1. ASSUME NEW n \in Nodes, AddNode(n)
        PROVE  UNCHANGED <<latest, writes>> /\ (Migrating \/ Staying)
    <2>1. [Config EXCEPT !.nodes = nodes \cup {n}, !.weights[n] = 1] = Config'
      BY <1>1, AddNodeConfig
    <2> QED
      BY <1>1, <2>1 DEF AddNode, Migrating, Staying
  <1>2. ASSUME NEW n \in Nodes, RemoveNode(n)
        PROVE  UNCHANGED <<latest, writes>> /\ n \in nodes /\ Removing(n)
    <2>1. [Config EXCEPT !.nodes = nodes \ {n}, !.weights[n] = 0] = Config'
      BY <1>2, RemoveNodeConfig
    <2> QED
      BY <1>2, <2>1 DEF RemoveNode, Removing, Kept
  <1>3. ASSUME NEW n \in Weighted, NEW w \in 1 .. MaxWeight, SetWeight(n, w)
        PROVE  UNCHANGED <<latest, writes>> /\ (Migrating \/ Staying)
    <2>1. [Config EXCEPT !.weights[n] = w] = Config'
      BY <1>3 DEF SetWeight, Config
    <2> QED
      <3>1. CASE strategy = "consistent"
        BY <1>3, <2>1, <3>1 DEF SetWeight, Migrating, AutoMigrating
      <3>2. CASE strategy # "consistent"
        <4>1. SameRouting
          BY <1>0, <1>3, <3>2 DEF SetWeight
        <4> QED
          BY <1>3, <3>2, <4>1 DEF SetWeight, Staying
      <3> QED
        BY <3>1, <3>2
  <1>4. ASSUME NEW v \in 1 .. MaxVNodes, SetVNodes(v)
        PROVE  UNCHANGED <<latest, writes>> /\ (Migrating \/ Staying)
    <2>1. [Config EXCEPT !.vnodes = v] = Config'
      BY <1>4 DEF SetVNodes, Config
    <2> QED
      <3>1. CASE strategy = "consistent"
        BY <1>4, <2>1, <3>1 DEF SetVNodes, Migrating, AutoMigrating
      <3>2. CASE strategy # "consistent"
        <4>1. SameRouting
          BY <1>0, <1>4, <3>2 DEF SetVNodes
        <4> QED
          BY <1>4, <3>2, <4>1 DEF SetVNodes, Staying
      <3> QED
        BY <3>1, <3>2
  <1>5. ASSUME NEW s \in Strategies, SetStrategy(s)
        PROVE  UNCHANGED <<latest, writes>> /\ Staying
    <2>1. CASE s = strategy
      BY <1>0, <1>5, <2>1 DEF SetStrategy, Staying, TypeOK
    <2>2. CASE s # strategy
      BY <1>5, <2>2 DEF SetStrategy, Staying
    <2> QED
      BY <2>1, <2>2
  <1>6. ASSUME NEW r \in BoundarySeqs, SetRanges(r)
        PROVE  UNCHANGED <<latest, writes>> /\ Staying
    <2>1. CASE strategy = "range"
      BY <1>6, <2>1 DEF SetRanges, Staying
    <2>2. CASE strategy # "range"
      BY <1>0, <1>6, <2>2 DEF SetRanges, Staying, TypeOK
    <2> QED
      BY <2>1, <2>2
  <1>7. CASE MigrateData
    <2>1. Config = Config'
      BY <1>7 DEF MigrateData, Config, configVars
    <2> QED
      BY <1>7, <2>1 DEF MigrateData, Migrating, configVars
  <1> QED
    BY <1>1, <1>2, <1>3, <1>4, <1>5, <1>6, <1>7 DEF Command

\* A put or delete that reached its owner.
Written(k, v) ==
    /\ ~ FindShardPanics(Config, k)
    /\ storage' = [storage EXCEPT ![Owner(Config, k)][k] = v]
    /\ latest' = [latest EXCEPT ![k] = v]
    /\ writes' = writes + 1 /\ writes' <= MaxWrites
    /\ UNCHANGED <<routerUp, configVars, deleted, due>>

LEMMA RequestKinds ==
    ASSUME TypeOK, Request
    PROVE  RouterPanics \/ \E k \in Keys, v \in Values : Written(k, v)
  <1>0. writes \in Nat /\ MaxWrites \in Nat /\ Missing \in Values
    BY ConfigAssumption DEF TypeOK, Values, Missing
  <1>1. ASSUME NEW k \in Keys, Put(k) \/ Delete(k)
        PROVE  RouterPanics \/ \E v \in Values : Written(k, v)
    <2>1. writes + 1 \in Values
      BY <1>0, <1>1 DEF Put, Delete, Values
    <2>2. writes < MaxWrites /\ \E v \in Values : Write(k, v)
      BY <1>0, <1>1, <2>1 DEF Put, Delete
    <2> QED
      BY <1>0, <2>2 DEF Write, Written
  <1> QED
    BY <1>1 DEF Request, Get, RangeGet

----------------------------------------------------------------------------
(* Types.                                                                   *)

ConfigType ==
    /\ nodes \subseteq Nodes /\ weights \in [Nodes -> 0 .. MaxWeight]
    /\ strategy \in Strategies /\ vnodes \in 1 .. MaxVNodes /\ ranges \in Seq(Bounds)
    /\ \A n \in Nodes : n \in nodes <=> weights[n] > 0

LEMMA BoundarySeq == BoundarySeqs \subseteq Seq(Bounds)
  <1> SUFFICES ASSUME NEW r \in BoundarySeqs PROVE r \in Seq(Bounds)
    OBVIOUS
  <1>1. Cardinality(Nodes) \in Nat
    BY ConfigAssumption, FS_CardinalityType
  <1>2. PICK l \in 0 .. Cardinality(Nodes) - 1 : r \in [1 .. l -> Bounds]
    BY DEF BoundarySeqs
  <1> QED
    BY <1>1, <1>2, SeqDef

LEMMA ConfigTypeNext == TypeOK /\ [Next]_vars => ConfigType'
  <1> SUFFICES ASSUME TypeOK, [Next]_vars PROVE ConfigType'
    OBVIOUS
  <1> USE Limits DEF TypeOK, ConfigType
  <1>1. ASSUME NEW n \in Nodes, AddNode(n) PROVE ConfigType'
    <2>1. /\ nodes' = nodes \cup {n} /\ weights' = [weights EXCEPT ![n] = 1]
          /\ UNCHANGED <<strategy, vnodes, ranges>>
      <3> DEFINE c == [Config EXCEPT !.nodes = nodes \cup {n}, !.weights[n] = 1]
      <3>1. nodes' = c.nodes /\ weights' = c.weights /\ UNCHANGED <<strategy, vnodes, ranges>>
        BY <1>1 DEF AddNode
      <3>2. c = [nodes |-> nodes \cup {n}, weights |-> [weights EXCEPT ![n] = 1],
                 strategy |-> strategy, vnodes |-> vnodes, ranges |-> ranges]
        BY ConfigOf
      <3> HIDE DEF c
      <3> QED
        BY <3>1, <3>2
    <2> QED
      BY <2>1
  <1>2. ASSUME NEW n \in Nodes, RemoveNode(n) PROVE ConfigType'
    <2>1. /\ nodes' = nodes \ {n} /\ weights' = [weights EXCEPT ![n] = 0]
          /\ UNCHANGED <<strategy, vnodes, ranges>>
      <3> DEFINE c == [Config EXCEPT !.nodes = nodes \ {n}, !.weights[n] = 0]
      <3>1. nodes' = c.nodes /\ weights' = c.weights /\ UNCHANGED <<strategy, vnodes, ranges>>
        BY <1>2 DEF RemoveNode
      <3>2. c = [nodes |-> nodes \ {n}, weights |-> [weights EXCEPT ![n] = 0],
                 strategy |-> strategy, vnodes |-> vnodes, ranges |-> ranges]
        BY ConfigOf
      <3> HIDE DEF c
      <3> QED
        BY <3>1, <3>2
    <2> QED
      BY <2>1
  <1>3. ASSUME NEW n \in Weighted, NEW w \in 1 .. MaxWeight, SetWeight(n, w)
        PROVE  ConfigType'
    BY <1>3 DEF SetWeight
  <1>4. ASSUME NEW v \in 1 .. MaxVNodes, SetVNodes(v) PROVE ConfigType'
    BY <1>4 DEF SetVNodes
  <1>5. ASSUME NEW s \in Strategies, SetStrategy(s) PROVE ConfigType'
    BY <1>5 DEF SetStrategy
  <1>6. ASSUME NEW r \in BoundarySeqs, SetRanges(r) PROVE ConfigType'
    BY <1>6, BoundarySeq DEF SetRanges
  <1>7. CASE MigrateData
    BY <1>7 DEF MigrateData, configVars
  <1>8. CASE Request
    BY <1>8, RequestKinds DEF RouterPanics, Written, configVars
  <1>9. CASE UNCHANGED vars
    BY <1>9 DEF vars, configVars
  <1> QED
    BY <1>1, <1>2, <1>3, <1>4, <1>5, <1>6, <1>7, <1>8, <1>9 DEF Next, Command

LEMMA KeptType == ASSUME TypeOK, NEW n \in nodes PROVE Kept(n) \in [Keys -> Values]
  BY DEF TypeOK, Kept

\* A migration of a step, in terms of the configuration it ends in.
LEMMA StepPlaces ==
    ASSUME TypeOK, ConfigType', NEW base \in [Keys -> Values], Migrate(Config', base)
    PROVE  /\ deleted' = Nothing
           /\ \/ /\ routerUp' = FALSE /\ UNCHANGED <<storage, due>>
                 /\ \E k \in Keys : FindShardPanics(Config', k)
              \/ UNCHANGED routerUp /\ due' = FALSE /\ Placed(Config', base)
  <1> DEFINE c == Config'
  <1>1. c.nodes \subseteq Nodes
    BY DEF ConfigType, Config
  <1>2. Migrate(c, base) /\ storage \in [Nodes -> [Keys -> Values]]
    BY DEF TypeOK
  <1> HIDE DEF c
  <1>3. /\ deleted' = Nothing
        /\ \/ /\ routerUp' = FALSE /\ UNCHANGED <<storage, due>>
              /\ \E k \in Keys : FindShardPanics(c, k)
           \/ UNCHANGED routerUp /\ due' = FALSE /\ Placed(c, base)
    BY <1>1, <1>2, MigratePlaces
  <1> QED
    BY <1>3 DEF c

LEMMA TypeInit == Init => TypeOK
  <1> SUFFICES ASSUME Init PROVE TypeOK
    OBVIOUS
  <1>1. /\ weights \in [Nodes -> 0 .. MaxWeight] /\ nodes = {}
        /\ \A n \in Nodes : ~ (weights[n] > 0)
    BY Limits DEF Init
  <1>2. vnodes \in 1 .. MaxVNodes /\ ranges \in Seq(Bounds)
    BY Limits, EmptySeq DEF Init
  <1>3. writes \in 0 .. MaxWrites
    BY ConfigAssumption DEF Init
  <1>4. /\ deleted \in [Keys -> Values] /\ latest \in [Keys -> Values]
        /\ storage \in [Nodes -> [Keys -> Values]]
    BY NothingType DEF Init
  <1> QED
    BY <1>1, <1>2, <1>3, <1>4 DEF Init, TypeOK, Strategies

LEMMA TypeNext == TypeOK /\ [Next]_vars => TypeOK'
  <1> SUFFICES ASSUME TypeOK, [Next]_vars PROVE TypeOK'
    OBVIOUS
  <1>1. ConfigType'
    BY ConfigTypeNext
  <1>2. CASE Command
    <2>1. UNCHANGED <<latest, writes>>
      BY <1>2, CommandKinds
    <2>2. ASSUME NEW base \in [Keys -> Values], Migrate(Config', base)
          PROVE  /\ routerUp' \in BOOLEAN /\ due' \in BOOLEAN
                 /\ deleted' \in [Keys -> Values] /\ storage' \in [Nodes -> [Keys -> Values]]
      BY <1>1, <2>2, StepPlaces, NothingType DEF TypeOK, Placed
    <2>3. /\ routerUp' \in BOOLEAN /\ due' \in BOOLEAN
          /\ deleted' \in [Keys -> Values] /\ storage' \in [Nodes -> [Keys -> Values]]
      BY <1>2, <2>2, CommandKinds, KeptType DEF Migrating, Staying, Removing, TypeOK
    <2> QED
      BY <1>1, <2>1, <2>3 DEF TypeOK, ConfigType
  <1>3. ASSUME NEW k \in Keys, NEW v \in Values, Written(k, v) PROVE TypeOK'
    <2>1. storage' \in [Nodes -> [Keys -> Values]] /\ latest' \in [Keys -> Values]
      BY <1>3 DEF Written, TypeOK
    <2>2. writes' \in 0 .. MaxWrites
      BY <1>3, ConfigAssumption DEF Written, TypeOK
    <2> QED
      BY <1>1, <1>3, <2>1, <2>2 DEF Written, TypeOK, ConfigType
  <1>4. CASE RouterPanics
    BY <1>1, <1>4 DEF RouterPanics, TypeOK, ConfigType
  <1>5. CASE UNCHANGED vars
    BY <1>5 DEF vars, configVars, TypeOK
  <1> QED
    BY <1>2, <1>3, <1>4, <1>5, RequestKinds DEF Next

\* Every variable keeps its type; only the nodes of the cluster have a weight.
THEOREM TypeCorrect == Spec => []TypeOK
  <1> QED
    BY TypeInit, TypeNext, PTL DEF Spec

\* A range query that does not panic asks every node that holds a key of the
\* range, in every configuration the commands can reach
\* (handlerClientRangeGetRequest, rangeBasedStrategy).
THEOREM RangeGetCompleteHolds == Spec => []RangeGetComplete
  <1>1. TypeOK => RangeGetComplete
    <2> SUFFICES ASSUME TypeOK, strategy = "range", ~ RangeGetPanics(Config),
                        NEW left \in Keys, NEW k \in Keys, NEW right \in {l + 1 : l \in Keys},
                        left <= k, k < right
                 PROVE  Owner(Config, k) \in RangeGetNodes(Config, left, right)
      BY DEF RangeGetComplete
    <2> DEFINE c == Config
    <2>1. left \in Nat /\ k \in Nat /\ right \in Nat
      BY RoutingAssumption
    <2>2. c.nodes # {}
      <3>1. ~ (Cardinality(c.nodes) < 2)
        BY DEF RangeGetPanics
      <3>2. Cardinality({}) = 0
        BY FS_EmptySet
      <3> QED
        BY <3>1, <3>2
    <2>3. IsConfig(c) /\ c.strategy = "range"
      BY <2>2, ConfigGood, GoodFits DEF Config
    <2> HIDE DEF c
    <2>4. Owner(c, k) \in RangeGetNodes(c, left, right)
      BY <2>1, <2>3, RangeGetAsksOwner DEF c
    <2> QED
      BY <2>4 DEF c
  <1> QED
    BY <1>1, TypeCorrect, PTL

----------------------------------------------------------------------------
(* Placement.                                                               *)

LEMMA PlacedFollows ==
    ASSUME ConfigType', NEW base, Placed(Config', base)
    PROVE  PlacementFollowsRouting'
  <1> DEFINE c == Config'
  <1>1. c.nodes = nodes' /\ nodes' \subseteq Nodes
    BY DEF ConfigType, Config
  <1>2. Placed(c, base)
    OBVIOUS
  <1> HIDE DEF c
  <1>3. ASSUME NEW k \in Keys, NEW n \in nodes', storage'[n][k] # Missing
        PROVE  ~ FindShardPanics(c, k) /\ n = Owner(c, k)
    BY <1>1, <1>2, <1>3 DEF Placed
  <1> QED
    BY <1>3 DEF PlacementFollowsRouting, c

\* The commands that migrate by themselves do not panic.
LEMMA AutoUp ==
    ASSUME strategy' \in AutoMigrating, nodes' # {}, NEW k
    PROVE  ~ FindShardPanics(Config', k)
  <1> DEFINE c == Config'
  <1>1. c.nodes # {} /\ c.strategy # "range"
    BY DEF Config, AutoMigrating
  <1> HIDE DEF c
  <1>2. ~ FindShardPanics(c, k)
    BY <1>1 DEF FindShardPanics
  <1> QED
    BY <1>2 DEF c

LEMMA PlacementNext ==
    TypeOK /\ PlacementFollowsRouting /\ [Next]_vars => PlacementFollowsRouting'
  <1> SUFFICES ASSUME TypeOK, PlacementFollowsRouting, [Next]_vars
               PROVE  PlacementFollowsRouting'
    OBVIOUS
  <1>1. ConfigType'
    BY ConfigTypeNext
  <1>2. ASSUME UNCHANGED <<configVars, storage, due>>
        PROVE  PlacementFollowsRouting'
    BY <1>2 DEF PlacementFollowsRouting, configVars, Config
  <1>3. ASSUME NEW base \in [Keys -> Values], Migrate(Config', base),
               strategy' \in AutoMigrating \/ UNCHANGED configVars
        PROVE  PlacementFollowsRouting'
    <2>1. CASE Placed(Config', base)
      BY <1>1, <2>1, PlacedFollows
    <2>2. CASE UNCHANGED <<storage, due>> /\ \E k \in Keys : FindShardPanics(Config', k)
      <3>1. CASE nodes' = {}
        BY <3>1 DEF PlacementFollowsRouting
      <3>2. CASE nodes' # {}
        BY <1>2, <1>3, <2>2, <3>2, AutoUp
      <3> QED
        BY <3>1, <3>2
    <2> QED
      BY <1>1, <1>3, <2>1, <2>2, StepPlaces
  <1>4. CASE Migrating
    BY <1>3, <1>4 DEF Migrating, TypeOK
  <1>5. CASE Staying
    <2>1. CASE due' = TRUE
      BY <2>1 DEF PlacementFollowsRouting
    <2>2. CASE due' = due /\ SameRouting
      BY <1>5, <2>2 DEF Staying, SameRouting, PlacementFollowsRouting
    <2> QED
      BY <1>5, <2>1, <2>2 DEF Staying
  <1>6. ASSUME NEW n \in nodes, Removing(n)
        PROVE  PlacementFollowsRouting'
    <2>1. CASE due' = TRUE
      BY <2>1 DEF PlacementFollowsRouting
    <2> QED
      BY <1>3, <1>6, <2>1, KeptType DEF Removing
  <1>7. ASSUME NEW k \in Keys, NEW v \in Values, Written(k, v)
        PROVE  PlacementFollowsRouting'
    <2>1. Config' = Config /\ nodes' = nodes /\ due' = due
      BY <1>7 DEF Written, configVars, Config
    <2>2. \A n \in nodes, l \in Keys :
              storage'[n][l] = IF n = Owner(Config, k) /\ l = k THEN v ELSE storage[n][l]
      BY <1>7 DEF Written, TypeOK
    <2>3. ~ FindShardPanics(Config, k)
      BY <1>7 DEF Written
    <2>4. ASSUME ~ due, NEW l \in Keys, NEW n \in nodes, storage'[n][l] # Missing
          PROVE  ~ FindShardPanics(Config, l) /\ n = Owner(Config, l)
      BY <2>2, <2>3, <2>4 DEF PlacementFollowsRouting
    <2> QED
      BY <2>1, <2>4 DEF PlacementFollowsRouting
  <1> QED
    <2>1. CASE Command
      BY <2>1, <1>4, <1>5, <1>6, CommandKinds
    <2>2. CASE Request
      BY <2>2, <1>2, <1>7, RequestKinds DEF RouterPanics
    <2>3. CASE UNCHANGED vars
      BY <2>3, <1>2 DEF vars
    <2> QED
      BY <2>1, <2>2, <2>3 DEF Next

\* Unless setStrategy was called, or a range cluster waits for its migrateData,
\* every key held by a node of the cluster is held by its owner only: addNode,
\* removeNode, setWeight and setVnodes migrate whenever they change an owner.
THEOREM PlacementFollowsRoutingHolds == Spec => []PlacementFollowsRouting
  <1>1. Init => PlacementFollowsRouting
    BY DEF Init, PlacementFollowsRouting
  <1>2. TypeOK /\ PlacementFollowsRouting /\ [Next]_vars => PlacementFollowsRouting'
    BY PlacementNext
  <1> QED
    BY <1>1, <1>2, TypeCorrect, PTL DEF Spec

----------------------------------------------------------------------------
(* What commands do to the data.                                            *)

\* A value a node of the cluster or deletedData holds is still held after a
\* migration, or another value of its key.
LEMMA MigrateHolds ==
    ASSUME ConfigType', NEW base \in [Keys -> Values], Placed(Config', base), NEW k \in Keys,
           base[k] # Missing \/ \E n \in nodes' : storage[n][k] # Missing
    PROVE  \E m \in nodes' : /\ m = Owner(Config', k) /\ storage'[m][k] # Missing
                             /\ \/ storage'[m][k] = base[k]
                                \/ \E n \in nodes' : storage'[m][k] = storage[n][k]
  <1> DEFINE c == Config'
  <1>1. c.nodes = nodes' /\ GoodConfig(c) /\ Placed(c, base)
    BY DEF ConfigType, Config, GoodConfig
  <1> HIDE DEF c
  <1>2. Found(c, base, k)
    BY <1>1 DEF Found, Holders
  <1>3. c.nodes # {}
    BY <1>1, <1>2 DEF Placed, FindShardPanics
  <1>4. /\ Owner(c, k) \in c.nodes /\ storage'[Owner(c, k)][k] # Missing
        /\ \/ storage'[Owner(c, k)][k] = base[k]
           \/ \E n \in Holders(c, k) : storage'[Owner(c, k)][k] = storage[n][k]
    BY <1>1, <1>2, <1>3, PlacedValue
  <1> QED
    BY <1>1, <1>4 DEF Holders, c

\* In a tidy cluster a migration leaves the last value written, and no other.
LEMMA TidyMoves ==
    ASSUME TypeOK, Tidy, ConfigType', NEW base \in [Keys -> Values], Placed(Config', base),
           \A k \in Keys : base[k] \in {Missing, latest[k]}
    PROVE  /\ \A n \in Nodes, k \in Keys : storage'[n][k] \in {Missing, latest[k]}
           /\ \A k \in Keys :
                 /\ latest[k] # Missing
                 /\ base[k] = latest[k] \/ \E n \in nodes' : storage[n][k] = latest[k]
                 => \E m \in nodes' : storage'[m][k] = latest[k]
  <1>0. nodes' \subseteq Nodes
    BY DEF ConfigType
  <1>1. ASSUME NEW k \in Keys,
               base[k] # Missing \/ \E n \in nodes' : storage[n][k] # Missing
        PROVE  \E m \in nodes' : m = Owner(Config', k) /\ storage'[m][k] = latest[k]
    BY <1>0, <1>1, MigrateHolds DEF Tidy
  <1>2. ASSUME NEW n \in Nodes, NEW k \in Keys
        PROVE  storage'[n][k] \in {Missing, latest[k]}
    <2> DEFINE c == Config'
    <2>1. c.nodes = nodes' /\ Placed(c, base)
      BY DEF Config
    <2>2. Found(c, base, k) => \E m \in nodes' : m = Owner(c, k) /\ storage'[m][k] = latest[k]
      BY <1>1, <2>1 DEF Found, Holders
    <2> HIDE DEF c
    <2> QED
      BY <2>1, <2>2 DEF Placed, Tidy
  <1> QED
    BY <1>1, <1>2

LEMMA KeepsData ==
    ASSUME TypeOK, [Next]_vars, Tidy, routerUp', writes' = writes
    PROVE  /\ \A k \in Keys : latest[k] # Missing /\ Held(k, latest[k]) => Held(k, latest[k])'
           /\ \A n \in Nodes, k \in Keys : storage'[n][k] \in {Missing, latest[k]}
  <1> DEFINE Kept1 == \A k \in Keys :
                         latest[k] # Missing /\ Held(k, latest[k]) => Held(k, latest[k])'
             Kept2 == \A n \in Nodes, k \in Keys : storage'[n][k] \in {Missing, latest[k]}
  <1>0. ConfigType' /\ \A k \in Keys : deleted[k] = Missing
    BY ConfigTypeNext, NothingType DEF Tidy
  <1>1. CASE UNCHANGED vars
    BY <1>1 DEF vars, configVars, Tidy, Held
  <1>2. CASE Request
    <2>1. writes + 1 # writes
      BY ConfigAssumption DEF TypeOK
    <2> QED
      BY <1>2, <2>1, RequestKinds DEF RouterPanics, Written
  <1>3. CASE Command
    <2>0. UNCHANGED latest
      BY <1>3, CommandKinds
    <2>1. CASE Migrating
      <3>1. deleted \in [Keys -> Values] /\ Placed(Config', deleted)
        BY <1>0, <2>1, StepPlaces DEF Migrating, TypeOK
      <3>2. /\ Kept2
            /\ \A k \in Keys : latest[k] # Missing /\ (\E n \in nodes' : storage[n][k] = latest[k])
                  => \E m \in nodes' : storage'[m][k] = latest[k]
        BY <1>0, <3>1, TidyMoves
      <3> QED
        BY <1>0, <2>0, <2>1, <3>2 DEF Held, Migrating
    <2>2. CASE Staying
      BY <2>0, <2>2 DEF Staying, Held, Tidy
    <2>3. ASSUME NEW n \in nodes, Removing(n) PROVE Kept1 /\ Kept2
      <3>0. /\ Kept(n) \in [Keys -> Values] /\ n \in Nodes
            /\ \A k \in Keys : Kept(n)[k] = storage[n][k]
        BY <1>0, KeptType DEF Kept, TypeOK
      <3>1. CASE Migrate(Config', Kept(n))
        <4>1. Placed(Config', Kept(n))
          BY <1>0, <3>0, <3>1, StepPlaces
        <4>2. /\ Kept2
              /\ \A k \in Keys :
                    /\ latest[k] # Missing
                    /\ storage[n][k] = latest[k] \/ \E m \in nodes' : storage[m][k] = latest[k]
                    => \E m \in nodes' : storage'[m][k] = latest[k]
          BY <3>0, <1>0, <4>1, TidyMoves DEF Tidy
        <4> QED
          BY <1>0, <2>0, <2>3, <4>2 DEF Held, Removing
      <3>2. CASE deleted' = Kept(n) /\ UNCHANGED storage
        BY <1>0, <2>0, <2>3, <3>0, <3>2 DEF Held, Removing, Tidy
      <3> QED
        BY <2>3, <3>1, <3>2 DEF Removing
    <2> QED
      BY <1>3, <2>1, <2>2, <2>3, CommandKinds
  <1> QED
    BY <1>1, <1>2, <1>3 DEF Next

\* A command that finds the cluster tidy loses no key, brings none back, and
\* changes no value, whichever nodes hold what and whatever it migrates.
THEOREM CommandKeepsDataHolds == Spec => CommandKeepsData
  <1>1. TypeOK /\ [Next]_vars =>
            (Tidy /\ routerUp' /\ writes' = writes =>
               /\ \A k \in Keys : latest[k] # Missing /\ Held(k, latest[k]) => Held(k, latest[k])'
               /\ \A n \in Nodes, k \in Keys : storage'[n][k] \in {Missing, latest[k]})
    BY KeepsData
  <1> QED
    BY <1>1, TypeCorrect, PTL DEF Spec, CommandKeepsData

----------------------------------------------------------------------------
(* Minimal movement.                                                        *)

\* A key that was written and not deleted has a value somewhere, though perhaps
\* an old one.
NeverGone ==
    \A k \in Keys : latest[k] # Missing =>
        deleted[k] # Missing \/ \E n \in nodes : storage[n][k] # Missing

LEMMA GoneNext ==
    TypeOK /\ (routerUp => NeverGone) /\ [Next]_vars => (routerUp' => NeverGone')
  <1> SUFFICES ASSUME TypeOK, routerUp => NeverGone, [Next]_vars, routerUp'
               PROVE  NeverGone'
    OBVIOUS
  <1>1. ConfigType' /\ (UNCHANGED vars \/ routerUp)
    BY ConfigTypeNext DEF Next
  <1>2. CASE UNCHANGED vars
    BY <1>2 DEF vars, configVars, NeverGone
  <1>3. CASE routerUp /\ Command
    <2>1. NeverGone /\ UNCHANGED latest
      BY <1>3, CommandKinds
    <2>2. CASE Migrating
      <3>1. deleted \in [Keys -> Values] /\ Placed(Config', deleted)
        BY <1>1, <2>2, StepPlaces DEF Migrating, TypeOK
      <3> QED
        BY <1>1, <2>1, <2>2, <3>1, MigrateHolds DEF NeverGone, Migrating
    <2>3. CASE Staying
      BY <2>1, <2>3 DEF Staying, NeverGone
    <2>4. ASSUME NEW n \in nodes, Removing(n) PROVE NeverGone'
      <3>1. /\ Kept(n) \in [Keys -> Values]
            /\ \A k \in Keys : storage[n][k] # Missing \/ deleted[k] # Missing => Kept(n)[k] # Missing
        BY KeptType DEF Kept
      <3>2. \A k \in Keys : latest'[k] # Missing =>
                Kept(n)[k] # Missing \/ \E m \in nodes' : storage[m][k] # Missing
        BY <2>1, <2>4, <3>1 DEF NeverGone, Removing
      <3>3. CASE Migrate(Config', Kept(n))
        <4>1. Placed(Config', Kept(n))
          BY <1>1, <3>1, <3>3, StepPlaces
        <4> QED
          BY <1>1, <3>1, <3>2, <4>1, MigrateHolds DEF NeverGone
      <3>4. CASE deleted' = Kept(n) /\ UNCHANGED storage
        BY <3>2, <3>4 DEF NeverGone
      <3> QED
        BY <2>4, <3>3, <3>4 DEF Removing
    <2> QED
      BY <1>3, <2>2, <2>3, <2>4, CommandKinds
  <1>4. ASSUME routerUp, NEW k \in Keys, NEW v \in Values, Written(k, v)
        PROVE  NeverGone'
    <2>1. nodes # {} /\ ~ FindShardPanics(Config, k)
      BY <1>4 DEF Written, FindShardPanics, Config
    <2>2. Owner(Config, k) \in nodes /\ nodes \subseteq Nodes
      <3>1. GoodConfig(Config) /\ Config.nodes = nodes
        BY ConfigGood DEF Config
      <3> QED
        BY <2>1, <3>1, GoodOwner DEF TypeOK
    <2>3. /\ \A n \in nodes, l \in Keys :
                storage'[n][l] = IF n = Owner(Config, k) /\ l = k THEN v ELSE storage[n][l]
          /\ \A l \in Keys : latest'[l] = IF l = k THEN v ELSE latest[l]
          /\ nodes' = nodes /\ deleted' = deleted
      BY <1>4, <2>2 DEF Written, TypeOK, configVars
    <2> QED
      BY <1>4, <2>2, <2>3 DEF NeverGone
  <1> QED
    BY <1>1, <1>2, <1>3, <1>4, RequestKinds DEF Next, RouterPanics

LEMMA Grows ==
    ASSUME [Next]_vars, TypeOK, NEW n \in Nodes \ nodes, nodes' = nodes \cup {n}
    PROVE  AddNode(n)
  <1>1. nodes' # nodes
    OBVIOUS
  <1>2. PICK x \in Nodes : AddNode(x) \/ RemoveNode(x)
    BY <1>1, RequestKinds DEF Next, vars, configVars, Command, SetWeight, SetVNodes, SetStrategy,
       SetRanges, MigrateData, RouterPanics, Written
  <1>3. AddNode(x) => nodes' = nodes \cup {x}
    BY ConfigOf DEF AddNode
  <1>4. RemoveNode(x) => nodes' \subseteq nodes
    BY ConfigOf DEF RemoveNode
  <1> QED
    BY <1>2, <1>3, <1>4

LEMMA Shrinks ==
    ASSUME [Next]_vars, TypeOK, NEW n \in nodes, nodes' = nodes \ {n}
    PROVE  RemoveNode(n)
  <1>1. nodes' # nodes
    OBVIOUS
  <1>2. PICK x \in Nodes : AddNode(x) \/ RemoveNode(x)
    BY <1>1, RequestKinds DEF Next, vars, configVars, Command, SetWeight, SetVNodes, SetStrategy,
       SetRanges, MigrateData, RouterPanics, Written
  <1>3. AddNode(x) => nodes \subseteq nodes'
    BY ConfigOf DEF AddNode
  <1>4. RemoveNode(x) => x \in nodes /\ nodes' = nodes \ {x}
    BY ConfigOf DEF RemoveNode
  <1> QED
    BY <1>2, <1>3, <1>4

LEMMA RingMoves ==
    ASSUME NEW c, NEW d, GoodConfig(c), GoodConfig(d), c.nodes # {},
           c.strategy = "consistent", d.strategy = "consistent",
           NEW n \in Nodes \ c.nodes, d.nodes = c.nodes \cup {n}, d.vnodes = c.vnodes,
           \A m \in c.nodes : d.weights[m] = c.weights[m], NEW k \in Keys
    PROVE  Owner(d, k) = Owner(c, k) \/ Owner(d, k) = n
  BY GoodFits, AddedNodeTakesOnly DEF Owner

LEMMA AddMoves ==
    ASSUME TypeOK, PlacementFollowsRouting, NeverGone, [Next]_vars,
           strategy = "consistent", ~ due, Tidy,
           NEW n \in Nodes \ nodes, AddNode(n),
           NEW m \in nodes, NEW k \in Keys, storage[m][k] = Missing
    PROVE  storage'[m][k] = Missing
  <1> DEFINE c == Config
             d == Config'
  <1>1. c.nodes = nodes /\ GoodConfig(c) /\ c.strategy = "consistent" /\ m \in Nodes
    BY ConfigGood DEF Config, TypeOK
  <1>2. [Config EXCEPT !.nodes = nodes \cup {n}, !.weights[n] = 1] = d
    BY AddNodeConfig
  <1>3. /\ nodes' = nodes \cup {n} /\ d.nodes = nodes' /\ d.vnodes = c.vnodes
        /\ d.strategy = "consistent" /\ \A q \in nodes : d.weights[q] = c.weights[q]
    BY <1>2, ConfigOf DEF AddNode, Config, TypeOK
  <1>4. GoodConfig(d) /\ ConfigType'
    BY ConfigTypeNext DEF ConfigType, GoodConfig, Config
  <1>5. Migrate(d, deleted)
    BY <1>2 DEF AddNode, AutoMigrating
  <1>6. storage' = storage \/ Placed(d, deleted)
    BY <1>4, <1>5, StepPlaces DEF TypeOK
  <1>7. \A l \in Keys : deleted[l] = Missing
    BY NothingType DEF Tidy
  <1> HIDE DEF d
  <1>8. ASSUME Placed(d, deleted), storage'[m][k] # Missing
        PROVE  FALSE
    <2>1. m = Owner(d, k) /\ Found(d, deleted, k)
      BY <1>3, <1>8 DEF Placed
    <2>2. m = Owner(c, k)
      <3> HIDE DEF c
      <3> QED
        BY <1>1, <1>3, <1>4, <2>1, RingMoves
    <2>3. PICK q \in nodes \cup {n} : storage[q][k] # Missing
      BY <1>3, <1>7, <2>1 DEF Found, Holders
    <2>4. latest[k] # Missing
      BY <2>3 DEF Tidy, TypeOK
    <2>5. PICK h \in nodes : storage[h][k] # Missing
      BY <1>7, <2>4 DEF NeverGone
    <2>6. h = m
      BY <2>2, <2>5 DEF PlacementFollowsRouting
    <2> QED
      BY <2>5, <2>6
  <1> QED
    BY <1>6, <1>8

LEMMA RemoveMoves ==
    ASSUME TypeOK, PlacementFollowsRouting, [Next]_vars,
           strategy = "consistent", ~ due, Tidy,
           NEW n \in nodes, RemoveNode(n), nodes' = nodes \ {n},
           NEW m \in nodes', NEW k \in Keys, storage[m][k] # Missing
    PROVE  storage'[m][k] = storage[m][k]
  <1> DEFINE c == Config'
             d == Config
  <1>1. d.nodes = nodes /\ GoodConfig(d) /\ d.strategy = "consistent" /\ n \in Nodes
    BY ConfigGood DEF Config, TypeOK
  <1>2. [Config EXCEPT !.nodes = nodes \ {n}, !.weights[n] = 0] = c
    BY RemoveNodeConfig
  <1>3. /\ c.nodes = nodes' /\ d.vnodes = c.vnodes
        /\ c.strategy = "consistent" /\ \A q \in nodes' : d.weights[q] = c.weights[q]
    BY <1>2, ConfigOf DEF RemoveNode, Config, TypeOK
  <1>4. GoodConfig(c) /\ ConfigType'
    BY ConfigTypeNext DEF ConfigType, GoodConfig, Config
  <1>5. Migrate(c, Kept(n))
    BY <1>2 DEF RemoveNode, AutoMigrating, Kept
  <1>6. storage' = storage \/ Placed(c, Kept(n))
    BY <1>4, <1>5, StepPlaces, KeptType
  <1>7. \A h \in nodes : storage[h][k] # Missing => h = Owner(d, k)
    BY DEF PlacementFollowsRouting
  <1>8. m = Owner(d, k) /\ m # n
    BY <1>7
  <1> HIDE DEF c
  <1>9. m = Owner(c, k)
    <2> HIDE DEF d
    <2>1. d.nodes = c.nodes \cup {n} /\ n \notin c.nodes /\ c.nodes # {}
      BY <1>1, <1>3
    <2> QED
      BY <1>1, <1>3, <1>4, <1>8, <2>1, RingMoves
  <1>10. ASSUME Placed(c, Kept(n))
         PROVE  storage'[m][k] = storage[m][k]
    <2>1. Holders(c, k) = {m} /\ Found(c, Kept(n), k)
      BY <1>3, <1>7, <1>8 DEF Holders, Found
    <2>2. Kept(n)[k] = Missing
      BY <1>7, <1>8, NothingType DEF Kept, Tidy
    <2>3. storage'[m][k] \in Incoming(c, Kept(n), k)
      BY <1>3, <1>9, <1>10, <2>1 DEF Placed
    <2> QED
      BY <1>9, <2>1, <2>2, <2>3 DEF Incoming
  <1> QED
    BY <1>6, <1>10

\* On the ring, from a tidy cluster, adding a node moves keys onto it only, and
\* removing one moves nothing but its keys: what consistentHashingStrategy is
\* for, as migrate carries it out.
THEOREM MinimalMovementHolds == Spec => MinimalMovement
  <1> DEFINE I == TypeOK /\ PlacementFollowsRouting /\ (routerUp => NeverGone)
             Moves == strategy = "consistent" /\ strategy' = "consistent" /\ ~ due /\ Tidy
                        /\ writes' = writes =>
         /\ \A n \in Nodes : n \notin nodes /\ nodes' = nodes \cup {n} =>
               \A m \in nodes, k \in Keys : storage[m][k] = Missing => storage'[m][k] = Missing
         /\ \A n \in nodes : nodes' = nodes \ {n} =>
               \A m \in nodes', k \in Keys : storage[m][k] # Missing => storage'[m][k] = storage[m][k]
  <1>1. Init => I
    BY TypeInit, NothingType DEF Init, PlacementFollowsRouting, NeverGone
  <1>2. I /\ [Next]_vars => I'
    BY TypeNext, PlacementNext, GoneNext
  <1>3. I /\ [Next]_vars => [Moves]_vars
    <2> SUFFICES ASSUME I, [Next]_vars, strategy = "consistent", ~ due, Tidy, vars' # vars
                 PROVE  /\ \A n \in Nodes : n \notin nodes /\ nodes' = nodes \cup {n} =>
                              \A m \in nodes, k \in Keys :
                                  storage[m][k] = Missing => storage'[m][k] = Missing
                        /\ \A n \in nodes : nodes' = nodes \ {n} =>
                              \A m \in nodes', k \in Keys :
                                  storage[m][k] # Missing => storage'[m][k] = storage[m][k]
      OBVIOUS
    <2>1. NeverGone
      BY DEF Next
    <2>2. ASSUME NEW n \in Nodes, n \notin nodes, nodes' = nodes \cup {n},
                 NEW m \in nodes, NEW k \in Keys, storage[m][k] = Missing
          PROVE  storage'[m][k] = Missing
      BY <2>1, <2>2, Grows, AddMoves
    <2>3. ASSUME NEW n \in nodes, nodes' = nodes \ {n},
                 NEW m \in nodes', NEW k \in Keys, storage[m][k] # Missing
          PROVE  storage'[m][k] = storage[m][k]
      BY <2>3, Shrinks, RemoveMoves
    <2> QED
      BY <2>2, <2>3
  <1> QED
    BY <1>1, <1>2, <1>3, PTL DEF Spec, MinimalMovement

=============================================================================
