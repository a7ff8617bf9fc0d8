--------------------------- MODULE ClusterConfig ---------------------------
(***************************************************************************)
(* The cluster configuration and the commands that change it, with the data *)
(* they move.  Every handler runs alone and every shard answers: what the    *)
(* commands do one after the other, before any interleaving.  Module         *)
(* Migration opens the migration up.                                         *)
(***************************************************************************)
EXTENDS Routing

CONSTANTS
    Bounds,      \* the strings setRanges may name
    MaxWrites,   \* bound: client writes
    MaxWeight,   \* bound: setWeight
    MaxVNodes,   \* bound: setVnodes
    DefaultVNodes,
    Weighted     \* bound: the nodes setWeight names

Missing == 0                   \* a written value is the number of its write
Values  == 0 .. MaxWrites

ASSUME ConfigAssumption ==
    /\ IsFiniteSet(Nodes)
    /\ Bounds \subseteq Nat
    /\ MaxWrites \in Nat
    /\ MaxWeight \in Nat \ {0} /\ MaxVNodes \in Nat
    /\ MaxVNodes * MaxWeight <= MaxPoints
    /\ DefaultVNodes \in 1 .. MaxVNodes
    /\ Weighted \subseteq Nodes

VARIABLES
    routerUp,    \* FALSE once a handler panicked
    nodes, weights, strategy, vnodes, ranges,   \* inmemory.Config
    deleted,     \* Router.deletedData
    storage,     \* [Nodes -> [Keys -> Values]], removed shards included
    latest,      \* history: the last value written by a client
    writes,      \* history: how many writes there were
    due          \* history: the operator owes the cluster a migrateData

configVars == <<nodes, weights, strategy, vnodes, ranges>>
vars == <<routerUp, configVars, deleted, storage, latest, writes, due>>

\* config.AsDto()
Config == [nodes |-> nodes, weights |-> weights, strategy |-> strategy,
           vnodes |-> vnodes, ranges |-> ranges]

Nothing == [k \in Keys |-> Missing]

Init ==
    /\ routerUp = TRUE
    /\ nodes = {}
    /\ weights = [n \in Nodes |-> 0]
    /\ strategy = "hash"
    /\ vnodes = DefaultVNodes
    /\ ranges = <<>>
    /\ deleted = Nothing
    /\ storage = [n \in Nodes |-> Nothing]
    /\ latest = Nothing
    /\ writes = 0
    /\ due = FALSE

----------------------------------------------------------------------------
(* router.migrate, run alone and answered by every shard.                   *)

\* migrate under configuration c; base is what deletedData holds by then, which
\* migrate empties.  A key found on a node that does not own it is put to its
\* owner (toPut keeps the last such node's value, in map order) and deleted
\* where it was; a key of base that no node must give up is put as well.
Migrate(c, base) ==
    LET holders  == [k \in Keys |-> {n \in c.nodes : storage[n][k] # Missing}]
        asked    == {k \in Keys : base[k] # Missing \/ holders[k] # {}}
        owner    == [k \in asked |-> Owner(c, k)]
        strays   == [k \in asked |-> holders[k] \ {owner[k]}]
        incoming == [k \in asked |->
                       IF strays[k] # {} THEN {storage[n][k] : n \in strays[k]}
                       ELSE {IF base[k] # Missing THEN base[k] ELSE storage[owner[k]][k]}]
    IN  /\ deleted' = Nothing
        /\ IF \E k \in asked : FindShardPanics(c, k)
           THEN routerUp' = FALSE /\ UNCHANGED <<storage, due>>
           ELSE /\ \E last \in [asked -> Values] :
                      /\ \A k \in asked : last[k] \in incoming[k]
                      /\ storage' = [n \in Nodes |-> [k \in Keys |->
                            IF n \notin c.nodes \/ k \notin asked THEN storage[n][k]
                            ELSE IF n = owner[k] THEN last[k] ELSE Missing]]
                /\ due' = FALSE
                /\ UNCHANGED routerUp

NoMigration == UNCHANGED <<routerUp, deleted, storage>>

AutoMigrating == {"hash", "consistent"}

----------------------------------------------------------------------------
(* The cluster commands.                                                    *)

\* Mutant: adding a node counts its weight up.
AddNodeCountsUp(n) ==
    LET c == [Config EXCEPT !.nodes = nodes \cup {n}, !.weights[n] = @ + 1]
    IN  /\ nodes' = c.nodes /\ weights' = c.weights
        /\ UNCHANGED <<strategy, vnodes, ranges, latest, writes>>
        /\ IF strategy \in AutoMigrating THEN Migrate(c, deleted)
           ELSE NoMigration /\ due' = TRUE

\* addNode: the weight of a node that is added again is reset.
AddNode(n) ==
    LET c == [Config EXCEPT !.nodes = nodes \cup {n}, !.weights[n] = 1]
    IN  /\ nodes' = c.nodes /\ weights' = c.weights
        /\ UNCHANGED <<strategy, vnodes, ranges, latest, writes>>
        /\ IF strategy \in AutoMigrating THEN Migrate(c, deleted)
           ELSE NoMigration /\ due' = TRUE

\* Mutant: the dump of the victim is not handed over.
RemoveNodeForgets(n) ==
    LET c == [Config EXCEPT !.nodes = nodes \ {n}, !.weights[n] = 0]
    IN  /\ n \in nodes
        /\ nodes' = c.nodes /\ weights' = c.weights
        /\ UNCHANGED <<strategy, vnodes, ranges, latest, writes>>
        /\ IF strategy \in AutoMigrating THEN Migrate(c, deleted)
           ELSE NoMigration /\ due' = TRUE

\* removeNode: the dump of the victim goes to deletedData, the configuration
\* forgets the node, and the strategies that migrate by themselves hand the
\* dump on.  The shard keeps its data.
RemoveNode(n) ==
    LET c == [Config EXCEPT !.nodes = nodes \ {n}, !.weights[n] = 0]
        kept == [k \in Keys |-> IF storage[n][k] # Missing THEN storage[n][k]
                                ELSE deleted[k]]
    IN  /\ n \in nodes
        /\ nodes' = c.nodes /\ weights' = c.weights
        /\ UNCHANGED <<strategy, vnodes, ranges, latest, writes>>
        /\ IF strategy \in AutoMigrating
           THEN Migrate(c, kept)
           ELSE /\ deleted' = kept /\ due' = TRUE
                /\ UNCHANGED <<routerUp, storage>>

\* Mutant: setWeight leaves the keys where they are.
SetWeightStays(n, w) ==
    /\ n \in nodes
    /\ weights' = [weights EXCEPT ![n] = w]
    /\ UNCHANGED <<nodes, strategy, vnodes, ranges, latest, writes, due>>
    /\ NoMigration

\* setWeight, refused below 1 and for an unknown node.
SetWeight(n, w) ==
    /\ n \in nodes
    /\ weights' = [weights EXCEPT ![n] = w]
    /\ UNCHANGED <<nodes, strategy, vnodes, ranges, latest, writes>>
    /\ IF strategy = "consistent"
       THEN Migrate([Config EXCEPT !.weights[n] = w], deleted)
       ELSE NoMigration /\ UNCHANGED due

\* setVnodes, refused below 1.
SetVNodes(v) ==
    /\ vnodes' = v
    /\ UNCHANGED <<nodes, weights, strategy, ranges, latest, writes>>
    /\ IF strategy = "consistent"
       THEN Migrate([Config EXCEPT !.vnodes = v], deleted)
       ELSE NoMigration /\ UNCHANGED due

\* setStrategy: no migration, and no look at the storage.
SetStrategy(s) ==
    /\ strategy' = s
    /\ due' = (due \/ s # strategy)
    /\ UNCHANGED <<nodes, weights, vnodes, ranges, latest, writes>>
    /\ NoMigration

\* setRanges accepts one boundary less than there are nodes, in order.
SetRanges(r) ==
    /\ Len(r) + 1 = Cardinality(nodes)
    /\ \A i \in 1 .. Len(r) - 1 : r[i] < r[i + 1]
    /\ ranges' = r
    /\ due' = (due \/ strategy = "range")
    /\ UNCHANGED <<nodes, weights, strategy, vnodes, latest, writes>>
    /\ NoMigration

\* migrateData
MigrateData ==
    /\ UNCHANGED <<configVars, latest, writes>>
    /\ Migrate(Config, deleted)

----------------------------------------------------------------------------
(* The clients: one request at a time.                                      *)

RouterPanics ==
    /\ routerUp' = FALSE
    /\ UNCHANGED <<configVars, deleted, storage, latest, writes, due>>

\* put (v the number of the write) or delete (v = Missing).
Write(k, v) ==
    IF FindShardPanics(Config, k) THEN RouterPanics
    ELSE /\ storage' = [storage EXCEPT ![Owner(Config, k)][k] = v]
         /\ latest' = [latest EXCEPT ![k] = v]
         /\ writes' = writes + 1
         /\ UNCHANGED <<routerUp, configVars, deleted, due>>

Put(k)    == writes < MaxWrites /\ Write(k, writes + 1)
Delete(k) == writes < MaxWrites /\ Write(k, Missing)

\* A get changes nothing, unless it panics.
Get(k) == FindShardPanics(Config, k) /\ RouterPanics

RangeGet == strategy = "range" /\ RangeGetPanics(Config) /\ RouterPanics

----------------------------------------------------------------------------

BoundarySeqs == UNION {[1 .. l -> Bounds] : l \in 0 .. Cardinality(Nodes) - 1}

Command ==
    \/ \E n \in Nodes : AddNode(n) \/ RemoveNode(n)
    \/ \E n \in Weighted, w \in 1 .. MaxWeight : SetWeight(n, w)
    \/ \E v \in 1 .. MaxVNodes : SetVNodes(v)
    \/ \E s \in Strategies : SetStrategy(s)
    \/ \E r \in BoundarySeqs : SetRanges(r)
    \/ MigrateData

Request ==
    \/ \E k \in Keys : Put(k) \/ Delete(k) \/ Get(k)
    \/ RangeGet

Next == routerUp /\ (Command \/ Request)

Spec == Init /\ [][Next]_vars

----------------------------------------------------------------------------
(* Properties. *)

TypeOK ==
    /\ routerUp \in BOOLEAN
    /\ nodes \subseteq Nodes
    /\ weights \in [Nodes -> 0 .. MaxWeight]
    /\ strategy \in Strategies
    /\ vnodes \in 1 .. MaxVNodes
    /\ ranges \in Seq(Bounds)
    /\ deleted \in [Keys -> Values]
    /\ storage \in [Nodes -> [Keys -> Values]]
    /\ latest \in [Keys -> Values]
    /\ writes \in 0 .. MaxWrites
    /\ due \in BOOLEAN
    /\ \A n \in Nodes : n \in nodes <=> weights[n] > 0

\* The commands that migrate by themselves are the right ones: unless setStrategy
\* was called, or a range cluster waits for its migrateData, every key held by a
\* node of the cluster is held by its owner only, whatever the commands changed.
PlacementFollowsRouting ==
    ~ due => \A k \in Keys, n \in nodes :
        storage[n][k] # Missing => ~ FindShardPanics(Config, k) /\ n = Owner(Config, k)

\* In a tidy cluster no copy of a key differs from the last value written.
Tidy == /\ deleted = Nothing
        /\ \A n \in Nodes, k \in Keys : storage[n][k] \in {Missing, latest[k]}

Held(k, v) == deleted[k] = v \/ \E n \in nodes : storage[n][k] = v

\* A command that finds the cluster tidy loses no key, brings none back, and
\* changes no value: what a node of the cluster held, a node holds afterwards, or
\* deletedData does (AddNode, RemoveNode, migrate).
CommandKeepsData ==
    [][Tidy /\ routerUp' /\ writes' = writes =>
         /\ \A k \in Keys : latest[k] # Missing /\ Held(k, latest[k]) => Held(k, latest[k])'
         /\ \A n \in Nodes, k \in Keys : storage'[n][k] \in {Missing, latest[k]}]_vars

\* On the ring, adding a node moves keys onto it only, and removing one moves
\* nothing but its keys (consistentHashingStrategy, migrate).
MinimalMovement ==
    [][strategy = "consistent" /\ strategy' = "consistent" /\ ~ due /\ Tidy
         /\ writes' = writes =>
         /\ \A n \in Nodes : n \notin nodes /\ nodes' = nodes \cup {n} =>
               \A m \in nodes, k \in Keys : storage[m][k] = Missing => storage'[m][k] = Missing
         /\ \A n \in nodes : nodes' = nodes \ {n} =>
               \A m \in nodes', k \in Keys : storage[m][k] # Missing => storage'[m][k] = storage[m][k]
      ]_vars

\* A range query that does not panic asks every node that holds a key of the
\* range, so it answers what gets of its keys would (handlerClientRangeGet).
RangeGetComplete ==
    strategy = "range" /\ ~ RangeGetPanics(Config) =>
        \A left, k \in Keys, right \in {l + 1 : l \in Keys} :
            left <= k /\ k < right => Owner(Config, k) \in RangeGetNodes(Config, left, right)

\* What the assignment asks (a request to a cluster without nodes is answered
\* NO_AVAILABLE_NODES), and the router does not do.
RouterStaysUp == routerUp

\* What one client, working alone, expects of a cluster that owes it no
\* migration: a get answers the last write.
GetAnswersLatest ==
    ~ due /\ routerUp => \A k \in Keys :
        ~ FindShardPanics(Config, k) => storage[Owner(Config, k)][k] = latest[k]

============================================================================
