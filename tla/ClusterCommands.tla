-------------------------- MODULE ClusterCommands --------------------------
(***************************************************************************)
(* Cluster commands of the router that run at the same time, each in the    *)
(* goroutine of its request: what they read of the configuration and of the *)
(* connections, when, and what they still act on when it has changed.       *)
(*                                                                          *)
(* ApplyClusterUpdate closes all connections and dials new ones.  A         *)
(* connection is <<node, generation>>; one of an earlier generation is      *)
(* closed: what is sent on it goes nowhere, and what was sent on it before  *)
(* may arrive, but its answer does not come back.                           *)
(*                                                                          *)
(* Of the data only where a key is matters here, and for deletedData, which *)
(* removeNode stored it; values, and clients that write, are in Migration.  *)
(***************************************************************************)
EXTENDS Integers

CONSTANTS
    Nodes, Keys, NoNode,
    Routings,           \* what setStrategy, setRanges, setVnodes, setWeight choose from
    Automatic,          \* routings under which addNode and removeNode migrate
    Ring,               \* routings under which setVnodes and setWeight migrate
    OwnerOf(_, _, _),   \* the node a strategy finds: nodes, routing, key
    Undialable,         \* nodes that net.Dial may fail for
    MaxCommands         \* bound: cluster commands

ASSUME ClusterCommandsAssumption ==
    /\ Ring \subseteq Automatic /\ Automatic \subseteq Routings
    /\ \A S \in SUBSET Nodes, r \in Routings, k \in Keys : S # {} => OwnerOf(S, r, k) \in S
    /\ NoNode \notin Nodes /\ Undialable \subseteq Nodes
    /\ MaxCommands \in Nat

VARIABLES
    nodes, routing,  \* Config
    peers,           \* nodes that manager.peers has a connection to
    gen,             \* ApplyClusterUpdates so far: the generation of those connections
    storage,         \* [Nodes -> SUBSET Keys], of the shards, removed ones included
    deletedData,     \* Router.deletedData: for a key the command that stored it, or Absent
    cmd,             \* [Commands -> what its handler keeps in local variables]
    sent,            \* puts and deletes on their way
    claimed,         \* those that a shard has entered in its Deduplication, and not yet applied
    undialled,       \* history: nodes that the last ApplyClusterUpdate could not dial
    mixed,           \* history: two commands met, and one changes the configuration
    spilled          \* history: keys of a base whose migration failed

configVars == <<nodes, routing>>
peerVars   == <<peers, gen, undialled>>
dataVars   == <<storage, deletedData>>
linkVars   == <<sent, claimed>>
vars == <<configVars, peerVars, dataVars, cmd, linkVars, mixed, spilled>>

Commands == 1 .. MaxCommands
Absent   == -1
Earlier  == 0   \* stored before the commands of the model
Tags     == {Earlier} \cup Commands
Nothing  == [k \in Keys |-> Absent]
Nil == <<NoNode, 0>>
Connections == Nodes \X (Nat \ {0}) \cup {Nil}

Peer(n) == IF n \in peers THEN <<n, gen>> ELSE Nil
FindShard(k) == Peer(OwnerOf(nodes, routing, k))
GetConnectionByNodeId(n) == IF n \in nodes THEN Peer(n) ELSE Nil
Live(x) == x = Peer(x[1]) /\ x # Nil

Idle == [kind |-> "none", pc |-> "idle", node |-> NoNode, auto |-> FALSE, base |-> Nothing,
         todo |-> {}, ask |-> {}, asked |-> {}, dumps |-> {}, looking |-> {}, puts |-> {}, moves |-> {}, wait |-> {}]

Active == {c \in Commands : cmd[c].pc \notin {"idle", "ok", "err"}}

Held(base) == {k \in Keys : base[k] # Absent}

\* Every key is on nodes of the cluster, on several when a migration failed
\* before its deletes, or in what a removal under a strategy without migration
\* left in deletedData, or both when it was written again since.
Init ==
    /\ nodes \in (SUBSET Nodes) \ {{}} /\ routing \in Routings
    /\ undialled \in SUBSET (nodes \cap Undialable)
    /\ peers = nodes \ undialled /\ gen = 1
    /\ \E homes \in [Keys -> SUBSET nodes] :
          /\ storage = [n \in Nodes |-> {k \in Keys : n \in homes[k]}]
          /\ deletedData \in [Keys -> {Absent, Earlier}]
          /\ \A k \in Keys : homes[k] = {} => deletedData[k] = Earlier
    /\ cmd = [c \in Commands |-> Idle]
    /\ sent = {} /\ claimed = {} /\ mixed = FALSE /\ spilled = {}

----------------------------------------------------------------------------
(* The commands up to migrate. *)

\* handleRequest starts the handler of the next command.
Start(c, kind) ==
    /\ cmd[c].pc = "idle" /\ \A d \in 1 .. c - 1 : cmd[d].pc # "idle"
    /\ mixed' = \/ mixed
                \/ kind # "migrateData" /\ (Active # {} \/ sent \cup claimed # {})
                \/ \E d \in Active : cmd[d].kind # "migrateData"

Goto(c, pc) == cmd' = [cmd EXCEPT ![c].pc = pc]

\* Config.AddNode of a node that is new or is there already: its weight becomes
\* one, which under Ring may be another routing.
Reweighted(r) == r = routing \/ {r, routing} \subseteq Ring

\* Mutant: the connections are made before the configuration changes.
AddNodeAppliedFirst(c, n) ==
    /\ Start(c, "addNode")
    /\ peers' = nodes /\ undialled' = {} /\ gen' = gen + 1
    /\ nodes' = nodes \cup {n}
    /\ routing' = routing
    /\ cmd' = [cmd EXCEPT ![c] = [Idle EXCEPT !.kind = "addNode", !.pc = "decide"]]
    /\ UNCHANGED <<dataVars, linkVars, spilled>>

\* addNode: Config.AddNode.
AddNode(c, n) ==
    /\ Start(c, "addNode")
    /\ nodes' = nodes \cup {n}
    /\ \E r \in Routings : Reweighted(r) /\ routing' = r
    /\ cmd' = [cmd EXCEPT ![c] = [Idle EXCEPT !.kind = "addNode", !.pc = "apply"]]
    /\ UNCHANGED <<peerVars, dataVars, linkVars, spilled>>

\* removeNode: the strategy is read, and the victim, if there is one, asked for
\* a dump.
RemoveNode(c, v) ==
    /\ Start(c, "removeNode")
    /\ cmd' = [cmd EXCEPT ![c] = [Idle EXCEPT !.kind = "removeNode", !.pc = "victim", !.node = v,
                                     !.auto = routing \in Automatic, !.asked = {GetConnectionByNodeId(v)}]]
    /\ UNCHANGED <<configVars, peerVars, dataVars, linkVars, spilled>>

\* The dump came.
VictimDump(c) ==
    /\ cmd[c].pc = "victim"
    /\ \E x \in cmd[c].asked :
          /\ Live(x)
          /\ cmd' = [cmd EXCEPT ![c].pc = "store", ![c].asked = {}, ![c].todo = storage[x[1]],
                                ![c].base = [k \in Keys |-> IF k \in storage[x[1]] THEN c ELSE Absent]]
    /\ UNCHANGED <<configVars, peerVars, dataVars, linkVars, mixed, spilled>>

\* Its keys go into deletedData too, one by one.
StoreDeleted(c, k) ==
    /\ cmd[c].pc = "store" /\ k \in cmd[c].todo
    /\ deletedData' = [deletedData EXCEPT ![k] = c]
    /\ cmd' = [cmd EXCEPT ![c].todo = @ \ {k}]
    /\ UNCHANGED <<configVars, peerVars, storage, linkVars, mixed, spilled>>

\* Config.RemoveNode.  The cluster does not become empty.
DropVictim(c) ==
    /\ cmd[c].pc = "store" /\ cmd[c].todo = {}
    /\ nodes \ {cmd[c].node} # {}
    /\ nodes' = nodes \ {cmd[c].node}
    /\ Goto(c, "apply")
    /\ UNCHANGED <<routing, peerVars, dataVars, linkVars, mixed, spilled>>

\* ApplyClusterUpdate, under the lock of the manager: a node that it cannot dial
\* is left without a connection.
Apply(c) ==
    /\ cmd[c].pc = "apply"
    /\ undialled' \in SUBSET (nodes \cap Undialable)
    /\ peers' = nodes \ undialled' /\ gen' = gen + 1
    /\ Goto(c, "decide")
    /\ UNCHANGED <<configVars, dataVars, linkVars, mixed, spilled>>

\* setStrategy, setRanges: the configuration changes, nothing moves.
SetRouting(c, r) ==
    /\ Start(c, "setRouting") /\ r # routing
    /\ routing' = r
    /\ cmd' = [cmd EXCEPT ![c] = [Idle EXCEPT !.kind = "setRouting", !.pc = "ok"]]
    /\ UNCHANGED <<nodes, peerVars, dataVars, linkVars, spilled>>

\* setVnodes, setWeight.
Retune(c, r) ==
    /\ Start(c, "retune") /\ {r, routing} \subseteq Ring
    /\ routing' = r
    /\ cmd' = [cmd EXCEPT ![c] = [Idle EXCEPT !.kind = "retune", !.pc = "decide"]]
    /\ UNCHANGED <<nodes, peerVars, dataVars, linkVars, spilled>>

MigrateData(c) ==
    /\ Start(c, "migrateData")
    /\ cmd' = [cmd EXCEPT ![c] = [Idle EXCEPT !.kind = "migrateData", !.pc = "range", !.todo = Keys]]
    /\ UNCHANGED <<configVars, peerVars, dataVars, linkVars, spilled>>

NeedMigrate(c) ==
    CASE cmd[c].kind = "removeNode" -> cmd[c].auto
      [] cmd[c].kind = "addNode"    -> routing \in Automatic
      [] OTHER                      -> routing \in Ring

\* Mutant: removeNode relies on deletedData for what was on the victim.
DecideWithoutDump(c) ==
    /\ cmd[c].pc = "decide"
    /\ cmd' = IF NeedMigrate(c)
                THEN [cmd EXCEPT ![c].pc = "range", ![c].todo = Keys, ![c].base = Nothing]
                ELSE [cmd EXCEPT ![c].pc = "ok", ![c].base = Nothing]
    /\ UNCHANGED <<configVars, peerVars, dataVars, linkVars, mixed, spilled>>

\* needMigrate: read now, but by removeNode before it waited for the dump.
Decide(c) ==
    /\ cmd[c].pc = "decide"
    /\ cmd' = IF NeedMigrate(c)
                THEN [cmd EXCEPT ![c].pc = "range", ![c].todo = Keys]
                ELSE [cmd EXCEPT ![c].pc = "ok", ![c].base = Nothing]
    /\ UNCHANGED <<configVars, peerVars, dataVars, linkVars, mixed, spilled>>

----------------------------------------------------------------------------
(* migrate. *)

\* deletedData.Range into baseDump, key by key.
Collect(c, k) ==
    /\ cmd[c].pc = "range" /\ k \in cmd[c].todo
    /\ cmd' = [cmd EXCEPT ![c].todo = @ \ {k},
                          ![c].base[k] = IF deletedData[k] # Absent THEN deletedData[k] ELSE @]
    /\ UNCHANGED <<configVars, peerVars, dataVars, linkVars, mixed, spilled>>

Collected(c) ==
    /\ cmd[c].pc = "range" /\ cmd[c].todo = {}
    /\ cmd' = [cmd EXCEPT ![c].pc = "forget", ![c].todo = Held(cmd[c].base)]
    /\ UNCHANGED <<configVars, peerVars, dataVars, linkVars, mixed, spilled>>

\* deletedData.Delete of a key of baseDump, whatever is there now.
Forget(c, k) ==
    /\ cmd[c].pc = "forget" /\ k \in cmd[c].todo
    /\ deletedData' = [deletedData EXCEPT ![k] = Absent]
    /\ cmd' = [cmd EXCEPT ![c].todo = @ \ {k}]
    /\ UNCHANGED <<configVars, peerVars, storage, linkVars, mixed, spilled>>

\* The configuration is read: whom to ask.
Plan(c) ==
    /\ cmd[c].pc = "forget" /\ cmd[c].todo = {}
    /\ cmd' = [cmd EXCEPT ![c].pc = "dump", ![c].todo = Held(cmd[c].base), ![c].ask = nodes]
    /\ UNCHANGED <<configVars, peerVars, dataVars, linkVars, mixed, spilled>>

\* A key of baseDump is to be put where FindShard says.
Place(c, k) ==
    /\ cmd[c].pc = "dump" /\ k \in cmd[c].todo
    /\ cmd' = [cmd EXCEPT ![c].todo = @ \ {k}, ![c].puts = @ \cup {<<FindShard(k), k>>}]
    /\ UNCHANGED <<configVars, peerVars, dataVars, linkVars, mixed, spilled>>

\* Then GetConnectionByNodeId, and a node is asked for its dump.
Ask(c, n) ==
    /\ cmd[c].pc = "dump" /\ cmd[c].todo = {} /\ n \in cmd[c].ask
    /\ cmd' = [cmd EXCEPT ![c].ask = @ \ {n}, ![c].asked = @ \cup {GetConnectionByNodeId(n)}]
    /\ UNCHANGED <<configVars, peerVars, dataVars, linkVars, mixed, spilled>>

\* A shard takes its dump and the answer comes back.
TakeDump(c, x) ==
    /\ cmd[c].pc = "dump" /\ x \in cmd[c].asked /\ Live(x)
    /\ cmd' = [cmd EXCEPT ![c].asked = @ \ {x},
                          ![c].dumps = @ \cup ({x[1]} \X storage[x[1]])]
    /\ UNCHANGED <<configVars, peerVars, dataVars, linkVars, mixed, spilled>>

\* When all nodes are asked: for a key of a dump, FindShard.
LookUpNew(c, d) ==
    /\ cmd[c].todo = {} /\ cmd[c].ask = {}
    /\ cmd[c].looking = {} /\ d \in cmd[c].dumps
    /\ cmd' = [cmd EXCEPT ![c].dumps = @ \ {d},
                          ![c].looking = {[node |-> d[1], key |-> d[2], new |-> FindShard(d[2])]}]
    /\ UNCHANGED <<configVars, peerVars, dataVars, linkVars, mixed, spilled>>

\* Then GetConnectionByNodeId, and the two connections are compared.
LookUpOld(c) ==
    /\ \E l \in cmd[c].looking :
          LET old == GetConnectionByNodeId(l.node)
          IN  cmd' = [cmd EXCEPT
                        ![c].looking = {},
                        ![c].puts  = @ \cup IF l.new # old THEN {<<l.new, l.key>>} ELSE {},
                        ![c].moves = @ \cup IF l.new # old
                                            THEN {[key |-> l.key, new |-> l.new, old |-> old]}
                                            ELSE {}]
    /\ UNCHANGED <<configVars, peerVars, dataVars, linkVars, mixed, spilled>>

Requests(c, kind, S) == {[cmd |-> c, kind |-> kind, to |-> x[1], key |-> x[2]] : x \in S}

\* Every node has answered, and every key is looked at.
Planned(c) ==
    /\ cmd[c].pc = "dump" /\ cmd[c].todo = {} /\ cmd[c].ask = {} /\ cmd[c].asked = {}
    /\ cmd[c].dumps = {} /\ cmd[c].looking = {}

\* Mutant: retrying does not look whether there is a connection.
StartPutsUnchecked(c) ==
    LET puts == Requests(c, "put", cmd[c].puts)
    IN  /\ Planned(c)
        /\ sent' = sent \cup puts
        /\ cmd' = [cmd EXCEPT ![c].pc = "put", ![c].wait = puts]
        /\ UNCHANGED <<configVars, peerVars, dataVars, claimed, mixed, spilled>>

\* Mutant: a connection that was closed is looked up again.
StartPutsLookedUpAgain(c) ==
    LET puts == Requests(c, "put", {<<Peer(p[1][1]), p[2]>> : p \in cmd[c].puts})
    IN  /\ Planned(c)
        /\ sent' = sent \cup {r \in puts : Live(r.to)}
        /\ cmd' = [cmd EXCEPT ![c].pc = "put", ![c].wait = puts]
        /\ UNCHANGED <<configVars, peerVars, dataVars, claimed, mixed, spilled>>

\* The puts go out together; one for a connection that is closed or nil stays.
StartPuts(c) ==
    LET puts == Requests(c, "put", cmd[c].puts)
    IN  /\ Planned(c)
        /\ sent' = sent \cup {r \in puts : Live(r.to)}
        /\ cmd' = [cmd EXCEPT ![c].pc = "put", ![c].wait = puts]
        /\ UNCHANGED <<configVars, peerVars, dataVars, claimed, mixed, spilled>>

\* Mutant: the deletes do not wait for the answers of the puts.
StartDeletesUnwaited(c) ==
    LET deletes == Requests(c, "delete", {<<m.old, m.key>> : m \in cmd[c].moves})
    IN  /\ cmd[c].pc = "put"
        /\ sent' = sent \cup {r \in deletes : Live(r.to)}
        /\ cmd' = [cmd EXCEPT ![c].pc = "delete", ![c].base = Nothing, ![c].puts = {}, ![c].wait = deletes]
        /\ UNCHANGED <<configVars, peerVars, dataVars, claimed, mixed, spilled>>

\* All puts are answered: the deletes.
StartDeletes(c) ==
    LET deletes == Requests(c, "delete", {<<m.old, m.key>> : m \in cmd[c].moves})
    IN  /\ cmd[c].pc = "put" /\ cmd[c].wait = {}
        /\ sent' = sent \cup {r \in deletes : Live(r.to)}
        /\ cmd' = [cmd EXCEPT ![c].pc = "delete", ![c].base = Nothing, ![c].puts = {}, ![c].wait = deletes]
        /\ UNCHANGED <<configVars, peerVars, dataVars, claimed, mixed, spilled>>

End(c, outcome) ==
    cmd' = [cmd EXCEPT ![c] = [Idle EXCEPT !.kind = cmd[c].kind, !.auto = cmd[c].auto, !.pc = outcome]]

Finish(c) ==
    /\ cmd[c].pc = "delete" /\ cmd[c].wait = {}
    /\ End(c, "ok")
    /\ UNCHANGED <<configVars, peerVars, dataVars, linkVars, mixed, spilled>>

\* A deadline passes.  Nothing is undone, what was sent stays on its way, and
\* base is forgotten.
Fail(c) ==
    /\ cmd[c].asked \cup cmd[c].wait # {} /\ cmd[c].todo = {} /\ cmd[c].ask = {}
    /\ spilled' = spilled \cup
          IF cmd[c].pc = "dump" THEN Held(cmd[c].base)
          ELSE {k \in Held(cmd[c].base) : \E r \in cmd[c].wait : r.key = k}
    /\ End(c, "err")
    /\ UNCHANGED <<configVars, peerVars, dataVars, linkVars, mixed>>

----------------------------------------------------------------------------
(* The shards. *)

\* The first copy of a put or delete: AddIfAbsent enters its id.
Claim(r) ==
    /\ sent' = sent \ {r} /\ claimed' = claimed \cup {r}
    /\ UNCHANGED <<configVars, peerVars, dataVars, cmd, mixed, spilled>>

\* Mutant: a request is answered before its id is entered.
AnsweredAtOnce(r) ==
    /\ r \in cmd[r.cmd].wait /\ Live(r.to)
    /\ cmd' = [cmd EXCEPT ![r.cmd].wait = @ \ {r}]
    /\ UNCHANGED <<configVars, peerVars, dataVars, linkVars, mixed, spilled>>

\* The answer comes back on the connection that the copy came on, if that one is
\* still open: that of the first copy when it is applied, that of another as
\* soon as the id is entered.
Answered(r) ==
    /\ r \in cmd[r.cmd].wait /\ r \notin sent /\ Live(r.to)
    /\ cmd' = [cmd EXCEPT ![r.cmd].wait = @ \ {r}]
    /\ UNCHANGED <<configVars, peerVars, dataVars, linkVars, mixed, spilled>>

\* The first copy is applied to the storage.
Perform(r) ==
    /\ claimed' = claimed \ {r}
    /\ storage' = [storage EXCEPT ![r.to[1]] =
                      IF r.kind = "put" THEN @ \cup {r.key} ELSE @ \ {r.key}]
    /\ UNCHANGED <<configVars, peerVars, deletedData, cmd, sent, mixed, spilled>>

Command(c) ==
    \/ \E n \in Nodes : AddNode(c, n) \/ RemoveNode(c, n)
    \/ \E r \in Routings : SetRouting(c, r) \/ Retune(c, r)
    \/ MigrateData(c)
    \/ VictimDump(c) \/ DropVictim(c) \/ Apply(c) \/ Decide(c)
    \/ \E k \in cmd[c].todo : StoreDeleted(c, k) \/ Collect(c, k) \/ Forget(c, k) \/ Place(c, k)
    \/ Collected(c) \/ Plan(c)
    \/ \E n \in cmd[c].ask : Ask(c, n)
    \/ \E x \in cmd[c].asked : TakeDump(c, x)
    \/ \E d \in cmd[c].dumps : LookUpNew(c, d)
    \/ LookUpOld(c)
    \/ StartPuts(c) \/ StartDeletes(c) \/ Finish(c) \/ Fail(c)
    \/ \E r \in cmd[c].wait : Answered(r)

Next ==
    \/ \E c \in Commands : Command(c)
    \/ \E r \in sent : Claim(r)
    \/ \E r \in claimed : Perform(r)

Spec == Init /\ [][Next]_vars

----------------------------------------------------------------------------
(* Properties. *)

RequestType == [cmd : Commands, kind : {"put", "delete"}, to : Connections, key : Keys]
MoveType == [key : Keys, new : Connections, old : Connections]

TypeOK ==
    /\ nodes \subseteq Nodes /\ nodes # {} /\ routing \in Routings
    /\ peers \subseteq Nodes /\ gen \in Nat \ {0} /\ undialled \subseteq Nodes
    /\ storage \in [Nodes -> SUBSET Keys] /\ deletedData \in [Keys -> {Absent} \cup Tags]
    /\ DOMAIN cmd = Commands
    /\ \A c \in Commands :
          /\ DOMAIN cmd[c] = DOMAIN Idle
          /\ cmd[c].kind \in {"none", "addNode", "removeNode", "setRouting", "retune", "migrateData"}
          /\ cmd[c].pc \in {"idle", "victim", "store", "apply", "decide", "range", "forget",
                            "dump", "put", "delete", "ok", "err"}
          /\ cmd[c].node \in Nodes \cup {NoNode} /\ cmd[c].auto \in BOOLEAN
          /\ cmd[c].base \in [Keys -> {Absent} \cup Tags] /\ cmd[c].todo \subseteq Keys
          /\ cmd[c].ask \subseteq Nodes /\ cmd[c].asked \subseteq Connections
          /\ cmd[c].dumps \subseteq Nodes \X Keys
          /\ cmd[c].looking \subseteq [node : Nodes, key : Keys, new : Connections]
          /\ cmd[c].puts \subseteq Connections \X Keys /\ cmd[c].moves \subseteq MoveType
          /\ cmd[c].wait \subseteq RequestType
    /\ sent \cup claimed \subseteq RequestType /\ \A r \in sent \cup claimed : r.to # Nil
    /\ mixed \in BOOLEAN /\ spilled \subseteq Keys

\* Whatever commands change the nodes at the same time, each one's
\* ApplyClusterUpdate reads the configuration under the lock: once none of them
\* is between its change and its update, the connections are those of the
\* nodes, but for nodes that the last update could not dial.
PeersFollowConfig ==
    (\A c \in Commands : cmd[c].pc # "apply") => peers = nodes \ undialled

\* migrate asks for the new connection of a key before the old one.  If an
\* ApplyClusterUpdate comes between, a key that stays on its node seems to move
\* from one connection to another; but the new one is then the older, closed
\* one, its put is never answered, and the delete is not sent.
NoMoveOntoItself ==
    \A c \in Commands : cmd[c].pc = "delete" =>
        \A m \in cmd[c].moves : m.new[1] # m.old[1]

\* A put that a shard has entered but not applied.
Pending(n, k) == \E r \in claimed : r.kind = "put" /\ r.key = k /\ r.to[1] = n

Kept(k) ==
    \/ deletedData[k] # Absent
    \/ \E n \in nodes : k \in storage[n] \/ Pending(n, k)
    \/ \E c \in Commands : cmd[c].base[k] # Absent

\* Between deletedData.Range and the Delete of a key a removeNode may store a
\* newer value of it, which the Delete takes away.  That value is not lost when
\* the removeNode migrates, since it has kept its dump for that; it is lost
\* when the strategy was one under which removeNode does not migrate.
DeletedDataHandedOver ==
    [][\A k \in Keys : deletedData[k] # Absent /\ deletedData'[k] = Absent =>
          \/ \E c \in Commands : cmd[c].base[k] = deletedData[k] /\ cmd'[c].base[k] = deletedData[k]
          \/ deletedData[k] \in Commands /\ ~cmd[deletedData[k]].auto]_vars

\* Migrations that overlap, as when migrateData is repeated while the first one
\* still runs or its late requests still arrive, lose no key between them, also
\* when a put is answered before the shard applies it; it takes a command that
\* changes the configuration meanwhile to lose one.
OverlapLosesNothing == ~mixed => \A k \in Keys \ spilled : Kept(k)

\* When the commands are through and the last one migrated and answered OK,
\* every key is where gets look for it, or about to be put there, those the
\* commands before failed to move and those of nodes that were removed without
\* migration included.
Migrates(c) == cmd[c].kind \in {"migrateData", "retune"}

LastMigrationPlaces ==
    Active = {} /\ ~mixed =>
        \A c \in Commands :
            /\ Migrates(c) /\ cmd[c].pc = "ok"
            /\ \A d \in Commands : d > c => cmd[d].pc = "idle"
            => \A k \in Keys \ spilled :
                  LET n == OwnerOf(nodes, routing, k) IN k \in storage[n] \/ Pending(n, k)

============================================================================
