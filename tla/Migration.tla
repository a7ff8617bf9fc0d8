----------------------------- MODULE Migration -----------------------------
(***************************************************************************)
(* One router.migrate after the other (migrateData, or the one removeNode   *)
(* ends in under the strategies that migrate by themselves), opened up into *)
(* its requests, with clients writing meanwhile.  Cluster commands do not   *)
(* overlap, and shards do not crash.                                        *)
(*                                                                          *)
(* A put or delete of the migration keeps the promise of KVPromise: it is   *)
(* accepted at most once and applied later, its answer may come between the *)
(* two, and a request nobody waits for any more may still be accepted.  A   *)
(* request that is lost is one that is never accepted.                      *)
(***************************************************************************)
EXTENDS Naturals, FiniteSets

CONSTANTS
    Nodes, Keys,
    OwnerOf(_, _),  \* FindShard: owner of a key in a cluster of these nodes
    MaxCommands,    \* bound: cluster commands
    MaxWrites,      \* bound: keys clients write
    Missing,        \* no value
    Old,            \* the value every key has at the start
    New,            \* the value clients put
    NoNode

Values == {Missing, Old, New}

ASSUME MigrationAssumption ==
    /\ \A S \in SUBSET Nodes, k \in Keys : S # {} => OwnerOf(S, k) \in S
    /\ Nodes # {} /\ NoNode \notin Nodes
    /\ MaxCommands \in Nat /\ MaxWrites \in Nat
    /\ Missing # Old /\ Missing # New /\ Old # New

VARIABLES
    nodes,      \* Config.nodes
    storage,    \* [Nodes -> [Keys -> Values]], the removed shards included
    op,         \* where the cluster command is
    outcome,    \* what the last command answered: none, ok, err
    victim,     \* the node being removed
    base,       \* baseDump
    asked,      \* nodes whose dump is awaited
    dumps,      \* the dumps that were answered
    toDelete,   \* <<node, key>> pairs
    sent,       \* puts and deletes on their way
    accepted,   \* claimed by their shard, not applied
    applied,    \* applied, not answered
    awaited,    \* requests the command waits for
    commands,   \* how many commands were started
    latest,     \* history: the last value clients gave a key
    spilled,    \* history: keys of a base whose migration failed
    overtaken   \* history: keys with requests in flight when a victim was dumped

commandVars == <<op, outcome, victim, base, asked, dumps, toDelete, commands>>
requestVars == <<sent, accepted, applied, awaited>>
historyVars == <<latest, spilled, overtaken>>
vars == <<nodes, storage, commandVars, requestVars, historyVars>>

Nothing == [k \in Keys |-> Missing]
Owner(k) == OwnerOf(nodes, k)

Requests == [kind : {"put", "delete"}, node : Nodes, key : Keys,
             value : Values, run : 1 .. MaxCommands]

\* Every key is somewhere in the cluster: where an earlier configuration put it.
Init ==
    /\ nodes = Nodes
    /\ \E home \in [Keys -> Nodes] :
          storage = [n \in Nodes |-> [k \in Keys |-> IF home[k] = n THEN Old ELSE Missing]]
    /\ op = "idle" /\ outcome = "none" /\ victim = NoNode
    /\ base = Nothing /\ asked = {} /\ dumps = [n \in Nodes |-> Nothing] /\ toDelete = {}
    /\ sent = {} /\ accepted = {} /\ applied = {} /\ awaited = {}
    /\ commands = 0
    /\ latest = [k \in Keys |-> Old] /\ spilled = {} /\ overtaken = {}

----------------------------------------------------------------------------
(* The cluster command. *)

\* migrateData
MigrateData ==
    /\ op = "idle" /\ commands < MaxCommands
    /\ op' = "dump" /\ outcome' = "none" /\ commands' = commands + 1
    /\ asked' = nodes
    /\ UNCHANGED <<nodes, storage, victim, base, dumps, toDelete, requestVars, historyVars>>

\* removeNode asks the victim for a dump.
RemoveNode(v) ==
    /\ op = "idle" /\ commands < MaxCommands
    /\ v \in nodes /\ nodes # {v}
    /\ op' = "victim" /\ outcome' = "none" /\ commands' = commands + 1
    /\ victim' = v
    /\ UNCHANGED <<nodes, storage, base, asked, dumps, toDelete, requestVars, historyVars>>

\* The victim's dump, which deletedData keeps until migrate makes it its base.
VictimDump ==
    /\ op = "victim"
    /\ op' = "drop"
    /\ base' = storage[victim]
    /\ overtaken' = overtaken \cup {r.key : r \in sent \cup accepted}
    /\ UNCHANGED <<nodes, storage, outcome, victim, asked, dumps, toDelete, commands,
                   requestVars, latest, spilled>>

\* Mutant: migrate works with the configuration from before the removal.
DropVictimLate ==
    /\ op = "drop"
    /\ op' = "dump"
    /\ nodes' = nodes \ {victim} /\ victim' = NoNode
    /\ asked' = nodes
    /\ UNCHANGED <<storage, outcome, base, dumps, toDelete, commands, requestVars,
                   historyVars>>

\* config.RemoveNode, ApplyClusterUpdate, and migrate starts.
DropVictim ==
    /\ op = "drop"
    /\ op' = "dump"
    /\ nodes' = nodes \ {victim} /\ victim' = NoNode
    /\ asked' = nodes'
    /\ UNCHANGED <<storage, outcome, base, dumps, toDelete, commands, requestVars,
                   historyVars>>

\* A shard of the new configuration takes the dump that migrate will use.
DumpNode(n) ==
    /\ op = "dump" /\ n \in asked
    /\ asked' = asked \ {n}
    /\ dumps' = [dumps EXCEPT ![n] = storage[n]]
    /\ UNCHANGED <<nodes, storage, op, outcome, victim, base, toDelete, commands,
                   requestVars, historyVars>>

Strays(k) == {n \in nodes : dumps[n][k] # Missing /\ n # Owner(k)}

\* Mutant: base is forgotten.
CandidatesOfDumps(k) ==
    IF Strays(k) # {} THEN {dumps[n][k] : n \in Strays(k)} ELSE {Missing}

\* The values that may be put to the owner of k, the last stray in map order
\* winning over the others and over base.
Candidates(k) ==
    IF Strays(k) # {} THEN {dumps[n][k] : n \in Strays(k)} ELSE {base[k]}

Request(kind, n, k, v) ==
    [kind |-> kind, node |-> n, key |-> k, value |-> v, run |-> commands]

Issue(requests) ==
    /\ sent' = sent \cup requests
    /\ awaited' = requests

\* All dumps are in: the puts go out together.
StartPuts ==
    /\ op = "dump" /\ asked = {}
    /\ op' = "put"
    /\ \E toPut \in [Keys -> Values] :
          /\ \A k \in Keys : toPut[k] \in Candidates(k)
          /\ Issue({Request("put", Owner(k), k, toPut[k]) :
                      k \in {l \in Keys : toPut[l] # Missing}})
    /\ toDelete' = UNION {Strays(k) \X {k} : k \in Keys}
    /\ dumps' = [n \in Nodes |-> Nothing]
    /\ UNCHANGED <<nodes, storage, outcome, victim, base, asked, commands,
                   accepted, applied, historyVars>>

\* All puts are answered: the deletes go out together.
StartDeletes ==
    /\ op = "put" /\ awaited = {}
    /\ op' = "delete"
    /\ base' = Nothing
    /\ toDelete' = {}
    /\ Issue({Request("delete", d[1], d[2], Missing) : d \in toDelete})
    /\ UNCHANGED <<nodes, storage, outcome, victim, asked, dumps, commands,
                   accepted, applied, historyVars>>

\* Mutant: the command does not wait for the deletes.
FinishAtOnce ==
    /\ op = "delete"
    /\ op' = "idle" /\ outcome' = "ok"
    /\ awaited' = {} /\ applied' = {}
    /\ UNCHANGED <<nodes, storage, victim, base, asked, dumps, toDelete, commands,
                   sent, accepted, historyVars>>

\* All deletes are answered.
Finish ==
    /\ op = "delete" /\ awaited = {}
    /\ op' = "idle" /\ outcome' = "ok"
    /\ UNCHANGED <<nodes, storage, victim, base, asked, dumps, toDelete, commands,
                   requestVars, historyVars>>

\* A deadline passes: the command answers its error.  Nothing is undone, the
\* requests on their way stay on their way, and base is forgotten.
Fail ==
    /\ op = "victim" \/ asked # {} \/ awaited # {}
    /\ op' = "idle" /\ outcome' = "err"
    /\ spilled' = spilled \cup
          {k \in Keys : base[k] # Missing /\ (op = "dump" \/ \E r \in awaited : r.key = k)}
    /\ victim' = NoNode /\ base' = Nothing /\ asked' = {}
    /\ dumps' = [n \in Nodes |-> Nothing] /\ toDelete' = {}
    /\ awaited' = {} /\ applied' = {}
    /\ UNCHANGED <<nodes, storage, commands, sent, accepted, latest, overtaken>>

----------------------------------------------------------------------------
(* The requests of the migration at their shards, and the clients. *)

Accept(r) ==
    /\ sent' = sent \ {r}
    /\ accepted' = accepted \cup {r}
    /\ UNCHANGED <<nodes, storage, commandVars, applied, awaited, historyVars>>

\* storage.Put or storage.Delete.
Apply(r) ==
    /\ accepted' = accepted \ {r}
    /\ applied' = IF r \in awaited THEN applied \cup {r} ELSE applied
    /\ storage' = [storage EXCEPT ![r.node][r.key] = r.value]
    /\ UNCHANGED <<nodes, commandVars, sent, awaited, historyVars>>

Answer(r) ==
    /\ r \in accepted \cup applied
    /\ awaited' = awaited \ {r}
    /\ applied' = applied \ {r}
    /\ UNCHANGED <<nodes, storage, commandVars, sent, accepted, historyVars>>

\* A put (New) or delete (Missing) of a client, at the owner of the moment; one
\* for each key.
ClientWrite(k, v) ==
    /\ latest[k] = Old
    /\ Cardinality({l \in Keys : latest[l] # Old}) < MaxWrites
    /\ latest' = [latest EXCEPT ![k] = v]
    /\ storage' = [storage EXCEPT ![Owner(k)][k] = v]
    /\ UNCHANGED <<nodes, commandVars, requestVars, spilled, overtaken>>

----------------------------------------------------------------------------

Command ==
    \/ MigrateData \/ VictimDump \/ DropVictim
    \/ StartPuts \/ StartDeletes \/ Finish \/ Fail
    \/ \E n \in Nodes : RemoveNode(n) \/ DumpNode(n)

Next ==
    \/ Command
    \/ \E r \in sent : Accept(r)
    \/ \E r \in accepted : Apply(r)
    \/ \E r \in awaited : Answer(r)
    \/ \E k \in Keys, v \in {New, Missing} : ClientWrite(k, v)

Spec == Init /\ [][Next]_vars

----------------------------------------------------------------------------
(* Properties. *)

TypeOK ==
    /\ nodes \subseteq Nodes /\ nodes # {}
    /\ storage \in [Nodes -> [Keys -> Values]]
    /\ op \in {"idle", "victim", "drop", "dump", "put", "delete"}
    /\ outcome \in {"none", "ok", "err"}
    /\ victim \in nodes \cup {NoNode}
    /\ op \in {"victim", "drop"} <=> victim # NoNode
    /\ base \in [Keys -> Values]
    /\ asked \subseteq nodes
    /\ dumps \in [Nodes -> [Keys -> Values]]
    /\ toDelete \subseteq nodes \X Keys
    /\ sent \cup accepted \cup applied \cup awaited \subseteq Requests
    /\ commands \in 0 .. MaxCommands
    /\ latest \in [Keys -> Values]
    /\ spilled \subseteq Keys /\ overtaken \subseteq Keys

\* The keys migrations alone decide about: clients left them alone, no failed
\* removal dropped their last copy, and no request for them was overtaken by a
\* change of the cluster.
Settled(k) == latest[k] = Old /\ k \notin spilled \cup overtaken

Pending(kind, n, k) ==
    \E r \in accepted : r.kind = kind /\ r.node = n /\ r.key = k

\* At every instant of a migration, of one that fails half-way, and of the next
\* one that repeats it, a key is on a node of the cluster, on its way to one, or
\* in the dump of the victim the router still works on (migrate, removeNode).
NothingLost ==
    \A k \in Keys : Settled(k) =>
        \/ \E n \in nodes : storage[n][k] = Old \/ Pending("put", n, k)
        \/ base[k] = Old

\* A command answered OK, possibly after failed ones, has put every key to its
\* owner and off every other node, but for what a shard accepted and has yet to
\* apply.
SuccessPlaces ==
    op = "idle" /\ outcome = "ok" =>
        \A k \in Keys : Settled(k) =>
            /\ storage[Owner(k)][k] = Old \/ Pending("put", Owner(k), k)
            /\ \A n \in nodes \ {Owner(k)} :
                  storage[n][k] # Missing => Pending("delete", n, k)

\* What the assignment shows after a migration, that every get is correct, for
\* a key a client wrote; the code puts the value of the dump over it.
WritesSurvive ==
    op = "idle" /\ outcome = "ok" =>
        \A k \in Keys : latest[k] # Old => storage[Owner(k)][k] = latest[k]

============================================================================
