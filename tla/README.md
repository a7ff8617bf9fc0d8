# TLA+ models of Sharding-Storage

Sharding-Storage is an in-memory key-value store in Go: a router keeps the
cluster configuration and forwards requests to shard processes, a CLI sends
commands to the router. This directory holds TLA+ modules of its logic, the TLC
configurations that check them, and proofs checked by TLAPS. `PROJECT.json` maps
every definition to the source lines it models.

Run a model with `tlc -config X.cfg M`, check proofs with `tlapm M.tla`.

## The system

| Component | State | Operations |
| --- | --- | --- |
| Router, client requests (`internal/router/router.go`) | one handler goroutine a request, its context with a 5 s deadline, one retrying goroutine | `put`, `get`, `delete`, `dump`, `rangeGet` |
| Router, cluster commands (same file) | `deletedData`, the dump of removed nodes | `addNode`, `removeNode`, `setStrategy`, `setVnodes`, `setRanges`, `setWeight`, `migrateData`, `clusterInfo`, `ringInfo` |
| Router, migration (`migrate`) | dumps, `toPut`, `toDelete` of one run | dump all nodes, put to new owners, delete from old ones |
| ConnectionManager (`pkg/tcp/manager.go`) | `responses` (id to Data, cancel, context), `peers` (address to connection) | `CreateResponse`, `SetResponse`, `GetResponse`, `FindShard`, `BuildRing`, `ApplyClusterUpdate`, the reconnect loop |
| Connection (`pkg/tcp/connection.go`) | socket, writer channel of 1024, `done` | `Send`, `Reconnect`, `Close`, writer and reader loop |
| Config (`internal/inmemory/config.go`) | nodes, weights, strategy, vnodes, ranges | a setter for each, `AsDto` |
| Shard (`internal/shard/shard.go`) | storage, deduplication | put, delete, get, dump, one goroutine a message |
| Deduplication, Storage (`internal/inmemory`) | ids with their time; a map | `AddIfAbsent`, vacuum; `Put`, `Get`, `Delete`, `Dump` |
| CLI (`internal/cli`) | the address of the router | one request and one answer a command |
| Protocol, entry points, `random`, scripts, benchmark | none | constructors, flags, load generation |

How they interact. A client message is read by a connection of the router, goes
through one channel, and gets a goroutine of its own. A handler enters its id in
the response table, asks `FindShard` for a connection, starts `retrying`, and
blocks on its context. `retrying` sends the request at once and every second
until the context is done. The shard answers on the connection the request came
by; the router's handler of the answer stores Data in the entry of the id and
cancels the context. The waiting handler reads the entry with `GetResponse`.
Cluster commands change `Config`, redial every shard with `ApplyClusterUpdate`,
and run `migrate`, whose dumps, puts and deletes use the same table and the same
retries. Everything runs concurrently and nothing recovers a panic.

What is hard about it:

- *Retries.* Copies of one request race each other, the deadline, and the
  answer. `AddIfAbsent` and the storage operation are two steps.
- *The response table.* Late and repeated answers, timed-out entries, requests
  that share an id, and the order of storing Data and cancelling.
- *Routing.* Three functions of the configuration that index into slices whose
  lengths other commands change; `setRanges` and `setStrategy` move no key.
- *Migration.* Many requests, each with a deadline, no undo, clients writing
  meanwhile, and requests that arrive after their command gave up.
- *Failure.* Connections drop with messages in them; a restarted shard has
  neither data nor deduplication.

What makes each part correct: a write reaches the storage once and its answer
says something true; every call is answered; the table holds what is waited for;
every key is where the strategy looks for it, and no command loses one; a ring
moves no more than it must; a migration that says OK has placed every key.

## The modules

| Module | Models |
| --- | --- |
| `RequestPath` | put, delete and get from the handler to the shard and back |
| `KVPromise` | the abstract store that the request path implements |
| `RequestPathProofs` | theorems about `RequestPath` |
| `Routing` | the three strategies, as operators on a configuration record |
| `RoutingProofs` | theorems about the strategies |
| `ClusterConfig` | `Config`, the cluster commands and the data they move, one after the other; uses `Routing` |
| `ClusterConfigProofs` | theorems about `ClusterConfig`; uses `RoutingProofs` |
| `Migration` | commands that migrate, request by request, and clients that write meanwhile |
| `MigrationProofs` | theorems about `Migration` |
| `ClusterCommands` | cluster commands that overlap, step by step, and the connections they replace |
| `ClusterCommandsProofs` | theorems about `ClusterCommands` |
| `RangeGet` | `rangeGet` and `dump`: the fan-out, the merge, the shards changing meanwhile; uses `Routing` |
| `RangeGetProofs` | theorems about `RangeGet`; uses `RoutingProofs` |
| `Connection` | one `tcp.Connection`: `Send`, its loops, `Reconnect`, `Close` |
| `ConnectionProofs` | theorems about `Connection` |
| `Deadlines` | the CLI's commands, the router's deadlines and the vacuum of the deduplication, in time |
| `DeadlinesProofs` | theorems about `Deadlines` |
| `MCRequestPath`, `MCClusterConfig`, `MCMigration`, `MCClusterCommands`, `MCRangeGet` | the constants of the checked instances |

**RequestPath.** The configuration is fixed here. `phase`, `ctx` and `answer`
are the handler and its context; `responses` maps an id to the call whose entry
the table holds, `data` is its Data; `retrier` and `sends` are `retrying`. A send
is an attempt, and `stage` says where its message, or the goroutine that handles
it, is: `request`, `claimed` (between `AddIfAbsent` and the storage), `reply`,
`notify` (Data stored, context not cancelled), `done`. `storage`, `dedup` are the
shard's. The stored value of a put is its id, so that a value tells its write.
The entry that `SetResponse` found is kept in `ready` until `Cancel`, as the code
keeps `cancelFunc` after the unlock. `AnswerPanics` is the nil dereference of
`GetResponse` or the type assertion on nil Data; it ends the router. `Lose` is a
connection that drops with the message in a buffer, `Crash` a shard process that
is restarted. `applied`, `wiped`, `seen` are history.

`retrier` says whether the retrying goroutine is in a `Send` or in its `select`. A
`Send` may come through late, after the answer, or never: the writer channel may be
full, and stays so once the reconnect loop has given up (`Connection`). A shard in
`Undialed` is one that `ApplyClusterUpdate` may have failed to dial: a call to it
finds a connection, or nil.

**KVPromise.** A call is answered once, with a result or a timeout; a write takes
effect at most once between two crashes of its shard, never before its call; an
`Ack` means accepted, its effect may follow; a get answers a value its key had
during the call. The refinement maps `status` of an id to applied, accepted (in
`dedup`) or none.

**Routing.** Ids, keys and boundaries are strings that the code only compares, so
they are numbers. `KeyHash` and `PointHash` are constant operators, with the
assumption `NoCollision` that two points of the ring differ. `FindShardPanics`
and `RangeGetPanics` say when the code indexes out of a slice or divides by zero.

**ClusterConfig.** Each command is one action that does everything its handler
does, the migration included, when every shard answers and nothing else runs.
The shard of a removed node keeps its data, as in the code. `latest` and `writes`
are history. `due` is history too: the cluster owes its operator a `migrateData`,
after `setStrategy`, or after `addNode`, `removeNode`, `setRanges` under range.

**Migration.** One command at a time; `op` is the point it has reached. `asked`
are the dumps it waits for, `awaited` the puts or deletes. Requests follow
KVPromise: `sent`, then `accepted`, then applied, the answer possible from
`accepted` on. `Fail` is a deadline at any stage: the requests of the failed
command stay in flight and may be accepted during the next one. Only the
strategies that migrate in `removeNode` are here (hash, consistent): `deletedData`
is then emptied into `base` within the command. The owner of a key is a constant
function of the set of nodes. A client write is atomic and goes to the owner of
the moment. `spilled` and `overtaken` are history: keys of a removed node whose
migration failed, and keys with a request still in flight when a victim was
dumped. The properties leave them out by name, since the code does lose them.

**ClusterCommands.** Each command is a handler with its own program counter and
local variables (`cmd`), and reads the configuration, the connections and
`deletedData` where the code does: `removeNode` reads the strategy before it
waits for the dump, `addNode` after `ApplyClusterUpdate`; `migrate` ranges over
`deletedData` key by key (`Collect`), deletes key by key (`Forget`), reads the
configuration (`Plan`), looks up the owner of each key of `base` (`Place`), then a
connection for each node (`Ask`), and for each key of a dump the new connection
before the old one (`LookUpNew`, `LookUpOld`). Of the values only those of
`deletedData` matter here: an entry is the command that stored it, so that a newer
value shows. A connection is <<node, generation>>; `ApplyClusterUpdate` starts a
new generation, without the nodes it cannot dial (`undialled`); what is sent on an
old one goes nowhere, what was sent on it may arrive but is not answered. A shard
enters a put or delete in its deduplication (`Claim`) and applies it later
(`Perform`); it may be answered from the first of the two on (`Answered`), since a
retry of it is a duplicate then. `addNode` of a node that is there resets its
weight, which may be another routing (`Reweighted`). `setVnodes` and `setWeight`
are `Retune`, `setStrategy` and `setRanges` `SetRouting`; a routing is a value that
`OwnerOf` reads. `mixed` marks the histories in which a command that changes the
configuration met another one: those do lose keys, and the properties about keys
leave them out by name.

**RangeGet.** The requests have entries, contexts and retries of their own, as in
`RequestPath`; the handler reads them in any order, as the range over a Go map
does. `Write` is anything another request may do to a shard, of a client or of a
migration, in any order, so that what is shown does not rest on `Migration`.
`held` and `seen` are history: what a node stored throughout the call, and what
it stored at some instant of it. `dump` is the case of one node and all keys.

**Connection.** `conn` is the socket under the mutex; `wsock` and `rsock` are the
sockets whose writer and reader the loops hold outside it. A message is the
number of its accepted `Send`. `DropConn` drops whatever socket is current, as
the code does, so that the loop with an error of an old socket drops a new one
(`stale` counts it). `Dial` and `Install` are the two halves of `Reconnect`, and
`Close` may come between them (`crossed`). The connection of a peer is dialled,
reconnected and closed; one that was accepted is none of these.

**Deadlines.** Time is a number, and an action that is due before `Pass` may pass
blocks it. A CLI command is a sequence of requests (`Commands`), a request a
sequence of rounds at the router (`Follow`), of which each has its own five
seconds. Copies of the request of a round arrive at any time from its first `Send`
on (`underWay`): a `Send` may wait past the deadline, the writer channel outlives a
socket. `holder` is the handler that is in `ApplyClusterUpdate`, which keeps the lock
of the manager for as long as it dials; meanwhile no request is accepted, no entry
made, no response set and none read (`Free`). `heldUp` is history: the requests for
which time passed so. `store` says when an id was added, `last` when its write was
applied. The vacuum finds the old ids under one lock and deletes them under
another, with the time of its tick.

## What is checked

| Run | Instance | Shows |
| --- | --- | --- |
| `request_safety` | a put called twice under one id and a delete of its key, each sent once, one crash; 516k states | `AtMostOnce`, `AckedIsClaimed`, and `KeepsPromise`: refinement of `KVPromise`, even when the router panics |
| `request_live` | a put, and a get sent twice, to a shard that may be without a connection, one crash, with fairness; 58k states | `EveryCallAnswered`, `RetryingStops`, `KeepsLivePromise`, `GetReadsDuringCall`, `RouterStaysUp`, `TableKeepsOnlyTimeouts` |
| `range_get` | two nodes, one key, one of the requests retried, two writes of others, with fairness; 188k states | `AnswersWhatWas`, `FindsWhatStays`, `ReadsNoNil`, `CallEnds` |
| `cluster_config` | three nodes, two keys, two writes, ranges over two boundaries, two vnodes, weight two for one node, from the empty cluster; 181k states | `PlacementFollowsRouting`, `CommandKeepsData`, `MinimalMovement`, `RangeGetComplete` |
| `migration` | two commands, three nodes, two keys placed anywhere, one client write; 2.0M states | `NothingLost`, `SuccessPlaces` |
| `commands` | two commands of any kind, two nodes, one of which may not be dialled, one key that is anywhere, three routings; 2.1M states | `PeersFollowConfig`, `NoMoveOntoItself`, `OverlapLosesNothing`, `LastMigrationPlaces`, `DeletedDataHandedOver` |
| `connection` | three sockets, three sends, a channel of one, two attempts, two faults, with fairness; 200k states | `WritesKeepOrder`, `NoSocketLeaks`, `ClosedHoldsNone`, `SendsComplete`, `Reconnects`, `LoopsEnd` |
| `deadlines` | three requests of the CLI, three rounds, deadlines 2, 5 and 3, a period of 2, a delay of 1, eight units of time; 2.6M states | `RepeatsAreOld`, `ForgottenInTime`, `GivesUpWhenHeldUp` |

Each of them also checks its module's `TypeOK` (`request_live` shares the one of
`request_safety`).

The bounds. In `request_safety` the two copies of a request are those of two
calls that share an id, in `request_live` and `request_ack_before_apply` those
of two sends of one call: a duplicate, a second answer, an answer after a
timeout, a tick that competes with the end of the context. A third copy behaves
like the second; that more sends and more calls make no difference to safety is
in the theorems. One key is where all requests meet; requests for different keys
share nothing but the table, which is per id. A crash comes between any two
steps. In `cluster_config` and `migration` three nodes let a key move between
two of them while the third stands by, give range a middle node, and let a node
leave and come back. On the ring of `MCClusterConfig` a key meets a point
exactly and another lies past the last point. Two migrations let a command meet
the leftovers of a failed one, and two commands are enough for each overlap of a
pair. In `commands` one key stands for all, since migrations treat keys alike,
and two nodes are the old and the new one; of the routings two are those of a
ring, so that weights can change, and one does not migrate. The key may start on
any set of nodes, or in `deletedData`. In `connection` a socket that nobody
holds is used again, so three are enough for any number of reconnects; a channel
of one fills with the second message, and `MaxStale` bounds how often a
reconnect overtakes a loop with an error in hand: the reconnect loop ticks every
500 ms, and the loop is a few instructions from its drop. In `range_get` the
second answer of a node may replace the first, with a put and a delete between;
two writes are a move. In `deadlines` the numbers keep the order of the code's
10 s, 5 s, 5 min and 60 s where it matters: a round and two ways are less than
the CLI's read, two rounds and two ways are not, and the clock runs long enough
for an id to be forgotten and applied again. The explored graphs are complete
under these bounds.

Four runs expect a violation: each states what the repository's documents say and
TLC shows the code does otherwise.

| Run | What happens | Against |
| --- | --- | --- |
| `request_ack_before_apply` | the retry of a put is acknowledged as a duplicate before the first copy reached the storage | `README.md:85`, `homework-05-sharding.md:50` |
| `cluster_stale_read` | a removed node keeps its keys; added again, it brings back a deleted one | `README.md:635` |
| `cluster_panics` | a request to a cluster without nodes ends the router | `homework-05-sharding.md:178` |
| `migration_overwrites` | a client write during a migration is overwritten by the dumped value | `homework-05-sharding.md:242` |

`homework-05-sharding.md:191` allows `setStrategy` on an empty storage only, or with
`--force`; the code accepts it always (`router.go:216`) and moves nothing. This one has
no run of its own: `ClusterConfig` has the command as the code does, `due` marks that
keys are not where gets look for them until a `migrateData`.

## Fairness

All of it is weak. `FairSpec` of `RequestPath`: the deadline of a context fires, a
handler whose context is done goes on, a retrying goroutine that is in its `select`
sees that its context is done, a goroutine of the shard that has claimed an id goes
on to the storage, `SetResponse` goes on to call `cancelFunc`. These are runnable
goroutines and timers of the Go runtime. `select` with a tick and a done context
both ready chooses at random; weak fairness of the second is enough because the
number of sends is bounded, as the 5 s deadline does in the code but for the sends
that block. Nothing is assumed of a `Send`, which may wait for ever, of the ticks, of
the clients, of the link, or of the shard's reading a message: `RetryingStops` says
that the goroutine ends or stays in one `Send`.

`FairSpec` of `RangeGet`: deadlines fire, and the handler goes on when the context
it waits for is done. Nothing else, so that a call ends with all shards silent.

`FairSpec` of `Connection`: the three loops run, `Close` goes on, and one of the
blocked senders goes on when its `select` can. The reader's loop includes that a
read from a broken socket returns its error some time, which is an assumption about
TCP: a peer that vanishes without a word may hold it longer. That a socket breaks, or
that a dial succeeds, is not assumed: `Reconnects` says what holds while the shard is
down. `Deadlines` states time as safety and needs no fairness; that the messages
between the CLI and the router take no longer than `Delay` is its assumption about
the network, and nothing is assumed about those between the router and the shards.

## What is proved

Every theorem holds for all values of the constants that meet the named
assumptions of its module, which the runs evaluate for their instance.

`RequestPathProofs`, for all calls, ids, keys, shards and bounds, from
`RequestAssumption` and `SentinelAssumption`:

- `TypeCorrect`: `Spec => []TypeOK`.
- `DedupInvariant`, `AtMostOnceHolds`: that an id is applied at most once is not
  inductive: one must know that claimed and applied ids are in `dedup`, that an
  id in `dedup` was applied or has a claim (`ClaimInv`), and that attempts above
  `sends` are unsent (`UnsentInv`), so that a new send disturbs no claim.
- `AckedIsClaimedHolds`: `AckInv` follows the acknowledgement backwards, from the
  answer over Data and the reply in flight to the claim, and across a crash.
- `RouterStaysUpHolds`, `TableKeepsOnlyTimeoutsHolds`: `TableInv` says whose the
  entry of an id is at every stage of a call and of its attempts, and that a
  cancelled context has its Data. They assume `UniqueIds`; without it the first
  one is false: of two calls with one id the second handler finds the entry
  deleted, and the router ends (`manager.go:128`).
- `GetReadsDuringCallHolds`: `ReadInv` carries a read value from the storage to
  the answer. It assumes `OwnGetIds`, which only asks that no other call shares the
  id of a get: writes may repeat theirs, as the calls of `request_safety` do.
- `KeepsPromiseHolds`: `RequestPath` implements `KVPromise`, under `OwnGetIds`. The
  initial states map to initial states. A step of the router is a call, an answer
  or a stutter; a step of an attempt is a stutter, or one at the shard that makes
  the status of an id accepted or applied; a crash maps to a crash. The steps need
  `DedupInv` (an id takes effect once), `AckInv` (what is acknowledged was
  accepted), `ReadInv` (what a get returns was there) and `WriteInv` (a write is
  answered with nothing but OK).

`RoutingProofs`, from `RoutingAssumption` and `NoCollision`:

- `NodeAtInCluster` (a lemma): the slice sorted by id has a node at each index.
  The least of the nodes with `i` or more others before them has exactly `i`:
  with more, the last of those before it would be smaller and have `i` too.
- `OwnerInCluster`: under every strategy the owner is a node of the cluster;
  `RingOwnerInCluster` is the case of the ring.
- `RangeGetAsksOwner`: a range query asks the owner of each of its keys. The
  boundary at which `rangeBasedStrategy` stops is above the key and the one
  before it is not, which is all the handler's comparisons need: the boundaries
  do not have to be sorted.
- `RingGrows`: with more points a key stays or moves to a new point. The
  argument: the nearest point of the larger ring, if it is one of the old ones,
  is the least of a set that contains the old candidates, so it is the nearest
  of the smaller ring as well; points with equal hashes are equal.
- `AddedNodeTakesOnly`: a node that is added takes keys, and no other key moves;
  read backwards, this is the removal of a node.

`ClusterConfigProofs`, from `ConfigAssumption` and the assumptions of `Routing`.
`MigratePlaces` says what one migration leaves: every key the nodes or `base` had
is at its owner and on no other node of the cluster, with one of the values it
came with. `CommandKinds` says that each command either migrates, removes a node,
or leaves the keys where they are because the routing is the same or the cluster
owes a `migrateData`.

- `TypeCorrect`; the configuration is always one that `RoutingProofs` speaks of.
- `RangeGetCompleteHolds`, from `RangeGetAsksOwner`.
- `PlacementFollowsRoutingHolds`: inductive with `TypeOK`, by the kinds of commands.
- `CommandKeepsDataHolds`: a migration of a tidy cluster has one value to choose.
- `MinimalMovementHolds`, from `AddedNodeTakesOnly`. `PlacementFollowsRouting` and
  the ring say that a key changes its node only for the one that is added; but
  a node that comes back brings the keys its shard still has, and these must not
  send a key to a node that had none. That takes `NeverGone`: a key that was
  written and not deleted has a value on a node of the cluster or in `deletedData`,
  as long as the router is up. So the key the shard brings back is one whose
  owner among the others had it already.

`MigrationProofs`, from `MigrationAssumption` (there is a node, and the values
differ). `NothingLost` is not inductive, since a delete in flight could remove the
last copy. `IInv` adds: where a command is and what it then holds (`Stages`); that
a key the clients left alone is `Old` wherever it is (`OldOnly`); that puts go to
the owner and deletes to other nodes, unless the key is overtaken (`Aimed`); that a
delete exists only when the owner has the key or has accepted it
(`DeletesFollow`), which a late delete of a failed command keeps true because the
owner never loses a key to one; that `base` is what the victim has, with nothing in
flight to change it (`VictimDumped`); and what a command still has to do for a key
that is not where it belongs (`OnItsWay`): a dump to take, a put to wait for, a
delete to wait for. This gives `TypeCorrect`, `NothingLostHolds` and
`SuccessPlacesHolds`, for any number of commands, failed ones included.

`RangeGetProofs`, from `RangeGetAssumption`: `IInv` follows a dump from the shard
over the reply and the entry into `totalDump`. At each place it has all its node
stored throughout the call and nothing it did not store during it (`DumpsTaken`,
`Merged`); a source is still to be read or its keys are merged; a cancelled
context has its Data (`Waiting`). `RangeGetAsksOwner` says that the owner is a
source. This gives `FindsData`, `AnswersTruly` and `MissesNothingThatStays`.

`ConnectionProofs`, from `ConnectionAssumption`: `Inv` adds to `TypeOK` where the
reconnect loop is and what `conn` is then (`Reconnecting`): `Reconnect` finds no
other socket installed. With it `LeaksNoSocket`, `ClosedIsEmpty` (where a connection that
`Close` is through with is done) and `WritesInOrder` are inductive.

`DeadlinesProofs`, from `DeadlinesAssumption` (a round and two ways are less than the
CLI's read; nothing about how late copies are):

- `TypeCorrect`, with the rounds that handlers wait for (`HandlersOfRounds`) and the
  requests a script has left (`ScriptFits`).
- `ForgetsInTime`, from `Timed` and `Recent`: the vacuum's next tick is never more than a
  period away, at the last one no id was old but those found, and these are deleted
  before the next.
- `RepeatsOld`, from `Forgotten`: an id that is in the store was added when its write was
  applied last, and one that is no longer there was deleted when it was old.
- `AnswersInTime`, from `Hears`: the deadline of a round and the ways of the request and
  its answer end before the CLI's read (`InTime`), unless time passed under the lock
  while the request was at the router.

`ClusterCommandsProofs`, from `ClusterCommandsAssumption`. `IInv` says of each handler,
besides its types, where it waits for what (`Stages`); that a move whose new
connection is of the node of its old one is of two generations, so that its put
stays unanswered (`Overtaken`); and who has what `deletedData` holds (`InHand`): a
`removeNode` that migrates keeps in `base` what it stored, until after its own
`Delete` of it, and a migration past `Range` of a key has what was there before the
commands. This gives `TypeCorrect`, `MovesBetweenNodes` and `HandsOver`: the value that
a `Delete` takes away without having read it is in the `base` of the `removeNode` that
stored it. `PeersFollow` is inductive with it: who has changed the nodes has its own
update before it, and the last update reads what all have changed.

`OverlapLosesNothingHolds` and `LastMigrationPlacesHolds`, for any number of
migrations at a time, rest on `OInv`: `IInv`, `Order` (commands start one after the
other; where a handler has a `base`) and, as long as `mixed` is false, `Overlap`. A key
is at home (`AtHome`) when its owner stores it or has entered a put of it.

- `Alone`: a command that changes the configuration is the only one, with nothing
  in flight before its puts; until it has decided whether to migrate, its `base` is in
  `deletedData` too.
- `Plans`: a handler's puts are for the owners of the day, and each key of its `base`
  is among them or still to be looked up; what it moves is among them, and not from
  its owner; what a dump has of a key at its owner is at home; a put that is no
  longer waited for has brought its key home.
- `Flights`: puts on their way or entered go to owners, deletes to other nodes and for
  keys that are at home. Hence a key that is at home stays there, whichever migration
  a late request belongs to.
- `Gathered`: a migration past `Range` and `Delete` of a key has it in its `base`; from the
  time it has emptied `deletedData` it has found or will find every key that is neither
  at home nor in a `base`; when its puts are answered every key is one or the other.
- every key that is not `spilled` is in `deletedData`, on a node of the cluster or about
  to be stored there, or in a `base`.

`Onward` says what each step keeps of this: homes, keys that are safe, and that
nothing is added to `deletedData`. A handler that ends forgets its `base`; by `Plans` its
keys are at home, or `spilled` has them. When the last migration has answered OK and
no handler is left, all `base` are empty, and what `Gathered` says is that all keys are
at home.

Only model-checked: liveness (`EveryCallAnswered`, `RetryingStops`, `KeepsLivePromise`,
`CallEnds`, `SendsComplete`, `Reconnects`, `LoopsEnd`), which is out of the prover's
reach. Every invariant and action property of the passing runs is a theorem.

## What is not modelled, and why

- The messages' JSON, the entry points, `random`, scripts and benchmark: no state
  of their own. The CLI's fresh ids are the assumption `UniqueIds`.
- The CLI's parsing and printing, and a dial or write of it that fails; what
  `clusterDump` and `stats` make of dumps taken one after the other.
- What a shard's crash does to a migration: it loses what the shard stores, with
  or without one. Crashes are in `RequestPath`. A put that is answered as a duplicate
  counts as kept in `ClusterCommands` and `Migration` once the shard has entered it.
- Keys under commands that overlap and change the configuration: the code gives
  no promise about them, and `mixed` marks those histories.
- That a message between the CLI and the router takes longer than a fixed time: then
  the CLI may give up on anything.
- What time means outside `Deadlines`: in the other modules a deadline may expire at
  any instant.
- The statistics `migrate` logs.

## Plan

In the order of importance:

1. *(done)* `RequestPath` with `KVPromise`, its proofs.
2. *(done)* `Routing`, `ClusterConfig`, the theorems about the strategies.
3. *(done)* `Migration` with one command at a time.
4. *(done)* `ClusterCommands`: commands that overlap, the configuration read when
   each step needs it, connections compared by generation, nodes that cannot be
   dialled, puts answered before they are stored; its proofs.
5. *(done)* `Connection`, its proofs.
6. *(done)* `Deadlines`: the vacuum, the retries, the CLI and the lock of the manager in
   time; its proofs.
7. *(done)* `RangeGet` while shards change; its proofs.
8. *(done)* Proofs of `Migration`, `ClusterConfig`, the refinement of `KVPromise`, and
   of the migrations that overlap.
9. Proofs: that what `Migration` does between two commands, when no deadline
   passes and no client writes, is the one-step migration of `ClusterConfig`; the
   invariants of `RequestPath` for calls that share ids, where they still hold.

Abstract specifications worth stating: `KVPromise` for the request path (done);
for the migration, one atomic move of every key to its owner, which `Migration`
implements when it answers OK and no client writes meanwhile.
