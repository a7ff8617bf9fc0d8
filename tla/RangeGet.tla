------------------------------ MODULE RangeGet ------------------------------
(***************************************************************************)
(* One rangeGet of a client, or one dump: the handler asks several shards   *)
(* for their dumps, each request with an entry in the response table, a     *)
(* context and a retrying goroutine of its own, and waits for them one      *)
(* after the other.  Meanwhile the storage of every shard may change in any *)
(* way: clients write, and migrations put and delete.  A message that is     *)
(* lost is one that never arrives.                                          *)
(*                                                                          *)
(* The configuration is read once, and is that of Cluster.                  *)
(***************************************************************************)
EXTENDS Routing

CONSTANTS
    Cluster,     \* the configuration, as in Routing
    Values,      \* what clients store
    Missing,     \* the key is not in the storage
    Nil,         \* ResponseInfo.Data before a response
    NoNode,
    Bounds,      \* the keys a rangeGet goes from and to
    MaxSends,    \* bound: [Nodes -> Nat], Sends of one request
    MaxWrites    \* bound: puts and deletes of others

Stored == Values \cup {Missing}
Dumps == [Keys -> Stored]

ASSUME RangeGetAssumption ==
    /\ Cluster.nodes \subseteq Nodes /\ IsFiniteSet(Cluster.nodes)
    /\ Cluster.strategy = "range" /\ Cluster.ranges \in Seq(Nat)
    /\ ~ RangeGetPanics(Cluster)
    /\ Missing \notin Values /\ Nil \notin Dumps /\ NoNode \notin Nodes
    /\ Bounds \subseteq Nat /\ MaxSends \in [Nodes -> Nat \ {0}] /\ MaxWrites \in Nat

VARIABLES
    pc,         \* the handler: idle, waiting, ok, err
    target,     \* the node of a dump, NoNode for a rangeGet
    wanted,     \* the keys asked for
    ctxs,       \* the nodes asked whose answer the handler has not read
    ctx,        \* [Nodes -> context of the request to the node]
    entries,    \* nodes whose request has an entry in the response table
    data,       \* [Nodes -> ResponseInfo.Data]
    totalDump,
    retrier,    \* nodes with a retrying goroutine
    sends,      \* [Nodes -> Sends so far]
    requests,   \* <<node, send>> on their way to the shard
    replies,    \* [node, send, dump] on their way back
    ready,      \* nodes whose cancelFunc SetResponse has yet to call
    storage,    \* [Nodes -> Dumps]
    writes,
    held,       \* history: <<n, k>>, n stored k at every instant of the call
    seen        \* history: <<n, k, v>>, n stored v under k at some instant of it

handlerVars == <<pc, target, wanted, ctxs, totalDump>>
tableVars   == <<ctx, entries, data>>
linkVars    == <<retrier, sends, requests, replies, ready>>
shardVars   == <<storage, writes, held, seen>>
vars == <<handlerVars, tableVars, linkVars, shardVars>>

Sends == UNION {{n} \X (1 .. MaxSends[n]) : n \in Nodes}

Init ==
    /\ pc = "idle" /\ target = NoNode /\ wanted = {} /\ ctxs = {}
    /\ ctx = [n \in Nodes |-> "none"] /\ entries = {}
    /\ data = [n \in Nodes |-> Nil]
    /\ totalDump = [k \in Keys |-> Missing]
    /\ retrier = {} /\ sends = [n \in Nodes |-> 0]
    /\ requests = {} /\ replies = {} /\ ready = {}
    /\ storage \in [Nodes -> Dumps]
    /\ writes = 0 /\ held = {} /\ seen = {}

----------------------------------------------------------------------------
(* The handler. *)

\* For each node asked: CreateResponse, GetConnectionByNodeId, go retrying; a
\* nil connection ends retrying before its first Send.
Ask(asked, keys) ==
    /\ pc = "idle"
    /\ pc' = "waiting" /\ wanted' = keys /\ ctxs' = asked
    /\ ctx' = [n \in Nodes |-> IF n \in asked THEN "live" ELSE "none"]
    /\ entries' = asked
    /\ retrier' \in SUBSET asked
    /\ held' = {h \in Nodes \X Keys : storage[h[1]][h[2]] # Missing}
    /\ seen' = {<<n, k, storage[n][k]>> : n \in Nodes, k \in Keys}
    /\ UNCHANGED <<data, totalDump, sends, requests, replies, ready, storage, writes>>

ClientRangeGet(left, right) ==
    /\ target' = NoNode
    /\ Ask(RangeGetNodes(Cluster, left, right), {k \in Keys : left <= k /\ k < right})

ClientDump(n) == target' = n /\ Ask({n}, Keys)

\* Mutant: the keys are not compared with the range.
TakeWholeDump(n) ==
    /\ pc = "waiting" /\ n \in ctxs /\ ctx[n] = "canceled"
    /\ ctxs' = ctxs \ {n}
    /\ entries' = entries \ {n}
    /\ data' = [data EXCEPT ![n] = Nil]
    /\ totalDump' = [k \in Keys |-> IF data[n][k] # Missing THEN data[n][k] ELSE totalDump[k]]
    /\ UNCHANGED <<pc, target, wanted, ctx, linkVars, shardVars>>

\* <-ctx.Done() and GetResponse, its success branch: the entry is deleted, and
\* the keys of the range go over those of the dumps before.
TakeDump(n) ==
    /\ pc = "waiting" /\ n \in ctxs /\ ctx[n] = "canceled"
    /\ ctxs' = ctxs \ {n}
    /\ entries' = entries \ {n}
    /\ data' = [data EXCEPT ![n] = Nil]
    /\ totalDump' = [k \in Keys |-> IF k \in wanted /\ data[n][k] # Missing
                                    THEN data[n][k] ELSE totalDump[k]]
    /\ UNCHANGED <<pc, target, wanted, ctx, linkVars, shardVars>>

\* The deferred cancels.
CancelAll == ctx' = [n \in Nodes |-> IF ctx[n] = "live" THEN "canceled" ELSE ctx[n]]

\* GetResponse, its error branch: the call fails, and the entries of this
\* request and of those not read yet stay in the table.
TakeTimeout(n) ==
    /\ pc = "waiting" /\ n \in ctxs /\ ctx[n] = "deadline"
    /\ pc' = "err"
    /\ CancelAll
    /\ UNCHANGED <<target, wanted, ctxs, totalDump, entries, data, linkVars, shardVars>>

\* Mutant: the call is answered with what came before a deadline.
AnswerEarly ==
    /\ pc = "waiting" /\ \A n \in ctxs : ctx[n] = "deadline"
    /\ pc' = "ok"
    /\ CancelAll
    /\ UNCHANGED <<target, wanted, ctxs, totalDump, entries, data, linkVars, shardVars>>

\* All dumps are merged.
Answer ==
    /\ pc = "waiting" /\ ctxs = {}
    /\ pc' = "ok"
    /\ CancelAll
    /\ UNCHANGED <<target, wanted, ctxs, totalDump, entries, data, linkVars, shardVars>>

----------------------------------------------------------------------------
(* The requests. *)

\* Mutant: context.WithCancel in the place of context.WithTimeout.
DeadlineNever(n) == FALSE /\ UNCHANGED vars

DeadlineExpires(n) ==
    /\ ctx[n] = "live"
    /\ ctx' = [ctx EXCEPT ![n] = "deadline"]
    /\ UNCHANGED <<handlerVars, entries, data, linkVars, shardVars>>

\* Mutant: one Send more than the deadline allows.
SendOnceMore(n) ==
    /\ n \in retrier /\ sends[n] <= MaxSends[n]
    /\ sends' = [sends EXCEPT ![n] = @ + 1]
    /\ requests' = requests \cup {<<n, sends[n] + 1>>}
    /\ UNCHANGED <<handlerVars, tableVars, retrier, replies, ready, shardVars>>

\* retrying: a Send at once, and one a tick.
Send(n) ==
    /\ n \in retrier /\ sends[n] < MaxSends[n]
    /\ sends' = [sends EXCEPT ![n] = @ + 1]
    /\ requests' = requests \cup {<<n, sends[n] + 1>>}
    /\ UNCHANGED <<handlerVars, tableVars, retrier, replies, ready, shardVars>>

StopRetrying(n) ==
    /\ n \in retrier /\ sends[n] > 0 /\ ctx[n] # "live"
    /\ retrier' = retrier \ {n}
    /\ UNCHANGED <<handlerVars, tableVars, sends, requests, replies, ready, shardVars>>

\* handlerShardDumpRequest: a copy of the storage, taken under its lock.
ShardDump(r) ==
    /\ requests' = requests \ {r}
    /\ replies' = replies \cup {[node |-> r[1], send |-> r[2], dump |-> storage[r[1]]]}
    /\ UNCHANGED <<handlerVars, tableVars, retrier, sends, ready, shardVars>>

\* Mutant: the answer to a retry is not stored.
SetResponseFirstOnly(p) ==
    /\ replies' = replies \ {p}
    /\ IF p.node \in entries
         THEN /\ data' = IF p.send = 1 THEN [data EXCEPT ![p.node] = p.dump] ELSE data
              /\ ready' = ready \cup {p.node}
         ELSE UNCHANGED <<data, ready>>
    /\ UNCHANGED <<handlerVars, ctx, entries, retrier, sends, requests, shardVars>>

\* handlerShardDumpResponse, SetResponse under the lock: the later of two
\* answers replaces the earlier one.
SetResponse(p) ==
    /\ replies' = replies \ {p}
    /\ IF p.node \in entries
         THEN data' = [data EXCEPT ![p.node] = p.dump] /\ ready' = ready \cup {p.node}
         ELSE UNCHANGED <<data, ready>>
    /\ UNCHANGED <<handlerVars, ctx, entries, retrier, sends, requests, shardVars>>

\* SetResponse after the unlock: cancelFunc().
Cancel(n) ==
    /\ n \in ready
    /\ ready' = ready \ {n}
    /\ ctx' = [ctx EXCEPT ![n] = IF @ = "live" THEN "canceled" ELSE @]
    /\ UNCHANGED <<handlerVars, entries, data, retrier, sends, requests, replies, shardVars>>

\* storage.Put (of a value) or storage.Delete (Missing) of another request, while
\* the call waits; it may find the shards in any state.
Write(n, k, v) ==
    /\ pc = "waiting"
    /\ writes < MaxWrites /\ writes' = writes + 1
    /\ storage' = [storage EXCEPT ![n][k] = v]
    /\ held' = IF v = Missing THEN held \ {<<n, k>>} ELSE held
    /\ seen' = seen \cup {<<n, k, v>>}
    /\ UNCHANGED <<handlerVars, tableVars, linkVars>>

----------------------------------------------------------------------------

Handler ==
    \/ \E left, right \in Bounds : ClientRangeGet(left, right)
    \/ \E n \in Cluster.nodes : ClientDump(n)
    \/ \E n \in ctxs : TakeDump(n) \/ TakeTimeout(n)
    \/ Answer

Next ==
    \/ Handler
    \/ \E n \in Nodes : DeadlineExpires(n) \/ Send(n) \/ StopRetrying(n) \/ Cancel(n)
    \/ \E r \in requests : ShardDump(r)
    \/ \E p \in replies : SetResponse(p)
    \/ \E n \in Nodes, k \in Keys, v \in Stored : Write(n, k, v)

\* Timers fire, and a handler whose context is done goes on.
Fairness ==
    /\ \A n \in Nodes : WF_vars(DeadlineExpires(n))
    /\ WF_vars(\/ \E n \in ctxs : TakeDump(n) \/ TakeTimeout(n)
               \/ Answer)

Spec == Init /\ [][Next]_vars
FairSpec == Spec /\ Fairness

----------------------------------------------------------------------------
(* Properties. *)

TypeOK ==
    /\ pc \in {"idle", "waiting", "ok", "err"} /\ target \in Nodes \cup {NoNode}
    /\ wanted \subseteq Keys /\ ctxs \subseteq Nodes
    /\ ctx \in [Nodes -> {"none", "live", "canceled", "deadline"}]
    /\ entries \subseteq Nodes
    /\ data \in [Nodes -> Dumps \cup {Nil}]
    /\ totalDump \in Dumps
    /\ retrier \subseteq Nodes /\ \A n \in Nodes : sends[n] \in 0 .. MaxSends[n]
    /\ requests \subseteq Sends
    /\ replies \subseteq [node : Nodes, send : Nat, dump : Dumps]
    /\ ready \subseteq Nodes
    /\ storage \in [Nodes -> Dumps]
    /\ writes \in 0 .. MaxWrites
    /\ held \subseteq Nodes \X Keys /\ seen \subseteq Nodes \X Keys \X Stored

\* No request the handler reads was cancelled without an answer in its entry,
\* which the type assertion of the handler would not survive.
ReadsNoNil ==
    pc = "waiting" => \A n \in ctxs : ctx[n] = "canceled" => data[n] # Nil

\* What a rangeGet or dump answers was stored by a node between the call and the
\* answer, however often the dumps were asked for and whichever of two answers
\* came last.
AnswersWhatWas ==
    pc = "ok" => \A k \in Keys : totalDump[k] # Missing =>
        k \in wanted /\ \E n \in Nodes : <<n, k, totalDump[k]>> \in seen

Source(k) == IF target = NoNode THEN Owner(Cluster, k) ELSE target

\* A key of the range that its owner stores throughout the call is in the
\* answer, whatever a migration does to its other copies and whichever dump
\* comes last.  One that moves meanwhile may be missed: the new owner is asked
\* before the put, and the old one after the delete.
FindsWhatStays ==
    pc = "ok" => \A k \in wanted : <<Source(k), k>> \in held => totalDump[k] # Missing

\* A call is answered though shards are silent or were never dialled.
CallEnds == pc = "waiting" ~> pc \in {"ok", "err"}

============================================================================
