--------------------------- MODULE RangeGetProofs ---------------------------
(***************************************************************************)
(* What a rangeGet answers, proved for every cluster, range and number of   *)
(* retries, whatever happens to the storage of the shards meanwhile.        *)
(*                                                                          *)
(* The inductive invariant follows a dump from the shard over its reply and *)
(* its entry into totalDump: at each place it has what its shard stored     *)
(* throughout the call, and nothing it did not store during it.             *)
(***************************************************************************)
EXTENDS RangeGet, RoutingProofs

\* d is a dump that node n may have taken during the call; h and s are the
\* histories held and seen.
Taken(n, d, h, s) ==
    \A k \in Keys :
        /\ <<n, k>> \in h => d[k] # Missing
        /\ d[k] # Missing => <<n, k, d[k]>> \in s

Fresh ==
    /\ ctxs = {} /\ entries = {} /\ requests = {} /\ replies = {} /\ ready = {}
    /\ retrier = {} /\ data = [n \in Nodes |-> Nil]
    /\ totalDump = [k \in Keys |-> Missing]

DumpsTaken ==
    /\ pc # "idle" => \A n \in Nodes : Taken(n, storage[n], held, seen)
    /\ \A p \in replies : Taken(p.node, p.dump, held, seen)
    /\ \A n \in Nodes : data[n] # Nil => Taken(n, data[n], held, seen)

\* totalDump has nothing that was not stored, and what is held by the sources
\* the handler is through with.
Merged ==
    /\ \A k \in Keys : totalDump[k] # Missing =>
          k \in wanted /\ \E n \in Nodes : <<n, k, totalDump[k]>> \in seen
    /\ pc # "idle" => \A k \in wanted :
          Source(k) \in ctxs \/ (<<Source(k), k>> \in held => totalDump[k] # Missing)
    /\ pc = "ok" => ctxs = {}

\* While the handler waits, the entry of a request is there until it is read,
\* and has its Data before its context is cancelled.
Waiting ==
    pc = "waiting" =>
        /\ entries = ctxs
        /\ \A n \in ctxs : ctx[n] = "canceled" \/ n \in ready => data[n] # Nil

IInv == TypeOK /\ (pc = "idle" => Fresh) /\ DumpsTaken /\ Merged /\ Waiting

LEMMA ClusterIsConfig ==
    /\ IsConfig(Cluster) /\ Cluster.nodes \subseteq Nodes
    /\ Cluster.strategy = "range" /\ ~ RangeGetPanics(Cluster)
  <1>1. Cardinality(Cluster.nodes) >= 2 /\ IsFiniteSet(Cluster.nodes)
    BY RangeGetAssumption, FS_CardinalityType DEF RangeGetPanics
  <1>2. Cluster.nodes # {}
    BY <1>1, FS_EmptySet
  <1> QED BY <1>1, <1>2, RangeGetAssumption DEF IsConfig

\* The nodes a rangeGet asks are in the cluster.
LEMMA AskedAreNodes ==
    ASSUME NEW left, NEW right PROVE RangeGetNodes(Cluster, left, right) \subseteq Nodes
  <1>1. /\ Cluster.nodes \subseteq Nat /\ IsFiniteSet(Cluster.nodes)
        /\ Cardinality(Cluster.nodes) \in Nat /\ Cluster.nodes \subseteq Nodes
    BY ClusterIsConfig, ClusterSize DEF IsConfig
  <1>2. \A i \in 0 .. Cardinality(Cluster.nodes) - 1 : NodeAt(Cluster.nodes, i) \in Nodes
    BY <1>1, NodeAtInCluster
  <1> QED BY <1>2 DEF RangeGetNodes

LEMMA TakenLater ==
    ASSUME NEW n, NEW d, NEW h, NEW s, NEW h2, NEW s2,
           Taken(n, d, h, s), h2 \subseteq h, s \subseteq s2
    PROVE  Taken(n, d, h2, s2)
  BY DEF Taken

LEMMA InitIInv == Init => IInv
  <1> SUFFICES ASSUME Init PROVE IInv
    OBVIOUS
  <1> USE DEF Init
  <1>1. Fresh
    BY DEF Fresh
  <1>2. TypeOK
    <2>1. /\ [k \in Keys |-> Missing] \in Dumps
          /\ \A n \in Nodes : sends[n] \in 0 .. MaxSends[n]
          /\ writes \in 0 .. MaxWrites
      BY RangeGetAssumption DEF Dumps, Stored
    <2> QED BY <2>1 DEF TypeOK
  <1>3. DumpsTaken
    BY DEF DumpsTaken
  <1>4. Merged
    BY DEF Merged
  <1>5. Waiting
    BY DEF Waiting
  <1> QED BY <1>1, <1>2, <1>3, <1>4, <1>5 DEF IInv

\* A call starts: what the shards store now is what they stored so far.
LEMMA AskStep ==
    ASSUME IInv, NEW asked \in SUBSET Nodes, NEW keys \in SUBSET Keys,
           target' \in Nodes \cup {NoNode}, Ask(asked, keys),
           \A k \in keys : (IF target' = NoNode THEN Owner(Cluster, k) ELSE target') \in asked
    PROVE  IInv'
  <1> USE DEF Ask
  <1>0. TypeOK /\ Fresh
    BY DEF IInv
  <1>1. TypeOK'
    BY <1>0 DEF TypeOK, Dumps
  <1>2. DumpsTaken'
    <2>1. \A n \in Nodes : Taken(n, storage'[n], held', seen')
      BY <1>0 DEF Taken, TypeOK, Dumps
    <2>2. replies' = {} /\ data' = [n \in Nodes |-> Nil]
      BY <1>0 DEF Fresh
    <2> QED BY <2>1, <2>2 DEF DumpsTaken
  <1>3. Merged'
    BY <1>0 DEF Merged, Fresh, Source
  <1>4. Waiting'
    BY <1>0 DEF Waiting, Fresh
  <1> QED BY <1>1, <1>2, <1>3, <1>4 DEF IInv

LEMMA TakeDumpStep ==
    ASSUME IInv, NEW n \in ctxs, TakeDump(n) PROVE IInv'
  <1> USE DEF TakeDump, linkVars, shardVars
  <1>0. TypeOK /\ DumpsTaken /\ Merged /\ Waiting /\ n \in Nodes
    BY DEF IInv, TypeOK
  <1>1. data[n] \in Dumps /\ Taken(n, data[n], held, seen)
    BY <1>0 DEF Waiting, TypeOK, DumpsTaken
  <1>2. TypeOK'
    <2>1. \A k \in Keys : data[n][k] \in Stored /\ totalDump[k] \in Stored
      BY <1>0, <1>1 DEF TypeOK, Dumps
    <2>2. totalDump' \in Dumps
      BY <2>1 DEF Dumps
    <2> QED BY <1>0, <2>2 DEF TypeOK
  <1>3. DumpsTaken'
    BY <1>0 DEF DumpsTaken, TypeOK
  <1>4. Merged'
    <2>1. ASSUME NEW k \in Keys, totalDump'[k] # Missing
          PROVE  k \in wanted' /\ \E m \in Nodes : <<m, k, totalDump'[k]>> \in seen'
      <3>1. CASE k \in wanted /\ data[n][k] # Missing
        BY <1>0, <1>1, <3>1 DEF Taken
      <3>2. CASE ~ (k \in wanted /\ data[n][k] # Missing)
        BY <1>0, <2>1, <3>2 DEF Merged
      <3> QED BY <3>1, <3>2
    <2>2. ASSUME NEW k \in wanted', <<Source(k)', k>> \in held'
          PROVE  Source(k)' \in ctxs' \/ totalDump'[k] # Missing
      <3>1. k \in Keys /\ k \in wanted /\ Source(k)' = Source(k) /\ <<Source(k), k>> \in held
        BY <1>0, <2>2 DEF TypeOK, Source
      <3>2. CASE Source(k) = n
        BY <1>1, <3>1, <3>2 DEF Taken
      <3>3. CASE Source(k) # n
        BY <1>0, <3>1, <3>3 DEF Merged
      <3> QED BY <3>2, <3>3
    <2> QED BY <2>1, <2>2 DEF Merged
  <1>5. Waiting'
    BY <1>0 DEF Waiting, TypeOK
  <1> QED BY <1>2, <1>3, <1>4, <1>5 DEF IInv

\* The call ends.
LEMMA ReturnStep ==
    ASSUME IInv, pc = "waiting", pc' \in {"ok", "err"}, pc' = "ok" => ctxs = {}, CancelAll,
           UNCHANGED <<target, wanted, ctxs, totalDump, entries, data, linkVars, shardVars>>
    PROVE  IInv'
  <1> USE DEF CancelAll, linkVars, shardVars
  <1>0. TypeOK /\ DumpsTaken /\ Merged
    BY DEF IInv
  <1>1. TypeOK'
    BY <1>0 DEF TypeOK
  <1>2. DumpsTaken'
    BY <1>0 DEF DumpsTaken
  <1>3. Merged'
    BY <1>0 DEF Merged, Source
  <1>4. Waiting' /\ pc' # "idle"
    BY DEF Waiting
  <1> QED BY <1>1, <1>2, <1>3, <1>4 DEF IInv

LEMMA DeadlineStep ==
    ASSUME IInv, NEW n \in Nodes, DeadlineExpires(n) PROVE IInv'
  <1> USE DEF DeadlineExpires, handlerVars, linkVars, shardVars
  <1>0. TypeOK /\ DumpsTaken /\ Merged /\ Waiting
    BY DEF IInv
  <1>1. TypeOK'
    BY <1>0 DEF TypeOK
  <1>2. (pc = "idle" => Fresh)'
    BY DEF IInv, Fresh
  <1>3. DumpsTaken'
    BY <1>0 DEF DumpsTaken
  <1>4. Merged'
    BY <1>0 DEF Merged, Source
  <1>5. Waiting'
    BY <1>0 DEF Waiting, TypeOK
  <1> QED BY <1>1, <1>2, <1>3, <1>4, <1>5 DEF IInv

LEMMA SendStep ==
    ASSUME IInv, NEW n \in Nodes, Send(n) \/ StopRetrying(n) PROVE IInv'
  <1> USE DEF Send, StopRetrying, handlerVars, tableVars, shardVars
  <1>0. TypeOK /\ DumpsTaken /\ Merged /\ Waiting /\ pc # "idle"
    BY DEF IInv, Fresh
  <1>1. TypeOK'
    <2>1. CASE Send(n)
      <3>1. sends[n] \in Nat /\ MaxSends[n] \in Nat /\ sends[n] < MaxSends[n]
        BY <1>0, <2>1, RangeGetAssumption DEF TypeOK
      <3>2. sends[n] + 1 \in 1 .. MaxSends[n]
        BY <3>1
      <3>3. <<n, sends[n] + 1>> \in Sends
        BY <3>2 DEF Sends
      <3>4. \A m \in Nodes : sends'[m] \in 0 .. MaxSends[m]
        BY <1>0, <2>1, <3>1, <3>2 DEF TypeOK
      <3> QED BY <1>0, <2>1, <3>3, <3>4 DEF TypeOK
    <2>2. CASE StopRetrying(n)
      BY <1>0, <2>2 DEF TypeOK
    <2> QED BY <2>1, <2>2
  <1>2. DumpsTaken'
    BY <1>0 DEF DumpsTaken
  <1>3. Merged'
    BY <1>0 DEF Merged, Source
  <1>4. Waiting' /\ pc' # "idle"
    BY <1>0 DEF Waiting
  <1> QED BY <1>1, <1>2, <1>3, <1>4 DEF IInv

LEMMA ShardDumpStep ==
    ASSUME IInv, NEW r \in requests, ShardDump(r) PROVE IInv'
  <1> USE DEF ShardDump, handlerVars, tableVars, shardVars
  <1>0. TypeOK /\ DumpsTaken /\ Merged /\ Waiting /\ pc # "idle"
    BY DEF IInv, Fresh
  <1>1. r[1] \in Nodes /\ r[2] \in Nat /\ storage[r[1]] \in Dumps
    BY <1>0, RangeGetAssumption DEF TypeOK, Sends
  <1>2. TypeOK'
    BY <1>0, <1>1 DEF TypeOK
  <1>3. DumpsTaken'
    BY <1>0, <1>1 DEF DumpsTaken
  <1>4. Merged'
    BY <1>0 DEF Merged, Source
  <1>5. Waiting' /\ pc' # "idle"
    BY <1>0 DEF Waiting
  <1> QED BY <1>2, <1>3, <1>4, <1>5 DEF IInv

LEMMA SetResponseStep ==
    ASSUME IInv, NEW p \in replies, SetResponse(p) PROVE IInv'
  <1> USE DEF SetResponse, handlerVars, shardVars
  <1>0. TypeOK /\ DumpsTaken /\ Merged /\ Waiting /\ pc # "idle"
    BY DEF IInv, Fresh
  <1>1. p.node \in Nodes /\ p.dump \in Dumps /\ Nil \notin Dumps
    BY <1>0, RangeGetAssumption DEF TypeOK
  <1>2. TypeOK'
    BY <1>0, <1>1 DEF TypeOK
  <1>3. DumpsTaken'
    BY <1>0, <1>1 DEF DumpsTaken, TypeOK
  <1>4. Merged'
    BY <1>0 DEF Merged, Source
  <1>5. Waiting' /\ pc' # "idle"
    BY <1>0, <1>1 DEF Waiting, TypeOK
  <1> QED BY <1>2, <1>3, <1>4, <1>5 DEF IInv

LEMMA CancelStep ==
    ASSUME IInv, NEW n \in Nodes, Cancel(n) PROVE IInv'
  <1> USE DEF Cancel, handlerVars, shardVars
  <1>0. TypeOK /\ DumpsTaken /\ Merged /\ Waiting /\ pc # "idle"
    BY DEF IInv, Fresh
  <1>1. TypeOK'
    BY <1>0 DEF TypeOK
  <1>2. DumpsTaken'
    BY <1>0 DEF DumpsTaken
  <1>3. Merged'
    BY <1>0 DEF Merged, Source
  <1>4. Waiting' /\ pc' # "idle"
    BY <1>0 DEF Waiting, TypeOK
  <1> QED BY <1>1, <1>2, <1>3, <1>4 DEF IInv

LEMMA WriteStep ==
    ASSUME IInv, NEW n \in Nodes, NEW k \in Keys, NEW v \in Stored, Write(n, k, v)
    PROVE  IInv'
  <1> USE DEF Write, handlerVars, tableVars, linkVars
  <1>0. TypeOK /\ DumpsTaken /\ Merged /\ Waiting /\ pc = "waiting"
    BY DEF IInv
  <1>1. held' \subseteq held /\ seen \subseteq seen'
    OBVIOUS
  <1>2. TypeOK'
    <2>1. storage' \in [Nodes -> Dumps]
      BY <1>0 DEF TypeOK, Dumps
    <2>2. writes' \in 0 .. MaxWrites
      BY <1>0, RangeGetAssumption DEF TypeOK
    <2>3. held' \subseteq Nodes \X Keys /\ seen' \subseteq Nodes \X Keys \X Stored
      BY <1>0 DEF TypeOK
    <2> QED BY <1>0, <2>1, <2>2, <2>3 DEF TypeOK
  <1>3. DumpsTaken'
    <2>1. ASSUME NEW m \in Nodes PROVE Taken(m, storage'[m], held', seen')
      <3> SUFFICES ASSUME NEW l \in Keys
                   PROVE  /\ <<m, l>> \in held' => storage'[m][l] # Missing
                          /\ storage'[m][l] # Missing => <<m, l, storage'[m][l]>> \in seen'
        BY DEF Taken
      <3>1. CASE m = n /\ l = k
        <4>1. storage'[m][l] = v
          BY <1>0, <3>1 DEF TypeOK, Dumps
        <4> QED BY <3>1, <4>1
      <3>2. CASE ~ (m = n /\ l = k)
        <4>1. storage'[m][l] = storage[m][l]
          BY <1>0, <3>2 DEF TypeOK, Dumps
        <4>2. /\ <<m, l>> \in held => storage[m][l] # Missing
              /\ storage[m][l] # Missing => <<m, l, storage[m][l]>> \in seen
          BY <1>0 DEF DumpsTaken, Taken
        <4> QED BY <1>1, <4>1, <4>2
      <3> QED BY <3>1, <3>2
    <2>2. \A p \in replies : Taken(p.node, p.dump, held', seen')
      BY <1>0, <1>1, TakenLater DEF DumpsTaken
    <2>3. \A m \in Nodes : data[m] # Nil => Taken(m, data[m], held', seen')
      BY <1>0, <1>1, TakenLater DEF DumpsTaken
    <2> QED BY <2>1, <2>2, <2>3 DEF DumpsTaken
  <1>4. Merged'
    BY <1>0, <1>1 DEF Merged, Source
  <1>5. Waiting' /\ pc' # "idle"
    BY <1>0 DEF Waiting
  <1> QED BY <1>2, <1>3, <1>4, <1>5 DEF IInv

LEMMA NextIInv == IInv /\ [Next]_vars => IInv'
  <1> SUFFICES ASSUME IInv, [Next]_vars PROVE IInv'
    OBVIOUS
  <1>1. ASSUME NEW left \in Bounds, NEW right \in Bounds, ClientRangeGet(left, right)
        PROVE  IInv'
    <2> DEFINE keys == {k \in Keys : left <= k /\ k < right}
               asked == RangeGetNodes(Cluster, left, right)
    <2>1. target' = NoNode /\ Ask(asked, keys)
      BY <1>1 DEF ClientRangeGet
    <2>2. asked \in SUBSET Nodes
      BY AskedAreNodes
    <2>3. left \in Nat /\ right \in Nat /\ Keys \subseteq Nat
      BY RangeGetAssumption, RoutingAssumption
    <2>4. \A k \in keys : Owner(Cluster, k) \in asked
      BY <2>3, ClusterIsConfig, RangeGetAsksOwner
    <2>5. keys \in SUBSET Keys
      OBVIOUS
    <2> HIDE DEF keys, asked
    <2> QED BY <2>1, <2>2, <2>4, <2>5, AskStep
  <1>2. ASSUME NEW n \in Cluster.nodes, ClientDump(n) PROVE IInv'
    <2>1. n \in Nodes /\ n # NoNode
      BY RangeGetAssumption
    <2>2. target' = n /\ Ask({n}, Keys)
      BY <1>2 DEF ClientDump
    <2> QED BY <2>1, <2>2, AskStep
  <1>3. ASSUME NEW n \in ctxs, TakeTimeout(n) PROVE IInv'
    BY <1>3, ReturnStep DEF TakeTimeout
  <1>4. CASE Answer
    BY <1>4, ReturnStep DEF Answer
  <1>5. CASE UNCHANGED vars
    <2> USE <1>5 DEF vars, handlerVars, tableVars, linkVars, shardVars
    <2>0. TypeOK /\ (pc = "idle" => Fresh) /\ DumpsTaken /\ Merged /\ Waiting
      BY DEF IInv
    <2>1. TypeOK'
      BY <2>0 DEF TypeOK
    <2>2. (pc = "idle" => Fresh)' /\ DumpsTaken'
      BY <2>0 DEF Fresh, DumpsTaken
    <2>3. Merged' /\ Waiting'
      BY <2>0 DEF Merged, Source, Waiting
    <2> QED BY <2>1, <2>2, <2>3 DEF IInv
  <1> QED BY <1>1, <1>2, <1>3, <1>4, <1>5, TakeDumpStep, DeadlineStep, SendStep, ShardDumpStep,
             SetResponseStep, CancelStep, WriteStep DEF Next, Handler

LEMMA InductiveInvariant == Spec => []IInv
  BY InitIInv, NextIInv, PTL DEF Spec

\* Every reachable state is well-typed.
THEOREM TypeCorrect == Spec => []TypeOK
  <1>1. IInv => TypeOK
    BY DEF IInv
  <1> QED BY <1>1, InductiveInvariant, PTL

\* The handler of a rangeGet or dump never asserts the type of nil Data.
THEOREM FindsData == Spec => []ReadsNoNil
  <1>1. IInv => ReadsNoNil
    BY DEF IInv, Waiting, ReadsNoNil
  <1> QED BY <1>1, InductiveInvariant, PTL

\* A rangeGet or dump answers only what nodes stored during the call.
THEOREM AnswersTruly == Spec => []AnswersWhatWas
  <1>1. IInv => AnswersWhatWas
    BY DEF IInv, Merged, AnswersWhatWas
  <1> QED BY <1>1, InductiveInvariant, PTL

\* A rangeGet misses no key that its owner stores throughout the call.
THEOREM MissesNothingThatStays == Spec => []FindsWhatStays
  <1>1. IInv => FindsWhatStays
    BY DEF IInv, Merged, FindsWhatStays
  <1> QED BY <1>1, InductiveInvariant, PTL

============================================================================
