------------------------- MODULE RequestPathProofs -------------------------
(***************************************************************************)
(* Theorems about RequestPath, for every set of calls, ids, keys and shards *)
(* and every bound.                                                         *)
(***************************************************************************)
EXTENDS RequestPath, TLAPS

\* An attempt is a pair of a call and a number within the bound of the call.
LEMMA AttemptType ==
    ASSUME NEW a \in Attempts
    PROVE  /\ a[1] \in Calls /\ a[2] \in 1 .. MaxSends[a[1]]
           /\ a = <<a[1], a[2]>>
  BY DEF Attempts

LEMMA AttemptIn ==
    ASSUME NEW c \in Calls, NEW n \in 1 .. MaxSends[c]
    PROVE  <<c, n>> \in Attempts
  BY DEF Attempts

\* The helpers on constants have the types their names promise.
LEMMA ConstantTypes ==
    ASSUME NEW c \in Calls
    PROVE  /\ Id(c) \in Ids /\ Key(c) \in Keys /\ Op(c) \in Ops
           /\ \A i \in Ids : Home(i) \in Shards /\ Written(i) \in Values
  BY RequestAssumption DEF Id, Key, Op, Home, Written, Values

LEMMA ObserveType ==
    ASSUME TypeOK, NEW ids, NEW v \in Values
    PROVE  Observe(ids, v) \in [Calls -> SUBSET Values]
  BY DEF TypeOK, Observe

----------------------------------------------------------------------------
(* Type correctness. *)

LEMMA TypeInit == Init => TypeOK
  BY RequestAssumption, SentinelAssumption
  DEF Init, TypeOK, Stages, Values, Replies

LEMMA TypeNext == TypeOK /\ [Next]_vars => TypeOK'
  <1> SUFFICES ASSUME TypeOK, [Next]_vars PROVE TypeOK'
    OBVIOUS
  <1> USE RequestAssumption, SentinelAssumption DEF RequestAssumption, SentinelAssumption
  <1>1. ASSUME NEW c \in Calls, ClientCall(c) PROVE TypeOK'
    BY <1>1, ConstantTypes DEF TypeOK, ClientCall, attemptVars, Values
  <1>2. ASSUME NEW c \in Calls, Send(c) PROVE TypeOK'
    <2>1. sends' \in [Calls -> Nat] /\ retrier' \in [Calls -> {"off", "sending", "ticking"}]
      BY <1>2 DEF TypeOK, Send
    <2>2. \A d \in Calls : sends'[d] <= MaxSends[d]
      BY <1>2 DEF TypeOK, Send
    <2>3. /\ stage' \in [Attempts -> Stages]
          /\ \A a \in Attempts : stage'[a] \in {"reply", "notify"} => stage'[a] = stage[a]
      BY <1>2 DEF TypeOK, Send, Stages
    <2> QED
      BY <1>2, <2>1, <2>2, <2>3 DEF TypeOK, Send, routerVars, shardVars
  <1>3. ASSUME NEW c \in Calls, Tick(c) \/ StopRetrying(c) PROVE TypeOK'
    BY <1>3 DEF TypeOK, Tick, StopRetrying, routerVars, attemptVars, shardVars
  <1>4. ASSUME NEW c \in Calls, DeadlineExpires(c) PROVE TypeOK'
    BY <1>4 DEF TypeOK, DeadlineExpires, linkVars, attemptVars, shardVars
  <1>5. ASSUME NEW c \in Calls, AnswerTimeout(c) PROVE TypeOK'
    BY <1>5 DEF TypeOK, AnswerTimeout, linkVars, attemptVars, shardVars
  <1>6. ASSUME NEW c \in Calls, AnswerOk(c) PROVE TypeOK'
    <2>1. Id(c) \in Ids /\ responses[Id(c)] \in Calls
      BY <1>6, ConstantTypes DEF TypeOK, AnswerOk
    <2>2. /\ answer' \in [Calls -> Replies \cup {Nil, Timeout}]
          /\ responses' \in [Ids -> Calls \cup {NoCall}]
          /\ data' \in [Calls -> Replies \cup {Nil}]
      BY <1>6, <2>1 DEF TypeOK, AnswerOk
    <2> QED
      BY <1>6, <2>2 DEF TypeOK, AnswerOk, linkVars, attemptVars, shardVars
  <1>7. ASSUME NEW c \in Calls, AnswerPanics(c) PROVE TypeOK'
    BY <1>7 DEF TypeOK, AnswerPanics, linkVars, attemptVars, shardVars
  <1>8. ASSUME NEW a \in Attempts, SetResponse(a) PROVE TypeOK'
    <2>1. Id(a[1]) \in Ids
      BY AttemptType, ConstantTypes
    <2>2. CASE responses[Id(a[1])] = NoCall
      BY <1>8, <2>2 DEF TypeOK, SetResponse, linkVars, shardVars, Stages
    <2>3. CASE responses[Id(a[1])] # NoCall
      <3>1. responses[Id(a[1])] \in Calls /\ reply[a] \in Replies
        BY <1>8, <2>1, <2>3 DEF TypeOK, SetResponse
      <3>2. /\ data' = [data EXCEPT ![responses[Id(a[1])]] = reply[a]]
            /\ stage' = [stage EXCEPT ![a] = "notify"]
            /\ ready' = [ready EXCEPT ![a] = responses[Id(a[1])]]
        BY <1>8, <2>3 DEF SetResponse
      <3> QED
        BY <1>8, <3>1, <3>2 DEF TypeOK, SetResponse, linkVars, shardVars, Stages
    <2> QED
      BY <2>2, <2>3
  <1>9. ASSUME NEW a \in Attempts, Cancel(a) PROVE TypeOK'
    BY <1>9 DEF TypeOK, Cancel, linkVars, shardVars, Stages
  <1>10. ASSUME NEW a \in Attempts, Lose(a) PROVE TypeOK'
    BY <1>10 DEF TypeOK, Lose, routerVars, linkVars, shardVars, Stages
  <1>11. ASSUME NEW a \in Attempts, ShardClaim(a) PROVE TypeOK'
    BY <1>11, AttemptType, ConstantTypes
    DEF TypeOK, ShardClaim, routerVars, linkVars, Stages
  <1>12. ASSUME NEW a \in Attempts, ShardDuplicate(a) PROVE TypeOK'
    BY <1>12 DEF TypeOK, ShardDuplicate, routerVars, linkVars, shardVars, Stages, Replies
  <1>13. ASSUME NEW a \in Attempts, ShardApply(a) PROVE TypeOK'
    <2>1. Id(a[1]) \in Ids /\ KeyOf[Id(a[1])] \in Keys /\ Written(Id(a[1])) \in Values
      BY AttemptType, ConstantTypes
    <2>2. Observe({Id(a[1])}, Written(Id(a[1]))) \in [Calls -> SUBSET Values]
      BY <2>1, ObserveType
    <2>3. /\ storage' = [storage EXCEPT ![KeyOf[Id(a[1])]] = Written(Id(a[1]))]
          /\ applied' = [applied EXCEPT ![Id(a[1])] = applied[Id(a[1])] + 1]
          /\ seen' = Observe({Id(a[1])}, Written(Id(a[1])))
      BY <1>13, Zenon DEF ShardApply
    <2>5. storage' \in [Keys -> Values] /\ applied' \in [Ids -> Nat]
      BY <2>1, <2>3 DEF TypeOK
    <2>6. seen' \in [Calls -> SUBSET Values]
      BY <2>2, <2>3
    <2>4. /\ stage' \in [Attempts -> Stages]
          /\ reply' \in [Attempts -> Replies \cup {Nil}]
          /\ \A b \in Attempts : stage'[b] = "notify" => ready[b] \in Calls
          /\ \A b \in Attempts : stage'[b] = "reply" => reply'[b] \in Replies
      BY <1>13 DEF TypeOK, ShardApply, Stages, Replies
    <2> QED
      BY <1>13, <2>4, <2>5, <2>6 DEF TypeOK, ShardApply, routerVars, linkVars
  <1>14. ASSUME NEW a \in Attempts, ShardGet(a) PROVE TypeOK'
    BY <1>14, AttemptType, ConstantTypes
    DEF TypeOK, ShardGet, routerVars, linkVars, shardVars, Stages, Replies
  <1>15. ASSUME NEW s \in Shards, Crash(s) PROVE TypeOK'
    <2>1. Observe({i \in Ids : Home(i) = s}, Missing) \in [Calls -> SUBSET Values]
      BY ObserveType DEF Values
    <2> QED
      BY <1>15, <2>1 DEF TypeOK, Crash, routerVars, linkVars, Stages, Values
  <1>16. CASE UNCHANGED vars
    BY <1>16 DEF TypeOK, vars, routerVars, linkVars, attemptVars, shardVars
  <1> QED
    BY <1>1, <1>2, <1>3, <1>4, <1>5, <1>6, <1>7, <1>8, <1>9, <1>10, <1>11,
       <1>12, <1>13, <1>14, <1>15, <1>16 DEF Next, RouterStep, AttemptStep

\* Every variable keeps its type, in every behaviour of the request path.
THEOREM TypeCorrect == Spec => []TypeOK
  BY TypeInit, TypeNext, PTL DEF Spec

----------------------------------------------------------------------------
(* Deduplication: at most once.                                             *)

\* An attempt is unsent until the call has sent that many times.
UnsentInv == \A a \in Attempts : a[2] > sends[a[1]] => stage[a] = "unsent"

\* Whoever holds a claim, or has applied, is in the deduplication; and an id in
\* there was applied or is about to be.
ClaimInv ==
    /\ AtMostOnce
    /\ \A a \in Attempts : stage[a] = "claimed" => Id(a[1]) \in dedup
    /\ \A i \in Ids : applied[i] # 0 => i \in dedup
    /\ \A i \in dedup : applied[i] = 1 \/ \E a \in Attempts : HoldsClaim(i, a)

DedupInv == TypeOK /\ UnsentInv /\ ClaimInv

\* A step that neither makes nor ends a claim keeps ClaimInv.
LEMMA ClaimStutter ==
    ASSUME ClaimInv, UNCHANGED <<dedup, applied>>,
           \A a \in Attempts : stage'[a] = "claimed" <=> stage[a] = "claimed"
    PROVE  ClaimInv'
  BY DEF ClaimInv, AtMostOnce, HoldsClaim, Id

LEMMA DedupInit == Init => DedupInv
  <1> SUFFICES ASSUME Init PROVE DedupInv
    OBVIOUS
  <1>1. UnsentInv
    BY DEF Init, UnsentInv
  <1>2. ClaimInv
    BY DEF Init, ClaimInv, AtMostOnce, HoldsClaim
  <1> QED
    BY <1>1, <1>2, TypeInit DEF DedupInv

LEMMA UnsentNext == TypeOK /\ UnsentInv /\ [Next]_vars => UnsentInv'
  <1> SUFFICES ASSUME TypeOK, UnsentInv, [Next]_vars,
                      NEW a \in Attempts, a[2] > sends'[a[1]]
               PROVE  stage'[a] = "unsent"
    BY DEF UnsentInv
  <1>0. /\ a[1] \in Calls /\ a[2] \in 1 .. MaxSends[a[1]] /\ a = <<a[1], a[2]>>
        /\ MaxSends[a[1]] \in Nat
    BY AttemptType, RequestAssumption DEF RequestAssumption
  <1>1. ASSUME NEW c \in Calls, Send(c) PROVE stage'[a] = "unsent"
    <2>1. sends[c] \in Nat /\ sends[a[1]] \in Nat
      BY <1>0 DEF TypeOK
    <2>2. /\ a[2] > sends[a[1]]
          /\ a # <<c, sends[c] + 1>>
      BY <1>0, <1>1, <2>1 DEF TypeOK, Send
    <2> QED
      BY <1>1, <2>2 DEF UnsentInv, Send, TypeOK
  <1>2. ASSUME UNCHANGED sends,
               \A b \in Attempts : stage[b] = "unsent" => stage'[b] = "unsent"
        PROVE  stage'[a] = "unsent"
    BY <1>2 DEF UnsentInv
  <1>3. ASSUME NEW b \in Attempts, AttemptStep(b)
        PROVE  /\ UNCHANGED sends
               /\ \A e \in Attempts : stage[e] = "unsent" => stage'[e] = "unsent"
    BY <1>3 DEF TypeOK, AttemptStep, SetResponse, Cancel, Lose, ShardClaim,
                ShardDuplicate, ShardApply, ShardGet, linkVars
  <1>4. ASSUME NEW c \in Calls, RouterStep(c), ~ Send(c)
        PROVE  UNCHANGED <<sends, stage>>
    BY <1>4 DEF RouterStep, ClientCall, Tick, StopRetrying, DeadlineExpires, AnswerTimeout,
                AnswerOk, AnswerPanics, linkVars, attemptVars
  <1>5. ASSUME NEW s \in Shards, Crash(s)
        PROVE  /\ UNCHANGED sends
               /\ \A e \in Attempts : stage[e] = "unsent" => stage'[e] = "unsent"
    BY <1>5 DEF Crash, linkVars
  <1>6. CASE UNCHANGED vars
    BY <1>2, <1>6 DEF vars, linkVars, attemptVars
  <1> QED
    BY <1>1, <1>2, <1>3, <1>4, <1>5, <1>6 DEF Next

LEMMA ClaimNext == DedupInv /\ [Next]_vars => ClaimInv'
  <1> SUFFICES ASSUME DedupInv, [Next]_vars PROVE ClaimInv'
    OBVIOUS
  <1> USE DEF DedupInv
  <1>1. ASSUME NEW c \in Calls, RouterStep(c) PROVE ClaimInv'
    <2>1. CASE Send(c)
      <3>1. /\ <<c, sends[c] + 1>> \in Attempts
            /\ stage[<<c, sends[c] + 1>>] = "unsent"
        <4>1. /\ sends[c] \in Nat /\ MaxSends[c] \in Nat
              /\ sends[c] < MaxSends[c]
          BY <2>1, RequestAssumption DEF TypeOK, Send, RequestAssumption
        <4>2. sends[c] + 1 \in 1 .. MaxSends[c]
          BY <4>1
        <4> QED
          BY <4>1, <4>2, AttemptIn DEF UnsentInv
      <3> QED
        BY <2>1, <3>1, ClaimStutter DEF Send, shardVars, TypeOK
    <2>2. CASE ~ Send(c)
      <3>1. UNCHANGED <<stage, dedup, applied>>
        BY <1>1, <2>2 DEF RouterStep, ClientCall, Tick, StopRetrying, DeadlineExpires,
              AnswerTimeout, AnswerOk, AnswerPanics, attemptVars, shardVars
      <3> QED
        BY <3>1, ClaimStutter
    <2> QED
      BY <2>1, <2>2
  <1>2. ASSUME NEW a \in Attempts,
               SetResponse(a) \/ Cancel(a) \/ Lose(a) \/ ShardDuplicate(a) \/ ShardGet(a)
        PROVE  ClaimInv'
    <2>1. /\ UNCHANGED <<dedup, applied>>
          /\ \A b \in Attempts : stage'[b] = "claimed" <=> stage[b] = "claimed"
      BY <1>2 DEF TypeOK, SetResponse, Cancel, Lose, ShardDuplicate, ShardGet, shardVars
    <2> QED
      BY <2>1, ClaimStutter
  <1>3. ASSUME NEW a \in Attempts, ShardClaim(a) PROVE ClaimInv'
    <2> DEFINE i == Id(a[1])
    <2>1. /\ i \in Ids /\ i \notin dedup /\ applied[i] = 0
          /\ \A b \in Attempts : stage[b] = "claimed" => Id(b[1]) # i
      BY <1>3, AttemptType, ConstantTypes DEF ShardClaim, ClaimInv, TypeOK
    <2>2. /\ dedup' = dedup \cup {i} /\ applied' = applied
          /\ stage'[a] = "claimed"
          /\ \A b \in Attempts : b # a => stage'[b] = stage[b]
          /\ stage[a] = "request"
      BY <1>3 DEF ShardClaim, TypeOK
    <2> HIDE DEF i
    <2>3. AtMostOnce'
      BY <2>1, <2>2 DEF ClaimInv, AtMostOnce, HoldsClaim, i
    <2>4. \A b \in Attempts : stage'[b] = "claimed" => Id(b[1]) \in dedup'
      BY <2>2 DEF ClaimInv, i
    <2>5. \A j \in dedup' : applied'[j] = 1 \/ \E b \in Attempts : HoldsClaim(j, b)'
      BY <2>1, <2>2 DEF ClaimInv, HoldsClaim, i
    <2>6. \A j \in Ids : applied'[j] # 0 => j \in dedup'
      BY <2>2 DEF ClaimInv
    <2> QED
      BY <2>3, <2>4, <2>5, <2>6 DEF ClaimInv, Id
  <1>4. ASSUME NEW a \in Attempts, ShardApply(a) PROVE ClaimInv'
    <2> DEFINE i == Id(a[1])
    <2>1. /\ i \in Ids /\ i \in dedup /\ applied[i] = 0
          /\ \A b \in Attempts : HoldsClaim(i, b) => b = a
      BY <1>4, AttemptType, ConstantTypes DEF ShardApply, ClaimInv, AtMostOnce, HoldsClaim
    <2>2. /\ dedup' = dedup
          /\ applied'[i] = 1 /\ \A j \in Ids : j # i => applied'[j] = applied[j]
          /\ stage'[a] = "reply"
          /\ \A b \in Attempts : b # a => stage'[b] = stage[b]
      BY <1>4, <2>1 DEF ShardApply, TypeOK
    <2>3. AtMostOnce'
      BY <2>1, <2>2 DEF ClaimInv, AtMostOnce, HoldsClaim, Id
    <2>4. \A b \in Attempts : stage'[b] = "claimed" => Id(b[1]) \in dedup'
      BY <2>2 DEF ClaimInv
    <2>5. ASSUME NEW j \in dedup'
          PROVE  applied'[j] = 1 \/ \E b \in Attempts : HoldsClaim(j, b)'
      <3>1. CASE j = i
        BY <2>2, <3>1
      <3>2. CASE j # i
        <4>1. j \in Ids /\ applied'[j] = applied[j]
          BY <2>2, <2>5, <3>2 DEF TypeOK
        <4>2. CASE \E b \in Attempts : HoldsClaim(j, b)
          <5>1. PICK b \in Attempts : HoldsClaim(j, b)
            BY <4>2
          <5>2. b # a
            BY <3>2, <5>1 DEF HoldsClaim
          <5> QED
            BY <2>2, <5>1, <5>2 DEF HoldsClaim, Id
        <4> QED
          BY <2>2, <2>5, <4>1, <4>2 DEF ClaimInv
      <3> QED
        BY <3>1, <3>2
    <2>6. \A j \in Ids : applied'[j] # 0 => j \in dedup'
      BY <2>1, <2>2 DEF ClaimInv
    <2> QED
      BY <2>3, <2>4, <2>5, <2>6 DEF ClaimInv, Id
  <1>5. ASSUME NEW s \in Shards, Crash(s) PROVE ClaimInv'
    <2> DEFINE gone == {i \in Ids : Home(i) = s}
    <2>1. /\ dedup' = dedup \ gone
          /\ \A i \in Ids : applied'[i] = IF i \in gone THEN 0 ELSE applied[i]
          /\ \A a \in Attempts : stage'[a] = "claimed" <=>
                stage[a] = "claimed" /\ Id(a[1]) \notin gone
      BY <1>5 DEF Crash
    <2> HIDE DEF gone
    <2>2. AtMostOnce'
      BY <2>1 DEF ClaimInv, AtMostOnce, HoldsClaim, Id
    <2>3. \A a \in Attempts : stage'[a] = "claimed" => Id(a[1]) \in dedup'
      BY <2>1 DEF ClaimInv
    <2>4. \A j \in dedup' : applied'[j] = 1 \/ \E b \in Attempts : HoldsClaim(j, b)'
      BY <2>1 DEF ClaimInv, HoldsClaim, TypeOK, Id
    <2>5. \A j \in Ids : applied'[j] # 0 => j \in dedup'
      BY <2>1 DEF ClaimInv
    <2> QED
      BY <2>2, <2>3, <2>4, <2>5 DEF ClaimInv, Id
  <1>6. CASE UNCHANGED vars
    BY <1>6, ClaimStutter DEF vars, attemptVars, shardVars
  <1> QED
    BY <1>1, <1>2, <1>3, <1>4, <1>5, <1>6 DEF Next, AttemptStep

THEOREM DedupInvariant == Spec => []DedupInv
  <1>1. DedupInv /\ [Next]_vars => DedupInv'
    BY TypeNext, UnsentNext, ClaimNext DEF DedupInv
  <1> QED
    BY <1>1, DedupInit, PTL DEF Spec

\* However often the client and the router repeat a request, the storage of one
\* incarnation of its shard sees it at most once.
THEOREM AtMostOnceHolds == Spec => []AtMostOnce
  <1>1. DedupInv => AtMostOnce
    BY DEF DedupInv, ClaimInv
  <1> QED
    BY <1>1, DedupInvariant, PTL

----------------------------------------------------------------------------
(* Acknowledgements.                                                        *)

\* The shard has accepted the id: it is in the deduplication, or was when the
\* shard crashed.
Claimed(i) == i \in dedup \/ i \in wiped

\* An Ack, wherever it has got to, is that of an accepted id; and an entry of
\* the response table is found under the id of its call.
AckInv ==
    /\ \A i \in Ids : responses[i] # NoCall => Id(responses[i]) = i
    /\ \A a \in Attempts : stage[a] = "reply" /\ reply[a] = Ack => Claimed(Id(a[1]))
    /\ \A c \in Calls : data[c] = Ack => Claimed(Id(c))
    /\ \A c \in Calls : answer[c] = Ack => Claimed(Id(c))

LEMMA AckInit == Init => AckInv
  BY SentinelAssumption DEF Init, AckInv, SentinelAssumption, Values, Replies

\* An accepted id stays accepted: a crash moves it from dedup to wiped.
LEMMA ClaimedStays ==
    ASSUME TypeOK, [Next]_vars, NEW i \in Ids, Claimed(i)
    PROVE  Claimed(i)'
  <1>1. ASSUME NEW c \in Calls, RouterStep(c) PROVE UNCHANGED <<dedup, wiped>>
    BY <1>1 DEF RouterStep, ClientCall, Send, Tick, StopRetrying, DeadlineExpires,
          AnswerTimeout, AnswerOk, AnswerPanics, shardVars
  <1>2. ASSUME NEW a \in Attempts, AttemptStep(a)
        PROVE  dedup \subseteq dedup' /\ wiped' = wiped
    BY <1>2 DEF AttemptStep, SetResponse, Cancel, Lose, ShardClaim,
                ShardDuplicate, ShardApply, ShardGet, shardVars
  <1>3. ASSUME NEW s \in Shards, Crash(s)
        PROVE  dedup \cup wiped \subseteq dedup' \cup wiped'
    BY <1>3 DEF Crash, TypeOK
  <1>4. CASE UNCHANGED vars
    BY <1>4 DEF vars, shardVars, Claimed
  <1> QED
    BY <1>1, <1>2, <1>3, <1>4 DEF Next, Claimed

LEMMA AckNext == DedupInv /\ AckInv /\ [Next]_vars => AckInv'
  <1> SUFFICES ASSUME DedupInv, AckInv, [Next]_vars PROVE AckInv'
    OBVIOUS
  <1> USE DEF DedupInv
  <1>0. /\ \A i \in Ids : Claimed(i) => Claimed(i)'
        /\ \A c \in Calls : Id(c) \in Ids
        /\ \A a \in Attempts : a[1] \in Calls
        /\ Nil # Ack /\ Timeout # Ack /\ \A v \in Values : v # Ack
    BY ClaimedStays, ConstantTypes, AttemptType, SentinelAssumption
    DEF SentinelAssumption, Replies
  \* The four conjuncts, for a step that makes no new Ack.
  <1>1. ASSUME \A i \in Ids : responses'[i] # NoCall => Id(responses'[i]) = i,
               \A a \in Attempts : stage'[a] = "reply" /\ reply'[a] = Ack =>
                    stage[a] = "reply" /\ reply[a] = Ack,
               \A c \in Calls : data'[c] = Ack => data[c] = Ack,
               \A c \in Calls : answer'[c] = Ack => answer[c] = Ack
        PROVE  AckInv'
    BY <1>0, <1>1 DEF AckInv, Id
  <1>2. ASSUME NEW c \in Calls,
               ClientCall(c) \/ Send(c) \/ Tick(c) \/ StopRetrying(c) \/ DeadlineExpires(c)
                 \/ AnswerTimeout(c) \/ AnswerPanics(c)
        PROVE  AckInv'
    <2>1. \A i \in Ids : responses'[i] # NoCall => Id(responses'[i]) = i
      BY <1>2, <1>0 DEF AckInv, TypeOK, ClientCall, Send, Tick, StopRetrying,
            DeadlineExpires, AnswerTimeout, AnswerPanics, routerVars, Id
    <2>2. /\ \A a \in Attempts : stage'[a] = "reply" => stage[a] = "reply"
          /\ reply' = reply /\ data' = data
          /\ \A d \in Calls : answer'[d] = Ack => answer[d] = Ack
      BY <1>2, <1>0 DEF TypeOK, ClientCall, Send, Tick, StopRetrying, DeadlineExpires,
            AnswerTimeout, AnswerPanics, routerVars, attemptVars
    <2> QED
      BY <1>1, <2>1, <2>2
  <1>3. ASSUME NEW c \in Calls, AnswerOk(c) PROVE AckInv'
    <2> DEFINE e == responses[Id(c)]
    <2>1. /\ e \in Calls /\ Id(e) = Id(c)
          /\ answer' = [answer EXCEPT ![c] = data[e]]
          /\ responses' = [responses EXCEPT ![Id(c)] = NoCall]
          /\ data' = [data EXCEPT ![e] = Nil]
          /\ UNCHANGED <<stage, reply, dedup, wiped>>
      BY <1>0, <1>3 DEF AnswerOk, AckInv, TypeOK, attemptVars, shardVars
    <2> HIDE DEF e
    <2>2. \A i \in Ids : responses'[i] # NoCall => Id(responses'[i]) = i
      BY <1>0, <2>1 DEF AckInv, TypeOK
    <2>3. \A d \in Calls : answer'[d] = Ack => Claimed(Id(d))'
      BY <1>0, <2>1 DEF AckInv, TypeOK, Claimed, Id
    <2>4. \A d \in Calls : data'[d] = Ack => Claimed(Id(d))'
      BY <1>0, <2>1 DEF AckInv, TypeOK, Claimed, Id
    <2> QED
      BY <1>0, <2>1, <2>2, <2>3, <2>4 DEF AckInv, Id, Claimed
  <1>4. ASSUME NEW a \in Attempts, SetResponse(a) PROVE AckInv'
    <2>1. CASE responses[Id(a[1])] = NoCall
      BY <1>0, <1>1, <1>4, <2>1 DEF AckInv, TypeOK, SetResponse
    <2>2. CASE responses[Id(a[1])] # NoCall
      <3> DEFINE e == responses[Id(a[1])]
      <3>1. /\ e \in Calls /\ Id(e) = Id(a[1]) /\ stage[a] = "reply"
            /\ data' = [data EXCEPT ![e] = reply[a]]
            /\ stage' = [stage EXCEPT ![a] = "notify"]
            /\ reply' = [reply EXCEPT ![a] = Nil]
            /\ UNCHANGED <<responses, answer, dedup, wiped>>
        BY <1>0, <1>4, <2>2 DEF SetResponse, AckInv, TypeOK, shardVars
      <3> HIDE DEF e
      <3>2. \A d \in Calls : data'[d] = Ack => Claimed(Id(d))'
        BY <1>0, <3>1 DEF AckInv, TypeOK, Claimed, Id
      <3>3. \A b \in Attempts : stage'[b] = "reply" /\ reply'[b] = Ack =>
                 Claimed(Id(b[1]))'
        BY <1>0, <3>1 DEF AckInv, TypeOK, Claimed, Id
      <3> QED
        BY <1>0, <3>1, <3>2, <3>3 DEF AckInv, Id, Claimed
    <2> QED
      BY <2>1, <2>2
  <1>5. ASSUME NEW a \in Attempts, Cancel(a) \/ Lose(a) \/ ShardClaim(a) \/ ShardGet(a)
        PROVE  AckInv'
    <2>1. \A b \in Attempts : stage'[b] = "reply" /\ reply'[b] = Ack =>
               stage[b] = "reply" /\ reply[b] = Ack
      BY <1>0, <1>5, ConstantTypes
      DEF TypeOK, Cancel, Lose, ShardClaim, ShardGet, Values
    <2>2. UNCHANGED <<responses, data, answer>>
      BY <1>5 DEF Cancel, Lose, ShardClaim, ShardGet, routerVars
    <2> QED
      BY <1>1, <2>1, <2>2 DEF AckInv
  <1>6. ASSUME NEW a \in Attempts, ShardDuplicate(a) \/ ShardApply(a) PROVE AckInv'
    <2>1. /\ Id(a[1]) \in dedup /\ dedup' = dedup /\ wiped' = wiped
          /\ UNCHANGED <<responses, data, answer>>
          /\ \A b \in Attempts : b # a => stage'[b] = stage[b] /\ reply'[b] = reply[b]
      BY <1>6 DEF TypeOK, ClaimInv, ShardDuplicate, ShardApply, routerVars, shardVars
    <2> QED
      BY <1>0, <2>1 DEF AckInv, Claimed, Id
  <1>7. ASSUME NEW s \in Shards, Crash(s) PROVE AckInv'
    <2>1. /\ UNCHANGED <<responses, data, answer, reply>>
          /\ \A b \in Attempts : stage'[b] = "reply" => stage[b] = "reply"
      BY <1>7 DEF Crash, routerVars
    <2> QED
      BY <1>1, <2>1 DEF AckInv
  <1>8. CASE UNCHANGED vars
    BY <1>1, <1>8 DEF AckInv, vars, routerVars, attemptVars
  <1> QED
    BY <1>2, <1>3, <1>4, <1>5, <1>6, <1>7, <1>8 DEF Next, RouterStep, AttemptStep

\* A write answered OK has been applied, or will be by the goroutine that holds
\* the claim, or a crash of its shard discarded it; also when ids are repeated.
THEOREM AckedIsClaimedHolds == Spec => []AckedIsClaimed
  <1>1. Init => DedupInv /\ AckInv
    BY DedupInit, AckInit
  <1>2. DedupInv /\ AckInv /\ [Next]_vars => (DedupInv /\ AckInv)'
    BY TypeNext, UnsentNext, ClaimNext, AckNext DEF DedupInv
  <1>3. DedupInv /\ AckInv => AckedIsClaimed
    BY DEF DedupInv, ClaimInv, AckInv, Claimed, AckedIsClaimed
  <1> QED
    BY <1>1, <1>2, <1>3, PTL DEF Spec

----------------------------------------------------------------------------
(* The response table, when every call carries an id of its own.            *)

\* What a waiting handler relies on: it finds its own entry, with Data in it if
\* a response cancelled its context.
TableInv ==
    /\ TableKeepsOnlyTimeouts
    /\ \A c \in Calls : ctx[c] = "none" => phase[c] = "idle"
    /\ \A c \in Calls : phase[c] # "returned" => answer[c] = Nil
    /\ \A c \in Calls : phase[c] = "idle" => data[c] = Nil
    /\ \A c \in Calls : phase[c] = "waiting" /\ ctx[c] = "canceled" => data[c] # Nil
    /\ \A a \in Attempts : stage[a] = "notify" =>
          /\ phase[ready[a]] # "idle"
          /\ phase[ready[a]] = "waiting" => data[ready[a]] # Nil

LEMMA TableInit == Init => TableInv
  BY DEF Init, TableInv, TableKeepsOnlyTimeouts

\* A step that leaves the handlers, their contexts and the table alone, and
\* starts no notification.
LEMMA TableStutter ==
    ASSUME TableInv, UNCHANGED <<phase, ctx, responses, data, answer, ready>>,
           \A a \in Attempts : stage'[a] = "notify" => stage[a] = "notify"
    PROVE  TableInv'
  BY DEF TableInv, TableKeepsOnlyTimeouts, Id

\* The entry under the id of a call is the call's own, or there is none.
LEMMA OwnEntry ==
    ASSUME UniqueIds, TypeOK, TableInv, NEW c \in Calls, responses[Id(c)] # NoCall
    PROVE  responses[Id(c)] = c /\ phase[c] # "idle"
  <1>1. Id(c) \in Ids /\ responses[Id(c)] \in Calls
    BY ConstantTypes DEF TypeOK
  <1>2. responses[Id(c)] = c
    BY <1>1 DEF TableInv, TableKeepsOnlyTimeouts, UniqueIds, Id
  <1>3. phase[c] = "waiting" \/ answer[c] = Timeout
    BY <1>1, <1>2 DEF TableInv, TableKeepsOnlyTimeouts
  <1> QED
    BY <1>2, <1>3, SentinelAssumption DEF TableInv, SentinelAssumption

\* A handler that waits on a context that is done finds its entry, and Data
\* unless the deadline passed: it cannot panic.
LEMMA NoPanic ==
    ASSUME UniqueIds, TypeOK, TableInv, NEW c \in Calls
    PROVE  ~ AnswerPanics(c)
  <1> SUFFICES ASSUME AnswerPanics(c) PROVE FALSE
    OBVIOUS
  <1>1. phase[c] = "waiting" /\ responses[Id(c)] = c
    BY DEF AnswerPanics, TableInv, TableKeepsOnlyTimeouts
  <1>2. c # NoCall
    BY SentinelAssumption DEF SentinelAssumption
  <1>3. ctx[c] = "canceled" /\ data[c] = Nil
    BY <1>1, <1>2 DEF AnswerPanics, TableInv, TypeOK
  <1> QED
    BY <1>1, <1>3 DEF TableInv

LEMMA TableNext ==
    ASSUME UniqueIds, TypeOK, TableInv, [Next]_vars
    PROVE  TableInv' /\ routerUp' = routerUp
  <1> USE SentinelAssumption DEF SentinelAssumption
  <1>0. /\ \A c \in Calls : Id(c) \in Ids
        /\ \A c, d \in Calls : Id(c) = Id(d) => c = d
        /\ \A a \in Attempts : a[1] \in Calls
    BY ConstantTypes, AttemptType DEF UniqueIds, Id
  <1>1. ASSUME NEW c \in Calls, ClientCall(c) PROVE TableInv'
    <2>1. /\ phase[c] = "idle" /\ data[c] = Nil /\ answer[c] = Nil
          /\ phase' = [phase EXCEPT ![c] = "waiting"]
          /\ ctx' = [ctx EXCEPT ![c] = "live"]
          /\ responses' = [responses EXCEPT ![Id(c)] = c]
          /\ UNCHANGED <<data, answer, stage, ready>>
      BY <1>1 DEF ClientCall, attemptVars, TableInv
    <2>2. TableKeepsOnlyTimeouts'
      BY <1>0, <2>1 DEF TableInv, TableKeepsOnlyTimeouts, TypeOK, Id
    <2>3. \A a \in Attempts : stage'[a] = "notify" =>
             /\ phase'[ready'[a]] # "idle"
             /\ phase'[ready'[a]] = "waiting" => data'[ready'[a]] # Nil
      BY <2>1 DEF TableInv, TypeOK
    <2> QED
      BY <2>1, <2>2, <2>3 DEF TableInv, TypeOK
  <1>2. ASSUME NEW c \in Calls, Send(c) \/ Tick(c) \/ StopRetrying(c) PROVE TableInv'
    <2>1. \A a \in Attempts : stage'[a] = "notify" => stage[a] = "notify"
      BY <1>2 DEF Send, Tick, StopRetrying, attemptVars, TypeOK
    <2> QED
      BY <1>2, <2>1, TableStutter
      DEF Send, Tick, StopRetrying, routerVars, attemptVars
  <1>3. ASSUME NEW c \in Calls, DeadlineExpires(c) PROVE TableInv'
    <2>1. /\ ctx' = [ctx EXCEPT ![c] = "deadline"] /\ ctx[c] = "live"
          /\ UNCHANGED <<phase, responses, data, answer, stage, ready>>
      BY <1>3 DEF DeadlineExpires, attemptVars
    <2> QED
      BY <2>1 DEF TableInv, TableKeepsOnlyTimeouts, TypeOK, Id
  <1>4. ASSUME NEW c \in Calls, AnswerTimeout(c) PROVE TableInv'
    <2>1. /\ phase[c] = "waiting"
          /\ phase' = [phase EXCEPT ![c] = "returned"]
          /\ answer' = [answer EXCEPT ![c] = Timeout]
          /\ UNCHANGED <<ctx, responses, data, stage, ready>>
      BY <1>4 DEF AnswerTimeout, attemptVars
    <2> QED
      BY <2>1 DEF TableInv, TableKeepsOnlyTimeouts, TypeOK, Id
  <1>5. ASSUME NEW c \in Calls, AnswerOk(c) PROVE TableInv'
    <2>1. /\ phase[c] = "waiting" /\ responses[Id(c)] = c
          /\ phase' = [phase EXCEPT ![c] = "returned"]
          /\ answer' = [answer EXCEPT ![c] = data[c]]
          /\ responses' = [responses EXCEPT ![Id(c)] = NoCall]
          /\ data' = [data EXCEPT ![c] = Nil]
          /\ UNCHANGED <<ctx, stage, ready>>
      BY <1>5, OwnEntry DEF AnswerOk, attemptVars
    <2>2. TableKeepsOnlyTimeouts'
      BY <1>0, <2>1 DEF TableInv, TableKeepsOnlyTimeouts, TypeOK, Id
    <2>3. \A a \in Attempts : stage'[a] = "notify" =>
             /\ phase'[ready'[a]] # "idle"
             /\ phase'[ready'[a]] = "waiting" => data'[ready'[a]] # Nil
      BY <2>1 DEF TableInv, TypeOK
    <2> QED
      BY <2>1, <2>2, <2>3 DEF TableInv, TypeOK
  <1>6. ASSUME NEW a \in Attempts, SetResponse(a) PROVE TableInv'
    <2>1. CASE responses[Id(a[1])] = NoCall
      <3>1. /\ UNCHANGED <<phase, ctx, responses, data, answer, ready>>
            /\ \A b \in Attempts : stage'[b] = "notify" => stage[b] = "notify"
        BY <1>6, <2>1 DEF SetResponse, TypeOK
      <3> QED
        BY <3>1, TableStutter
    <2>2. CASE responses[Id(a[1])] # NoCall
      <3>1. /\ phase[a[1]] # "idle" /\ a[1] \in Calls /\ reply[a] # Nil
            /\ data' = [data EXCEPT ![a[1]] = reply[a]]
            /\ stage' = [stage EXCEPT ![a] = "notify"]
            /\ ready' = [ready EXCEPT ![a] = a[1]]
            /\ UNCHANGED <<phase, ctx, responses, answer>>
        <4>1. a[1] \in Calls
          BY <1>0
        <4>2. responses[Id(a[1])] = a[1] /\ phase[a[1]] # "idle"
          BY <2>2, <4>1, OwnEntry
        <4> QED
          BY <1>6, <2>2, <4>1, <4>2 DEF SetResponse, TypeOK
      <3>2. \A b \in Attempts : stage'[b] = "notify" =>
               /\ phase'[ready'[b]] # "idle"
               /\ phase'[ready'[b]] = "waiting" => data'[ready'[b]] # Nil
        BY <3>1 DEF TableInv, TypeOK
      <3>3. TableKeepsOnlyTimeouts'
        BY <3>1 DEF TableInv, TableKeepsOnlyTimeouts, Id
      <3> QED
        BY <3>1, <3>2, <3>3 DEF TableInv, TypeOK
    <2> QED
      BY <2>1, <2>2
  <1>7. ASSUME NEW a \in Attempts, Cancel(a) PROVE TableInv'
    <2>1. /\ stage[a] = "notify" /\ ready[a] \in Calls
          /\ ctx' = [ctx EXCEPT ![ready[a]] = IF ctx[ready[a]] = "live"
                                              THEN "canceled" ELSE ctx[ready[a]]]
          /\ stage' = [stage EXCEPT ![a] = "done"]
          /\ ready' = [ready EXCEPT ![a] = NoCall]
          /\ UNCHANGED <<phase, responses, data, answer>>
      BY <1>7 DEF Cancel, TypeOK
    <2>2. \A c \in Calls : phase[c] = "waiting" /\ ctx'[c] = "canceled" => data[c] # Nil
      BY <2>1 DEF TableInv, TypeOK
    <2>3. \A c \in Calls : ctx'[c] = "none" => ctx[c] = "none"
      BY <2>1 DEF TypeOK
    <2>4. \A b \in Attempts : stage'[b] = "notify" => stage[b] = "notify" /\ ready'[b] = ready[b]
      BY <2>1 DEF TypeOK
    <2>5. TableKeepsOnlyTimeouts'
      BY <2>1 DEF TableInv, TableKeepsOnlyTimeouts, Id
    <2> QED
      BY <2>1, <2>2, <2>3, <2>4, <2>5 DEF TableInv
  <1>8. ASSUME NEW a \in Attempts,
               Lose(a) \/ ShardClaim(a) \/ ShardDuplicate(a) \/ ShardApply(a) \/ ShardGet(a)
        PROVE  TableInv'
    <2>1. \A b \in Attempts : stage'[b] = "notify" => stage[b] = "notify"
      BY <1>8 DEF TypeOK, Lose, ShardClaim, ShardDuplicate, ShardApply, ShardGet
    <2>2. UNCHANGED <<phase, ctx, responses, data, answer, ready>>
      BY <1>8 DEF Lose, ShardClaim, ShardDuplicate, ShardApply, ShardGet, routerVars
    <2> QED
      BY <2>1, <2>2, TableStutter
  <1>9. ASSUME NEW s \in Shards, Crash(s) PROVE TableInv'
    BY <1>9, TableStutter DEF Crash, routerVars
  <1>10. CASE UNCHANGED vars
    BY <1>10, TableStutter DEF vars, routerVars, attemptVars
  <1>11. TableInv'
    BY <1>1, <1>2, <1>3, <1>4, <1>5, <1>6, <1>7, <1>8, <1>9, <1>10, NoPanic
    DEF Next, RouterStep, AttemptStep
  <1>12. routerUp' = routerUp
    <2>1. ASSUME NEW c \in Calls, RouterStep(c) PROVE routerUp' = routerUp
      BY <2>1, NoPanic DEF RouterStep, ClientCall, Send, Tick, StopRetrying,
         DeadlineExpires, AnswerTimeout, AnswerOk, routerVars
    <2>2. ASSUME NEW a \in Attempts, AttemptStep(a) PROVE routerUp' = routerUp
      BY <2>2 DEF AttemptStep, SetResponse, Cancel, Lose, ShardClaim,
         ShardDuplicate, ShardApply, ShardGet, routerVars
    <2> QED
      BY <2>1, <2>2 DEF Next, Crash, vars, routerVars
  <1> QED
    BY <1>11, <1>12

LEMMA TableInvariant ==
    ASSUME UniqueIds
    PROVE  Spec => [](TypeOK /\ TableInv /\ routerUp)
  <1>1. Init => TypeOK /\ TableInv /\ routerUp
    BY TypeInit, TableInit DEF Init
  <1>2. TypeOK /\ TableInv /\ routerUp /\ [Next]_vars =>
          (TypeOK /\ TableInv /\ routerUp)'
    BY TypeNext, TableNext
  <1> QED
    BY <1>1, <1>2, PTL DEF Spec

\* With an id of its own for every call no client handler panics, whatever is
\* lost, repeated or late.
THEOREM RouterStaysUpHolds ==
    ASSUME UniqueIds
    PROVE  Spec => []RouterStaysUp
  BY TableInvariant, PTL DEF RouterStaysUp

\* With an id of its own for every call, a waiting handler finds its own entry,
\* and the only entries that outlive their call are those of calls that timed out.
THEOREM TableKeepsOnlyTimeoutsHolds ==
    ASSUME UniqueIds
    PROVE  Spec => []TableKeepsOnlyTimeouts
  <1>1. TableInv => TableKeepsOnlyTimeouts
    BY DEF TableInv
  <1> QED
    BY <1>1, TableInvariant, PTL

----------------------------------------------------------------------------
(* Reads, when every get carries an id of its own; writes may repeat theirs. *)

OwnGetIds ==
    \A c, d \in Calls : IdOf[c] = IdOf[d] /\ OpOf[IdOf[c]] = "get" => c = d

WaitingGet(c) == Op(c) = "get" /\ phase[c] = "waiting"

\* While a get waits, seen holds the present value of its key and whatever its
\* attempts have read; no attempt, entry or Data is older than its call.
ReadInv ==
    /\ \A c \in Calls : retrier[c] # "off" => phase[c] # "idle"
    /\ \A a \in Attempts : stage[a] # "unsent" => phase[a[1]] # "idle"
    /\ \A a \in Attempts : stage[a] = "claimed" => IsWrite(a[1])
    /\ \A i \in Ids : responses[i] # NoCall =>
          Id(responses[i]) = i /\ phase[responses[i]] # "idle"
    /\ \A c \in Calls : phase[c] = "idle" => data[c] = Nil
    /\ \A c \in Calls : phase[c] # "returned" => answer[c] = Nil
    /\ \A c \in Calls : WaitingGet(c) => storage[Key(c)] \in seen[c]
    /\ \A a \in Attempts : WaitingGet(a[1]) /\ stage[a] = "reply" => reply[a] \in seen[a[1]]
    /\ \A c \in Calls : WaitingGet(c) /\ data[c] # Nil => data[c] \in seen[c]
    /\ GetReadsDuringCall

LEMMA ReadInit == Init => ReadInv
  BY DEF Init, ReadInv, WaitingGet, GetReadsDuringCall

\* The entry a response or a handler finds under an id is of a call with that
\* id; if that is a get, it is the call itself.
LEMMA EntryOfGet ==
    ASSUME OwnGetIds, TypeOK, ReadInv, NEW c \in Calls, responses[Id(c)] # NoCall
    PROVE  /\ responses[Id(c)] \in Calls
           /\ Id(responses[Id(c)]) = Id(c)
           /\ phase[responses[Id(c)]] # "idle"
           /\ Op(c) = "get" => responses[Id(c)] = c
  <1>1. Id(c) \in Ids /\ responses[Id(c)] \in Calls
    BY ConstantTypes DEF TypeOK
  <1>2. Id(responses[Id(c)]) = Id(c) /\ phase[responses[Id(c)]] # "idle"
    BY <1>1 DEF ReadInv
  <1> QED
    BY <1>1, <1>2 DEF OwnGetIds, Id, Op

\* The storage of the shard changes only together with seen.
LEMMA ObserveStorage ==
    ASSUME TypeOK, NEW ids \in SUBSET Ids, NEW v \in Values, seen' = Observe(ids, v),
           \A k \in Keys : storage'[k] = v \/ storage'[k] = storage[k],
           \A k \in Keys : storage'[k] # storage[k] => \E i \in ids : KeyOf[i] = k,
           \A c \in Calls : WaitingGet(c) => storage[Key(c)] \in seen[c]
    PROVE  /\ \A c \in Calls : seen[c] \subseteq seen'[c]
           /\ \A c \in Calls : phase[c] # "waiting" => seen'[c] = seen[c]
           /\ \A c \in Calls : WaitingGet(c) => storage'[Key(c)] \in seen'[c]
  <1>1. \A c \in Calls : seen'[c] =
            IF WaitingGet(c) /\ Key(c) \in {KeyOf[i] : i \in ids}
            THEN seen[c] \cup {v} ELSE seen[c]
    BY DEF Observe, WaitingGet
  <1>2. \A c \in Calls : Key(c) \in Keys
    BY ConstantTypes
  <1>3. \A k \in Keys : (\E i \in ids : KeyOf[i] = k) => k \in {KeyOf[i] : i \in ids}
    OBVIOUS
  <1> QED
    BY <1>1, <1>2, <1>3 DEF WaitingGet

LEMMA ReadNext ==
    ASSUME OwnGetIds, TypeOK, ReadInv, [Next]_vars
    PROVE  ReadInv'
  <1> USE SentinelAssumption DEF SentinelAssumption
  <1>0. /\ \A c \in Calls : Id(c) \in Ids /\ Key(c) \in Keys
        /\ \A a \in Attempts : a[1] \in Calls
    BY ConstantTypes, AttemptType
  \* A step of the router that leaves the values read where they are.
  <1>1. ASSUME UNCHANGED <<reply, storage, seen>>,
               \A c \in Calls : retrier'[c] # "off" =>
                    retrier[c] # "off" \/ phase'[c] # "idle",
               \A c \in Calls : phase'[c] = phase[c] \/
                    (phase'[c] = "returned" /\ phase[c] # "idle"),
               \A a \in Attempts : stage'[a] = stage[a] \/
                    (stage'[a] \in {"request", "notify", "done"} /\ phase[a[1]] # "idle"),
               \A i \in Ids : responses'[i] = responses[i] \/ responses'[i] = NoCall,
               \A c \in Calls : data'[c] # data[c] /\ data'[c] # Nil =>
                    /\ phase[c] # "idle"
                    /\ WaitingGet(c) => data'[c] \in seen[c],
               \A c \in Calls : answer'[c] # answer[c] /\ answer'[c] # Nil =>
                    /\ phase'[c] = "returned"
                    /\ answer'[c] # Timeout /\ Op(c) = "get" => answer'[c] \in seen[c]
        PROVE  ReadInv'
    <2>1. \A i \in Ids : responses'[i] # NoCall =>
            Id(responses'[i]) = i /\ phase'[responses'[i]] # "idle"
      BY <1>1 DEF ReadInv, TypeOK
    <2>2. /\ \A c \in Calls : phase'[c] = "idle" => data'[c] = Nil
          /\ \A c \in Calls : phase'[c] # "returned" => answer'[c] = Nil
      BY <1>1 DEF ReadInv, TypeOK
    <2> QED
      BY <1>0, <1>1, <2>1, <2>2 DEF ReadInv, WaitingGet, GetReadsDuringCall, Op, Key, IsWrite, Id
  <1>2. ASSUME NEW c \in Calls, ClientCall(c) PROVE ReadInv'
    <2>1. /\ phase[c] = "idle" /\ data[c] = Nil /\ answer[c] = Nil
          /\ phase' = [phase EXCEPT ![c] = "waiting"]
          /\ responses' = [responses EXCEPT ![Id(c)] = c]
          /\ \A d \in Calls : d # c => seen'[d] = seen[d] /\ retrier'[d] = retrier[d]
          /\ Op(c) = "get" => seen'[c] = {storage[Key(c)]}
          /\ UNCHANGED <<data, answer, stage, reply, storage>>
      BY <1>2 DEF ClientCall, attemptVars, ReadInv, TypeOK
    <2>2. \A a \in Attempts : a[1] = c => stage[a] = "unsent"
      BY <2>1 DEF ReadInv
    <2>3. \A i \in Ids : responses'[i] # NoCall =>
             Id(responses'[i]) = i /\ phase'[responses'[i]] # "idle"
      BY <1>0, <2>1 DEF ReadInv, TypeOK
    <2>4. /\ \A d \in Calls : phase'[d] = "idle" => data'[d] = Nil
          /\ \A d \in Calls : phase'[d] # "returned" => answer'[d] = Nil
      BY <2>1 DEF ReadInv, TypeOK
    <2> QED
      BY <1>0, <2>1, <2>2, <2>3, <2>4
      DEF ReadInv, WaitingGet, GetReadsDuringCall, TypeOK, Op, Key, IsWrite, Id
  <1>3. ASSUME NEW c \in Calls, Send(c) PROVE ReadInv'
    <2>1. \A a \in Attempts : stage'[a] = stage[a] \/
             (stage'[a] = "request" /\ phase[a[1]] # "idle")
      BY <1>3 DEF Send, TypeOK, ReadInv
    <2>2. /\ UNCHANGED <<reply, storage, seen, phase, data, answer, responses>>
          /\ \A d \in Calls : retrier'[d] # "off" => retrier[d] # "off"
      BY <1>3 DEF Send, TypeOK, routerVars, shardVars
    <2> QED
      BY <1>1, <2>1, <2>2
  <1>4. ASSUME NEW c \in Calls,
               Tick(c) \/ StopRetrying(c) \/ DeadlineExpires(c) \/ AnswerTimeout(c) \/ AnswerPanics(c)
        PROVE  ReadInv'
    <2>1. /\ UNCHANGED <<reply, storage, seen, stage, data, responses>>
          /\ \A d \in Calls : retrier'[d] # "off" => retrier[d] # "off"
          /\ \A d \in Calls : phase'[d] = phase[d] \/
                (phase'[d] = "returned" /\ phase[d] # "idle")
          /\ \A d \in Calls : answer'[d] = answer[d] \/
                (answer'[d] = Timeout /\ phase'[d] = "returned")
      BY <1>4 DEF Tick, StopRetrying, DeadlineExpires, AnswerTimeout, AnswerPanics, TypeOK,
                  routerVars, linkVars, attemptVars, shardVars
    <2> QED
      BY <1>1, <2>1
  <1>5. ASSUME NEW c \in Calls, AnswerOk(c) PROVE ReadInv'
    <2> DEFINE e == responses[Id(c)]
    <2>1. /\ phase[c] = "waiting" /\ e \in Calls /\ data[e] # Nil
          /\ Op(c) = "get" => e = c
          /\ phase' = [phase EXCEPT ![c] = "returned"]
          /\ answer' = [answer EXCEPT ![c] = data[e]]
          /\ data' = [data EXCEPT ![e] = Nil]
          /\ responses' = [responses EXCEPT ![Id(c)] = NoCall]
          /\ UNCHANGED <<reply, storage, seen, stage, retrier>>
      BY <1>5, EntryOfGet DEF AnswerOk, linkVars, attemptVars, shardVars
    <2> HIDE DEF e
    <2>2. Op(c) = "get" => data[e] \in seen[c]
      BY <2>1 DEF ReadInv, WaitingGet
    <2>3. /\ \A d \in Calls : phase'[d] = phase[d] \/
                (phase'[d] = "returned" /\ phase[d] # "idle")
          /\ \A d \in Calls : data'[d] = data[d] \/ data'[d] = Nil
          /\ \A d \in Calls : answer'[d] = answer[d] \/ (d = c /\ answer'[d] = data[e])
          /\ \A i \in Ids : responses'[i] = responses[i] \/ responses'[i] = NoCall
          /\ phase'[c] = "returned"
      BY <1>0, <2>1 DEF TypeOK
    <2> QED
      BY <1>1, <2>1, <2>2, <2>3
  <1>6. ASSUME NEW a \in Attempts, SetResponse(a) PROVE ReadInv'
    <2>1. \A b \in Attempts : WaitingGet(b[1]) /\ stage'[b] = "reply" =>
               reply'[b] \in seen[b[1]]
      BY <1>6 DEF SetResponse, ReadInv, TypeOK
    <2>2. /\ a[1] \in Calls /\ stage[a] = "reply"
          /\ \A b \in Attempts : b # a => stage'[b] = stage[b]
          /\ stage'[a] \in {"notify", "done"}
          /\ UNCHANGED <<phase, answer, retrier, storage, seen, responses>>
      BY <1>0, <1>6 DEF SetResponse, TypeOK, linkVars, shardVars
    <2>3. \/ data' = data
          \/ \E e \in Calls : /\ data' = [data EXCEPT ![e] = reply[a]]
                              /\ phase[e] # "idle" /\ Op(e) = Op(a[1])
                              /\ Op(e) = "get" => e = a[1]
      BY <1>6, <2>2, EntryOfGet DEF SetResponse, Op, Id
    <2>4. /\ \A c \in Calls : WaitingGet(c) /\ data'[c] # Nil => data'[c] \in seen[c]
          /\ \A c \in Calls : phase'[c] = "idle" => data'[c] = Nil
      BY <2>2, <2>3 DEF ReadInv, TypeOK, WaitingGet
    <2> QED
      BY <1>0, <2>1, <2>2, <2>4
      DEF ReadInv, WaitingGet, GetReadsDuringCall, Op, Key, IsWrite, Id
  <1>7. ASSUME NEW a \in Attempts, Cancel(a) PROVE ReadInv'
    <2>1. \A b \in Attempts : stage'[b] = stage[b] \/
             (stage'[b] = "done" /\ phase[b[1]] # "idle")
      BY <1>7 DEF Cancel, TypeOK, ReadInv
    <2>2. UNCHANGED <<reply, storage, seen, retrier, phase, data, answer, responses>>
      BY <1>7 DEF Cancel, linkVars, shardVars
    <2> QED
      BY <1>1, <2>1, <2>2
  <1>8. ASSUME NEW a \in Attempts,
               Lose(a) \/ ShardClaim(a) \/ ShardDuplicate(a) \/ ShardGet(a)
        PROVE  ReadInv'
    <2>1. UNCHANGED <<retrier, phase, storage, seen, data, answer, responses>>
      BY <1>8 DEF Lose, ShardClaim, ShardDuplicate, ShardGet, routerVars, linkVars, shardVars
    <2>2. /\ a[1] \in Calls /\ stage[a] # "unsent"
          /\ \A b \in Attempts : b # a => stage'[b] = stage[b] /\ reply'[b] = reply[b]
          /\ stage'[a] = "claimed" => IsWrite(a[1])
          /\ stage'[a] = "reply" => \/ IsWrite(a[1])
                                    \/ reply'[a] = storage[Key(a[1])]
      BY <1>0, <1>8 DEF TypeOK, Lose, ShardClaim, ShardDuplicate, ShardGet
    <2>3. WaitingGet(a[1]) => ~ IsWrite(a[1])
      BY DEF WaitingGet, IsWrite
    <2>4. \A b \in Attempts : WaitingGet(b[1]) /\ stage'[b] = "reply" =>
               reply'[b] \in seen[b[1]]
      BY <2>2, <2>3 DEF ReadInv
    <2> QED
      BY <1>0, <2>1, <2>2, <2>4
      DEF ReadInv, WaitingGet, GetReadsDuringCall, Op, Key, IsWrite, Id
  <1>9. ASSUME NEW a \in Attempts, ShardApply(a) PROVE ReadInv'
    <2> DEFINE i == Id(a[1])
    <2>1. /\ i \in Ids /\ KeyOf[i] \in Keys /\ Written(i) \in Values
          /\ stage[a] = "claimed" /\ IsWrite(a[1]) /\ a[1] \in Calls
          /\ UNCHANGED <<retrier, phase, data, answer, responses>>
      BY <1>0, <1>9, ConstantTypes, RequestAssumption
      DEF ShardApply, ReadInv, routerVars, linkVars, RequestAssumption
    <2>2. /\ storage' = [storage EXCEPT ![KeyOf[i]] = Written(i)]
          /\ seen' = Observe({i}, Written(i))
          /\ stage' = [stage EXCEPT ![a] = "reply"]
          /\ reply' = [reply EXCEPT ![a] = Ack]
      BY <1>9, Zenon DEF ShardApply
    <2> HIDE DEF i
    <2>3. /\ \A k \in Keys : storage'[k] = Written(i) \/ storage'[k] = storage[k]
          /\ \A k \in Keys : storage'[k] # storage[k] => \E j \in {i} : KeyOf[j] = k
          /\ {i} \in SUBSET Ids
      BY <2>1, <2>2 DEF TypeOK
    <2>4. /\ \A c \in Calls : seen[c] \subseteq seen'[c]
          /\ \A c \in Calls : phase[c] # "waiting" => seen'[c] = seen[c]
          /\ \A c \in Calls : WaitingGet(c) => storage'[Key(c)] \in seen'[c]
      BY <2>1, <2>2, <2>3, ObserveStorage DEF ReadInv
    <2>5. /\ \A b \in Attempts : b # a => stage'[b] = stage[b] /\ reply'[b] = reply[b]
          /\ stage'[a] = "reply" /\ ~ WaitingGet(a[1])
      BY <2>1, <2>2 DEF TypeOK, WaitingGet, IsWrite
    <2> QED
      BY <1>0, <2>1, <2>4, <2>5
      DEF ReadInv, WaitingGet, GetReadsDuringCall, Op, Key, IsWrite, Id
  <1>10. ASSUME NEW s \in Shards, Crash(s) PROVE ReadInv'
    <2> DEFINE gone == {i \in Ids : Home(i) = s}
    <2>1. /\ UNCHANGED <<retrier, phase, data, answer, reply, responses>>
          /\ \A b \in Attempts : stage'[b] = stage[b] \/
                (stage'[b] = "done" /\ stage[b] # "unsent")
          /\ \A k \in Keys : storage'[k] = IF ShardOf[k] = s THEN Missing ELSE storage[k]
          /\ seen' = Observe(gone, Missing)
      BY <1>10 DEF Crash, routerVars, linkVars
    <2>2. \A c \in Calls : seen'[c] =
            IF WaitingGet(c) /\ Key(c) \in {KeyOf[i] : i \in gone}
            THEN seen[c] \cup {Missing} ELSE seen[c]
      BY <2>1 DEF Observe, WaitingGet
    <2>3. \A c \in Calls : ShardOf[Key(c)] = s => Key(c) \in {KeyOf[i] : i \in gone}
      BY <1>0 DEF Key, Id, Home
    <2>4. \A c \in Calls : WaitingGet(c) => storage'[Key(c)] \in seen'[c]
      BY <1>0, <2>1, <2>2, <2>3 DEF ReadInv
    <2>5. /\ \A c \in Calls : seen[c] \subseteq seen'[c]
          /\ \A c \in Calls : phase[c] # "waiting" => seen'[c] = seen[c]
      BY <2>2 DEF WaitingGet
    <2> HIDE DEF gone
    <2> QED
      BY <1>0, <2>1, <2>4, <2>5
      DEF ReadInv, WaitingGet, GetReadsDuringCall, Op, Key, IsWrite, Id
  <1>11. CASE UNCHANGED vars
    BY <1>1, <1>11 DEF vars, routerVars, linkVars, attemptVars, shardVars
  <1> QED
    BY <1>2, <1>3, <1>4, <1>5, <1>6, <1>7, <1>8, <1>9, <1>10, <1>11
    DEF Next, RouterStep, AttemptStep

LEMMA ReadInvariant ==
    ASSUME OwnGetIds
    PROVE  Spec => [](TypeOK /\ ReadInv)
  <1>1. Init => TypeOK /\ ReadInv
    BY TypeInit, ReadInit
  <1>2. TypeOK /\ ReadInv /\ [Next]_vars => (TypeOK /\ ReadInv)'
    BY TypeNext, ReadNext
  <1> QED
    BY <1>1, <1>2, PTL DEF Spec

\* With an id of its own for every get, a get answers a value its key had at
\* some instant of the call, whichever attempt is answered and however late.
THEOREM GetReadsDuringCallHolds ==
    ASSUME OwnGetIds
    PROVE  Spec => []GetReadsDuringCall
  <1>1. ReadInv => GetReadsDuringCall
    BY DEF ReadInv
  <1> QED
    BY <1>1, ReadInvariant, PTL

----------------------------------------------------------------------------
(* Refinement: the request path keeps the promise of KVPromise.             *)

\* The shard answers a write with Ack and nothing else, and so does the router.
WriteInv ==
    /\ \A a \in Attempts : stage[a] = "reply" /\ IsWrite(a[1]) => reply[a] = Ack
    /\ \A c \in Calls : IsWrite(c) => data[c] \in {Nil, Ack}

LEMMA WriteInit == Init => WriteInv
  BY DEF Init, WriteInv

LEMMA WriteNext ==
    ASSUME OwnGetIds, TypeOK, ReadInv, WriteInv, [Next]_vars
    PROVE  WriteInv'
  <1>0. \A a \in Attempts : a[1] \in Calls
    BY AttemptType
  <1>1. ASSUME NEW c \in Calls, RouterStep(c) PROVE WriteInv'
    <2>1. /\ \A a \in Attempts : stage'[a] = "reply" => stage[a] = "reply"
          /\ reply' = reply
          /\ \A d \in Calls : data'[d] = data[d] \/ data'[d] = Nil
      BY <1>1 DEF TypeOK, RouterStep, ClientCall, Send, Tick, StopRetrying, DeadlineExpires,
         AnswerTimeout, AnswerOk, AnswerPanics, routerVars, attemptVars
    <2> QED
      BY <2>1 DEF WriteInv, IsWrite, Op
  <1>2. ASSUME NEW a \in Attempts, SetResponse(a) PROVE WriteInv'
    <2>1. /\ \A b \in Attempts : stage'[b] = "reply" => stage[b] = "reply" /\ reply'[b] = reply[b]
          /\ stage[a] = "reply" /\ a[1] \in Calls
      BY <1>0, <1>2 DEF SetResponse, TypeOK
    <2>2. \/ data' = data
          \/ \E e \in Calls : data' = [data EXCEPT ![e] = reply[a]] /\ Op(e) = Op(a[1])
      BY <1>2, <2>1, EntryOfGet DEF SetResponse, Op, Id
    <2> QED
      BY <2>1, <2>2 DEF WriteInv, IsWrite, TypeOK, Op
  <1>3. ASSUME NEW a \in Attempts, AttemptStep(a), ~ SetResponse(a) PROVE WriteInv'
    <2>1. /\ data' = data
          /\ \A b \in Attempts : stage'[b] = "reply" =>
                \/ stage[b] = "reply" /\ reply'[b] = reply[b]
                \/ reply'[b] = Ack
                \/ Op(b[1]) = "get"
      BY <1>3 DEF TypeOK, AttemptStep, Cancel, Lose, ShardClaim, ShardDuplicate,
         ShardApply, ShardGet, routerVars
    <2> QED
      BY <2>1 DEF WriteInv, IsWrite, Op
  <1>4. ASSUME NEW s \in Shards, Crash(s) PROVE WriteInv'
    <2>1. /\ UNCHANGED <<data, reply>>
          /\ \A b \in Attempts : stage'[b] = "reply" => stage[b] = "reply"
      BY <1>4 DEF Crash, routerVars
    <2> QED
      BY <2>1 DEF WriteInv, IsWrite, Op
  <1>5. CASE UNCHANGED vars
    BY <1>5 DEF WriteInv, vars, routerVars, attemptVars, IsWrite, Op
  <1> QED
    BY <1>1, <1>2, <1>3, <1>4, <1>5 DEF Next

\* What the refinement relies on.
PromiseInv == DedupInv /\ AckInv /\ ReadInv /\ WriteInv

LEMMA PromiseInvariant ==
    ASSUME OwnGetIds
    PROVE  Spec => []PromiseInv
  <1>1. Init => PromiseInv
    BY DedupInit, AckInit, ReadInit, WriteInit DEF PromiseInv
  <1>2. PromiseInv /\ [Next]_vars => PromiseInv'
    BY TypeNext, UnsentNext, ClaimNext, AckNext, ReadNext, WriteNext DEF PromiseInv, DedupInv
  <1> QED
    BY <1>1, <1>2, PTL DEF Spec

\* The status of one id changes, that of the others does not.
LEMMA StatusChange ==
    ASSUME NEW i \in Ids, NEW v, Status'[i] = v,
           \A j \in Ids : j # i => Status'[j] = Status[j]
    PROVE  Status' = [Status EXCEPT ![i] = v]
  <1>1. Status' = [j \in Ids |-> Status'[j]] /\ DOMAIN Status = Ids
    BY DEF Status
  <1>2. [Status EXCEPT ![i] = v] = [j \in Ids |-> IF j = i THEN v ELSE Status[j]]
    BY <1>1
  <1> QED
    BY <1>1, <1>2

LEMMA PromiseInit == Init => Promise!Init
  BY DEF Init, Promise!Init, Status

\* A step that touches nothing of what KVPromise speaks of.
LEMMA PromiseStutter ==
    ASSUME UNCHANGED <<phase, answer, storage, dedup, applied, wiped, seen>>
    PROVE  UNCHANGED Promise!vars
  BY DEF Promise!vars, Status

LEMMA PromiseRouter ==
    ASSUME PromiseInv, OwnGetIds, NEW c \in Calls, RouterStep(c)
    PROVE  [Promise!Next]_(Promise!vars)
  <1> USE SentinelAssumption DEF SentinelAssumption, PromiseInv, DedupInv
  <1>1. CASE ClientCall(c)
    <2>1. Promise!Invoke(c)
      BY <1>1 DEF ClientCall, Promise!Invoke, Status, Op, Key
    <2> QED
      BY <2>1 DEF Promise!Next
  <1>2. CASE Send(c) \/ Tick(c) \/ StopRetrying(c) \/ DeadlineExpires(c) \/ AnswerPanics(c)
    <2>1. UNCHANGED <<phase, answer, storage, dedup, applied, wiped, seen>>
      BY <1>2 DEF Send, Tick, StopRetrying, DeadlineExpires, AnswerPanics, routerVars, shardVars
    <2> QED
      BY <2>1, PromiseStutter
  <1>3. CASE AnswerTimeout(c)
    <2>1. /\ phase[c] = "waiting"
          /\ phase' = [phase EXCEPT ![c] = "returned"]
          /\ answer' = [answer EXCEPT ![c] = Timeout]
          /\ UNCHANGED <<storage, dedup, applied, wiped, seen>>
      BY <1>3 DEF AnswerTimeout, shardVars
    <2>2. Promise!MayAnswer(c, Timeout)
      BY DEF Promise!MayAnswer
    <2>3. Promise!Return(c)
      BY <2>1, <2>2 DEF Promise!Return, Status
    <2> QED
      BY <2>3 DEF Promise!Next
  <1>4. CASE AnswerOk(c)
    <2> DEFINE e == responses[Id(c)]
    <2>1. /\ phase[c] = "waiting" /\ e \in Calls /\ Id(e) = Id(c)
          /\ data[e] \in Replies
          /\ Op(c) = "get" => e = c
          /\ phase' = [phase EXCEPT ![c] = "returned"]
          /\ answer' = [answer EXCEPT ![c] = data[e]]
          /\ UNCHANGED <<storage, dedup, applied, wiped, seen>>
      BY <1>4, EntryOfGet DEF AnswerOk, TypeOK, shardVars
    <2> HIDE DEF e
    <2>2. CASE Op(c) = "get"
      <3>1. data[e] \in seen[c]
        BY <2>1, <2>2 DEF ReadInv, WaitingGet
      <3> QED
        BY <2>1, <2>2, <3>1 DEF Promise!Next, Promise!Return, Promise!MayAnswer, Status, Op, Replies, Values
    <2>3. CASE Op(c) # "get"
      <3>1. IsWrite(e)
        BY <2>1, <2>3, ConstantTypes DEF IsWrite, Op, Id, Ops
      <3>2. data[e] = Ack
        BY <2>1, <3>1 DEF WriteInv, Replies
      <3>3. Claimed(Id(c))
        BY <2>1, <3>2 DEF AckInv
      <3>4. Promise!MayAnswer(c, Ack)
        BY <2>3, <3>3, ConstantTypes DEF Promise!MayAnswer, Status, Claimed, Op, Id
      <3> QED
        BY <2>1, <3>2, <3>4 DEF Promise!Next, Promise!Return, Status
    <2> QED
      BY <2>2, <2>3
  <1> QED
    BY <1>1, <1>2, <1>3, <1>4 DEF RouterStep

LEMMA PromiseAttempt ==
    ASSUME PromiseInv, NEW a \in Attempts, AttemptStep(a)
    PROVE  [Promise!Next]_(Promise!vars)
  <1> DEFINE i == Id(a[1])
  <1> USE DEF PromiseInv, DedupInv
  <1>0. /\ a[1] \in Calls /\ i \in Ids /\ IdOf[a[1]] = i
        /\ IsWrite(a[1]) => OpOf[i] # "get"
    BY AttemptType, ConstantTypes DEF Id, IsWrite, Op
  <1>1. CASE SetResponse(a) \/ Cancel(a) \/ Lose(a) \/ ShardDuplicate(a) \/ ShardGet(a)
    <2>1. UNCHANGED <<phase, answer, storage, dedup, applied, wiped, seen>>
      BY <1>1 DEF SetResponse, Cancel, Lose, ShardDuplicate, ShardGet, routerVars, shardVars
    <2> QED
      BY <2>1, PromiseStutter
  <1>2. CASE ShardClaim(a)
    <2>1. /\ OpOf[i] # "get" /\ i \notin dedup /\ dedup' = dedup \cup {i}
          /\ phase[a[1]] # "idle"
          /\ UNCHANGED <<phase, answer, storage, applied, wiped, seen>>
      BY <1>0, <1>2 DEF ShardClaim, ReadInv, routerVars
    <2>2. applied[i] = 0
      BY <1>0, <2>1 DEF ClaimInv
    <2> HIDE DEF i
    <2>3. Promise!Accept(i)
      <3>1. /\ Status[i] = "none" /\ Status'[i] = "accepted"
            /\ \A j \in Ids : j # i => Status'[j] = Status[j]
        BY <1>0, <2>1, <2>2 DEF Status
      <3>2. Status' = [Status EXCEPT ![i] = "accepted"]
        BY <1>0, <3>1, StatusChange
      <3> QED
        BY <1>0, <2>1, <3>1, <3>2 DEF Promise!Accept
    <2> QED
      BY <1>0, <2>3 DEF Promise!Next
  <1>3. CASE ShardApply(a)
    <2>1. /\ i \in dedup /\ applied[i] = 0
      BY <1>0, <1>3 DEF ShardApply, ClaimInv, AtMostOnce, HoldsClaim
    <2>2. /\ storage' = [storage EXCEPT ![KeyOf[i]] = Written(i)]
          /\ applied' = [applied EXCEPT ![i] = applied[i] + 1]
          /\ seen' = Observe({i}, Written(i))
          /\ UNCHANGED <<phase, answer, dedup, wiped>>
      BY <1>3, Zenon DEF ShardApply, routerVars
    <2>3. applied' = [applied EXCEPT ![i] = 1] /\ applied \in [Ids -> Nat]
      BY <2>1, <2>2 DEF TypeOK
    <2> HIDE DEF i
    <2>4. seen' = Promise!Observe({i}, Promise!Written(i)) /\ Promise!Written(i) = Written(i)
      BY <2>2 DEF Observe, Promise!Observe, Written, Promise!Written, Op, Key
    <2>5. Promise!Effect(i)
      <3>1. /\ Status[i] = "accepted" /\ Status'[i] = "applied"
            /\ \A j \in Ids : j # i => Status'[j] = Status[j]
        BY <1>0, <2>1, <2>2, <2>3 DEF Status
      <3>2. Status' = [Status EXCEPT ![i] = "applied"]
        BY <1>0, <3>1, StatusChange
      <3> QED
        BY <2>2, <2>4, <3>1, <3>2 DEF Promise!Effect
    <2> QED
      BY <1>0, <2>5 DEF Promise!Next
  <1> QED
    BY <1>1, <1>2, <1>3 DEF AttemptStep

LEMMA PromiseCrash ==
    ASSUME PromiseInv, NEW s \in Shards, Crash(s)
    PROVE  [Promise!Next]_(Promise!vars)
  <1> DEFINE gone == {i \in Ids : Home(i) = s}
  <1> USE DEF PromiseInv, DedupInv
  <1>1. /\ storage' = [k \in Keys |-> IF ShardOf[k] = s THEN Missing ELSE storage[k]]
        /\ dedup' = dedup \ gone
        /\ applied' = [i \in Ids |-> IF i \in gone THEN 0 ELSE applied[i]]
        /\ wiped' = wiped \cup (dedup \cap gone)
        /\ seen' = Observe(gone, Missing)
        /\ UNCHANGED <<phase, answer>>
    BY DEF Crash, routerVars
  <1>2. gone = {i \in Ids : ShardOf[KeyOf[i]] = s}
    BY DEF Home
  <1> HIDE DEF gone
  <1>3. dedup \cap gone = {i \in gone : applied[i] > 0 \/ i \in dedup}
    BY <1>2 DEF ClaimInv, TypeOK
  <1>4. seen' = Promise!Observe(gone, Missing)
    BY <1>1 DEF Observe, Promise!Observe, Op, Key
  <1>5. Promise!Wipe(s)
    BY <1>1, <1>2, <1>3, <1>4 DEF Promise!Wipe, Status, TypeOK
  <1> QED
    BY <1>5 DEF Promise!Next

\* The request path implements the promise: whatever is lost, repeated or late,
\* whatever crashes, and though the router may end, a client sees nothing that
\* KVPromise does not allow.  Gets carry ids of their own, writes need not.
THEOREM KeepsPromiseHolds ==
    ASSUME OwnGetIds
    PROVE  Spec => KeepsPromise
  <1>1. PromiseInv /\ [Next]_vars => [Promise!Next]_(Promise!vars)
    <2>1. CASE UNCHANGED vars
      BY <2>1, PromiseStutter DEF vars, routerVars, shardVars
    <2> QED
      BY <2>1, PromiseRouter, PromiseAttempt, PromiseCrash DEF Next
  <1> QED
    BY <1>1, PromiseInit, PromiseInvariant, PTL DEF Spec, KeepsPromise, Promise!Spec

============================================================================
