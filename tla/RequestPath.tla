---------------------------- MODULE RequestPath ----------------------------
(***************************************************************************)
(* The path of one client request: the handler goroutine of the router, the *)
(* response table of its ConnectionManager, the retrying goroutine, a link  *)
(* that may lose messages, and one goroutine per delivered message at the   *)
(* shard.  The cluster configuration is fixed, so FindShard is a constant   *)
(* function of the key.                                                     *)
(*                                                                          *)
(* A put writes the id of its request: the stored value names its write.    *)
(* Every Send of the retrying goroutine is an attempt <<call, n>>, and the  *)
(* stage of an attempt says where its message, or the goroutine handling    *)
(* that message, is.                                                        *)
(***************************************************************************)
EXTENDS Naturals, FiniteSets

CONSTANTS
    Calls,         \* client calls, one handler goroutine of the router each
    Ids,           \* values of request_id
    IdOf,          \* [Calls -> Ids], the id a call carries
    OpOf,          \* [Ids -> {"put", "delete", "get"}]
    Keys,
    KeyOf,         \* [Ids -> Keys]
    Shards,
    ShardOf,       \* [Keys -> Shards], FindShard under the fixed configuration
    Undialed,      \* shards an ApplyClusterUpdate may fail to dial: a call finds
                   \* their Connection in peers, or nil
    MaxSends,      \* bound: [Calls -> Nat], Sends (5 s deadline, a tick a second)
    MaxCrashes,    \* bound: crashes of shard processes
    NoCall,        \* no entry in the response table
    Missing,       \* the key is not in the storage
    Ack,           \* ShardPutResponse and ShardDeleteResponse carry no value
    Nil,           \* ResponseInfo.Data before a response
    Timeout        \* TimeoutError

Ops    == {"put", "delete", "get"}
Values == Ids \cup {Missing}
Replies == Values \cup {Ack}

ASSUME RequestAssumption ==
    /\ IdOf \in [Calls -> Ids]
    /\ OpOf \in [Ids -> Ops]
    /\ KeyOf \in [Ids -> Keys]
    /\ ShardOf \in [Keys -> Shards]
    /\ Undialed \subseteq Shards
    /\ MaxSends \in [Calls -> Nat \ {0}]
    /\ MaxCrashes \in Nat

ASSUME SentinelAssumption ==
    /\ NoCall \notin Calls
    /\ Missing \notin Ids
    /\ Ack \notin Values
    /\ Nil \notin Replies
    /\ Timeout \notin Replies \cup {Nil}

Attempts == UNION {{c} \X (1 .. MaxSends[c]) : c \in Calls}

Id(c)       == IdOf[c]
Key(c)      == KeyOf[IdOf[c]]
Op(c)       == OpOf[IdOf[c]]
IsWrite(c)  == Op(c) \in {"put", "delete"}
Home(i)     == ShardOf[KeyOf[i]]

VARIABLES
    routerUp,      \* FALSE once a handler goroutine panicked: the process exits
    phase,         \* the client handler: idle, waiting on <-ctx.Done(), returned
    ctx,           \* its context: none, live, canceled (by a response), deadline
    responses,     \* [Ids -> Calls \cup {NoCall}], whose entry the table holds
    data,          \* ResponseInfo.Data of the entry a call created
    answer,        \* what the client was answered: a reply, Timeout, or Nil
    retrier,       \* the retrying goroutine: off, in Send, ticking (in its select)
    sends,         \* how many of its Sends came through
    stage,         \* [Attempts -> Stages]
    reply,         \* the response an attempt carries back
    ready,         \* the call whose cancelFunc SetResponse took out of the table
    storage,       \* [Keys -> Values], the key's value at its shard
    dedup,         \* ids in the Deduplication of their shard
    applied,       \* history: storage operations of an id, this incarnation
    wiped,         \* history: ids whose claim a crash of their shard discarded
    seen,          \* history: values of its key while a get waits
    crashes

routerVars  == <<routerUp, phase, ctx, responses, data, answer>>
linkVars    == <<retrier, sends>>
attemptVars == <<stage, reply, ready>>
shardVars   == <<storage, dedup, applied, wiped, seen, crashes>>
vars == <<routerVars, linkVars, attemptVars, shardVars>>

\* unsent; request: on its way to the shard; claimed: its goroutine won
\* AddIfAbsent and has not touched the storage; reply: the response is on its
\* way back; notify: Data is set, cancelFunc not called; done: lost or handled.
Stages == {"unsent", "request", "claimed", "reply", "notify", "done"}

Init ==
    /\ routerUp  = TRUE
    /\ phase     = [c \in Calls |-> "idle"]
    /\ ctx       = [c \in Calls |-> "none"]
    /\ responses = [i \in Ids |-> NoCall]
    /\ data      = [c \in Calls |-> Nil]
    /\ answer    = [c \in Calls |-> Nil]
    /\ retrier   = [c \in Calls |-> "off"]
    /\ sends     = [c \in Calls |-> 0]
    /\ stage     = [a \in Attempts |-> "unsent"]
    /\ reply     = [a \in Attempts |-> Nil]
    /\ ready     = [a \in Attempts |-> NoCall]
    /\ storage   = [k \in Keys |-> Missing]
    /\ dedup     = {}
    /\ applied   = [i \in Ids |-> 0]
    /\ wiped     = {}
    /\ seen      = [c \in Calls |-> {}]
    /\ crashes   = 0

----------------------------------------------------------------------------
(* The router's client handlers. *)

\* A handler starts: CreateResponse, FindShard, go retrying.  An entry of an
\* earlier call with the same id is overwritten.  A nil connection ends the
\* retrying goroutine before its first Send.
ClientCall(c) ==
    /\ routerUp
    /\ phase[c] = "idle"
    /\ phase'     = [phase EXCEPT ![c] = "waiting"]
    /\ ctx'       = [ctx EXCEPT ![c] = "live"]
    /\ responses' = [responses EXCEPT ![Id(c)] = c]
    /\ \E r \in {"sending"} \cup IF Home(Id(c)) \in Undialed THEN {"off"} ELSE {} :
          retrier' = [retrier EXCEPT ![c] = r]
    /\ seen'      = [seen EXCEPT ![c] = IF Op(c) = "get" THEN {storage[Key(c)]} ELSE {}]
    /\ UNCHANGED <<routerUp, data, answer, sends, attemptVars,
                   storage, dedup, applied, wiped, crashes>>

\* connection.Send comes through: the writer channel took the message.  It may
\* wait for that while the context ends, and for ever when nobody reconnects.
Send(c) ==
    /\ routerUp
    /\ retrier[c] = "sending"
    /\ sends[c] < MaxSends[c]
    /\ retrier' = [retrier EXCEPT ![c] = "ticking"]
    /\ sends' = [sends EXCEPT ![c] = @ + 1]
    /\ stage' = [stage EXCEPT ![<<c, sends[c] + 1>>] = "request"]
    /\ UNCHANGED <<routerVars, reply, ready, shardVars>>

\* case <-ticker.C of retrying, which select may prefer to a context that is
\* done already: the next Send.
Tick(c) ==
    /\ routerUp
    /\ retrier[c] = "ticking"
    /\ sends[c] < MaxSends[c]
    /\ retrier' = [retrier EXCEPT ![c] = "sending"]
    /\ UNCHANGED <<routerVars, sends, attemptVars, shardVars>>

\* Mutant: the loop leaves only when the deadline passed, not on a response.
StopRetryingOnDeadline(c) ==
    /\ routerUp
    /\ retrier[c] = "ticking"
    /\ ctx[c] = "deadline"
    /\ retrier' = [retrier EXCEPT ![c] = "off"]
    /\ UNCHANGED <<routerVars, sends, attemptVars, shardVars>>

\* case <-ctx.Done() of retrying.
StopRetrying(c) ==
    /\ routerUp
    /\ retrier[c] = "ticking"
    /\ ctx[c] # "live"
    /\ retrier' = [retrier EXCEPT ![c] = "off"]
    /\ UNCHANGED <<routerVars, sends, attemptVars, shardVars>>

\* Mutant: context.WithCancel in the place of context.WithTimeout.
DeadlineNever(c) == FALSE /\ UNCHANGED vars

\* The deadline of context.WithTimeout.
DeadlineExpires(c) ==
    /\ routerUp
    /\ ctx[c] = "live"
    /\ ctx' = [ctx EXCEPT ![c] = "deadline"]
    /\ UNCHANGED <<routerUp, phase, responses, data, answer,
                   linkVars, attemptVars, shardVars>>

\* GetResponse, error branch: the entry stays in the table.
AnswerTimeout(c) ==
    /\ routerUp
    /\ phase[c] = "waiting" /\ ctx[c] # "live"
    /\ LET entry == responses[Id(c)]
       IN  entry # NoCall /\ ctx[entry] = "deadline"
    /\ phase'  = [phase EXCEPT ![c] = "returned"]
    /\ answer' = [answer EXCEPT ![c] = Timeout]
    /\ UNCHANGED <<routerUp, ctx, responses, data, linkVars, attemptVars, shardVars>>

\* GetResponse, success branch: the entry is deleted, its Data returned; nobody
\* can reach the Data of a deleted entry, which the model resets.
AnswerOk(c) ==
    /\ routerUp
    /\ phase[c] = "waiting" /\ ctx[c] # "live"
    /\ LET entry == responses[Id(c)]
       IN  /\ entry # NoCall /\ ctx[entry] # "deadline" /\ data[entry] # Nil
           /\ answer' = [answer EXCEPT ![c] = data[entry]]
    /\ phase'     = [phase EXCEPT ![c] = "returned"]
    /\ responses' = [responses EXCEPT ![Id(c)] = NoCall]
    /\ data'      = [data EXCEPT ![responses[Id(c)]] = Nil]
    /\ UNCHANGED <<routerUp, ctx, linkVars, attemptVars, shardVars>>

\* GetResponse dereferences a nil entry, or the handler asserts the type of
\* nil Data: the goroutine panics and nothing recovers it.
AnswerPanics(c) ==
    /\ routerUp
    /\ phase[c] = "waiting" /\ ctx[c] # "live"
    /\ LET entry == responses[Id(c)]
       IN  IF entry = NoCall THEN TRUE
           ELSE ctx[entry] # "deadline" /\ data[entry] = Nil
    /\ routerUp' = FALSE
    /\ UNCHANGED <<phase, ctx, responses, data, answer,
                   linkVars, attemptVars, shardVars>>

\* Mutant: a late or repeated response brings the entry of its call back.
SetResponseRestores(a) ==
    /\ routerUp
    /\ stage[a] = "reply"
    /\ LET entry == IF responses[Id(a[1])] = NoCall THEN a[1] ELSE responses[Id(a[1])]
       IN  /\ responses' = [responses EXCEPT ![Id(a[1])] = entry]
           /\ data'  = [data EXCEPT ![entry] = reply[a]]
           /\ ready' = [ready EXCEPT ![a] = entry]
    /\ stage' = [stage EXCEPT ![a] = "notify"]
    /\ reply' = [reply EXCEPT ![a] = Nil]
    /\ UNCHANGED <<routerUp, phase, ctx, answer, linkVars, shardVars>>

\* Mutant: no check that the table holds the id.
SetResponseUnchecked(a) ==
    /\ routerUp
    /\ stage[a] = "reply"
    /\ stage' = [stage EXCEPT ![a] = "notify"]
    /\ data'  = [data EXCEPT ![responses[Id(a[1])]] = reply[a]]
    /\ ready' = [ready EXCEPT ![a] = responses[Id(a[1])]]
    /\ reply' = [reply EXCEPT ![a] = Nil]
    /\ UNCHANGED <<routerUp, phase, ctx, responses, answer, linkVars, shardVars>>

\* Mutant: the context is cancelled before Data is stored.
SetResponseCancelFirst(a) ==
    /\ routerUp
    /\ stage[a] = "reply"
    /\ responses[Id(a[1])] # NoCall
    /\ stage' = [stage EXCEPT ![a] = "notify"]
    /\ ready' = [ready EXCEPT ![a] = responses[Id(a[1])]]
    /\ reply' = [reply EXCEPT ![a] = Nil]
    /\ UNCHANGED <<routerVars, linkVars, shardVars>>

\* handlerShard...Response, SetResponse under the lock.
SetResponse(a) ==
    /\ routerUp
    /\ stage[a] = "reply"
    /\ LET entry == responses[Id(a[1])]
       IN  IF entry = NoCall
           THEN /\ stage' = [stage EXCEPT ![a] = "done"]
                /\ UNCHANGED <<data, ready>>
           ELSE /\ stage' = [stage EXCEPT ![a] = "notify"]
                /\ data'  = [data EXCEPT ![entry] = reply[a]]
                /\ ready' = [ready EXCEPT ![a] = entry]
    /\ reply' = [reply EXCEPT ![a] = Nil]
    /\ UNCHANGED <<routerUp, phase, ctx, responses, answer, linkVars, shardVars>>

\* SetResponse after the unlock: cancelFunc().
Cancel(a) ==
    /\ routerUp
    /\ stage[a] = "notify"
    /\ stage' = [stage EXCEPT ![a] = "done"]
    /\ ctx'   = [ctx EXCEPT ![ready[a]] = IF @ = "live" THEN "canceled" ELSE @]
    /\ ready' = [ready EXCEPT ![a] = NoCall]
    /\ UNCHANGED <<routerUp, phase, responses, data, answer,
                   linkVars, reply, shardVars>>

----------------------------------------------------------------------------
(* The link and the shard. *)

\* A connection drops with the message in a buffer, or the shard process
\* exits before a goroutine handled it.
Lose(a) ==
    /\ stage[a] \in {"request", "reply"}
    /\ stage' = [stage EXCEPT ![a] = "done"]
    /\ reply' = [reply EXCEPT ![a] = Nil]
    /\ UNCHANGED <<routerVars, linkVars, ready, shardVars>>

\* Mutant: the id is stored without a look at whether it is there.
ShardClaimUnchecked(a) ==
    /\ stage[a] = "request" /\ IsWrite(a[1])
    /\ dedup' = dedup \cup {Id(a[1])}
    /\ stage' = [stage EXCEPT ![a] = "claimed"]
    /\ UNCHANGED <<routerVars, linkVars, reply, ready,
                   storage, applied, wiped, seen, crashes>>

\* AddIfAbsent of a put or delete: the id is fresh.
ShardClaim(a) ==
    /\ stage[a] = "request" /\ IsWrite(a[1])
    /\ Id(a[1]) \notin dedup
    /\ dedup' = dedup \cup {Id(a[1])}
    /\ stage' = [stage EXCEPT ![a] = "claimed"]
    /\ UNCHANGED <<routerVars, linkVars, reply, ready,
                   storage, applied, wiped, seen, crashes>>

\* Mutant: the response is sent before AddIfAbsent decides.
ShardAnswersFirst(a) ==
    /\ stage[a] = "request" /\ IsWrite(a[1])
    /\ stage' = [stage EXCEPT ![a] = "reply"]
    /\ reply' = [reply EXCEPT ![a] = Ack]
    /\ UNCHANGED <<routerVars, linkVars, ready, shardVars>>

\* AddIfAbsent of a put or delete: a repeated id is answered at once.
ShardDuplicate(a) ==
    /\ stage[a] = "request" /\ IsWrite(a[1])
    /\ Id(a[1]) \in dedup
    /\ stage' = [stage EXCEPT ![a] = "reply"]
    /\ reply' = [reply EXCEPT ![a] = Ack]
    /\ UNCHANGED <<routerVars, linkVars, ready, shardVars>>

\* A get that waits for the key of one of ids may read v from now on.
Observe(ids, v) ==
    [c \in Calls |->
        IF phase[c] = "waiting" /\ Op(c) = "get" /\ Key(c) \in {KeyOf[i] : i \in ids}
        THEN seen[c] \cup {v} ELSE seen[c]]

Written(i) == IF OpOf[i] = "put" THEN i ELSE Missing

\* Mutant: the shard works under the context of the router's handler.
ShardApplyWhileWaited(a) ==
    LET i == Id(a[1])
        k == KeyOf[i]
    IN  /\ stage[a] = "claimed" /\ phase[a[1]] = "waiting"
        /\ storage' = [storage EXCEPT ![k] = Written(i)]
        /\ applied' = [applied EXCEPT ![i] = @ + 1]
        /\ seen'    = Observe({i}, Written(i))
        /\ stage'   = [stage EXCEPT ![a] = "reply"]
        /\ reply'   = [reply EXCEPT ![a] = Ack]
        /\ UNCHANGED <<routerVars, linkVars, ready, dedup, wiped, crashes>>

\* storage.Put or storage.Delete, and the response.
ShardApply(a) ==
    LET i == Id(a[1])
        k == KeyOf[i]
    IN  /\ stage[a] = "claimed"
        /\ storage' = [storage EXCEPT ![k] = Written(i)]
        /\ applied' = [applied EXCEPT ![i] = @ + 1]
        /\ seen'    = Observe({i}, Written(i))
        /\ stage'   = [stage EXCEPT ![a] = "reply"]
        /\ reply'   = [reply EXCEPT ![a] = Ack]
        /\ UNCHANGED <<routerVars, linkVars, ready, dedup, wiped, crashes>>

\* Mutant: a get goes through the deduplication of its key's writes, and answers
\* the zero ShardGetResponse when a write is in there.
ShardGetDeduplicated(a) ==
    /\ stage[a] = "request" /\ Op(a[1]) = "get"
    /\ stage' = [stage EXCEPT ![a] = "reply"]
    /\ reply' = [reply EXCEPT ![a] = IF \E i \in dedup : KeyOf[i] = Key(a[1])
                                     THEN Missing ELSE storage[Key(a[1])]]
    /\ UNCHANGED <<routerVars, linkVars, ready, shardVars>>

\* storage.Get and the response.
ShardGet(a) ==
    /\ stage[a] = "request" /\ Op(a[1]) = "get"
    /\ stage' = [stage EXCEPT ![a] = "reply"]
    /\ reply' = [reply EXCEPT ![a] = storage[Key(a[1])]]
    /\ UNCHANGED <<routerVars, linkVars, ready, shardVars>>

\* Mutant: the deduplication survives a restart the storage does not.
CrashKeepsDedup(s) ==
    LET gone == {i \in Ids : Home(i) = s}
    IN  /\ crashes < MaxCrashes
        /\ crashes' = crashes + 1
        /\ storage' = [k \in Keys |-> IF ShardOf[k] = s THEN Missing ELSE storage[k]]
        /\ applied' = [i \in Ids |-> IF i \in gone THEN 0 ELSE applied[i]]
        /\ wiped'   = wiped \cup (dedup \cap gone)
        /\ seen'    = Observe(gone, Missing)
        /\ stage'   = [a \in Attempts |->
                         IF stage[a] = "claimed" /\ Id(a[1]) \in gone
                         THEN "done" ELSE stage[a]]
        /\ UNCHANGED <<routerVars, linkVars, reply, ready, dedup>>

\* A shard process exits and is started again: storage and deduplication are
\* in memory, its goroutines are gone.
Crash(s) ==
    LET gone == {i \in Ids : Home(i) = s}
    IN  /\ crashes < MaxCrashes
        /\ crashes' = crashes + 1
        /\ storage' = [k \in Keys |-> IF ShardOf[k] = s THEN Missing ELSE storage[k]]
        /\ dedup'   = dedup \ gone
        /\ applied' = [i \in Ids |-> IF i \in gone THEN 0 ELSE applied[i]]
        /\ wiped'   = wiped \cup (dedup \cap gone)
        /\ seen'    = Observe(gone, Missing)
        /\ stage'   = [a \in Attempts |->
                         IF stage[a] = "claimed" /\ Id(a[1]) \in gone
                         THEN "done" ELSE stage[a]]
        /\ UNCHANGED <<routerVars, linkVars, reply, ready>>

----------------------------------------------------------------------------

RouterStep(c) ==
    \/ ClientCall(c) \/ Send(c) \/ Tick(c) \/ StopRetrying(c) \/ DeadlineExpires(c)
    \/ AnswerTimeout(c) \/ AnswerOk(c) \/ AnswerPanics(c)

AttemptStep(a) ==
    \/ SetResponse(a) \/ Cancel(a) \/ Lose(a)
    \/ ShardClaim(a) \/ ShardDuplicate(a) \/ ShardApply(a) \/ ShardGet(a)

Next ==
    \/ \E c \in Calls : RouterStep(c)
    \/ \E a \in Attempts : AttemptStep(a)
    \/ \E s \in Shards : Crash(s)

\* The goroutines and the timers of the Go runtime: whoever can proceed does.
\* Nothing is assumed of the clients, of the tick, of the link, or of a Send,
\* which the writer channel may keep for ever.
Fairness ==
    /\ \A c \in Calls : /\ WF_vars(DeadlineExpires(c))
                        /\ WF_vars(AnswerTimeout(c))
                        /\ WF_vars(AnswerOk(c))
                        /\ WF_vars(StopRetrying(c))
    /\ \A a \in Attempts : WF_vars(ShardApply(a)) /\ WF_vars(Cancel(a))

Spec     == Init /\ [][Next]_vars
FairSpec == Spec /\ Fairness

----------------------------------------------------------------------------
(* Properties. *)

TypeOK ==
    /\ routerUp \in BOOLEAN
    /\ phase \in [Calls -> {"idle", "waiting", "returned"}]
    /\ ctx \in [Calls -> {"none", "live", "canceled", "deadline"}]
    /\ responses \in [Ids -> Calls \cup {NoCall}]
    /\ data \in [Calls -> Replies \cup {Nil}]
    /\ answer \in [Calls -> Replies \cup {Nil, Timeout}]
    /\ retrier \in [Calls -> {"off", "sending", "ticking"}]
    /\ sends \in [Calls -> Nat]
    /\ \A c \in Calls : sends[c] <= MaxSends[c]
    /\ stage \in [Attempts -> Stages]
    /\ reply \in [Attempts -> Replies \cup {Nil}]
    /\ ready \in [Attempts -> Calls \cup {NoCall}]
    /\ \A a \in Attempts : stage[a] = "notify" => ready[a] \in Calls
    /\ \A a \in Attempts : stage[a] = "reply" => reply[a] \in Replies
    /\ storage \in [Keys -> Values]
    /\ dedup \subseteq Ids
    /\ applied \in [Ids -> Nat]
    /\ wiped \subseteq Ids
    /\ seen \in [Calls -> SUBSET Values]
    /\ crashes \in 0 .. MaxCrashes

\* Every call carries an id of its own: what the CLI does (uuid.New per
\* command).  The properties that need it name it.
UniqueIds == \A c, d \in Calls : IdOf[c] = IdOf[d] => c = d

HoldsClaim(i, a) == stage[a] = "claimed" /\ Id(a[1]) = i

\* Whatever is repeated, lost or delayed, and even if calls share an id, no id
\* is applied twice to the storage of one incarnation of its shard, and no two
\* goroutines are between AddIfAbsent and the storage for one id (Deduplication).
AtMostOnce ==
    \A i \in Ids :
        /\ applied[i] <= 1
        /\ \A a, b \in Attempts : HoldsClaim(i, a) /\ HoldsClaim(i, b) => a = b
        /\ \A a \in Attempts : HoldsClaim(i, a) => applied[i] = 0

\* A write answered OK was applied, or the goroutine that will apply it still
\* holds the claim, or a crash of the shard discarded it (handlerShardPut-
\* Request, handlerShardDeleteRequest answering a repeated id).
AckedIsClaimed ==
    \A c \in Calls : answer[c] = Ack =>
        \/ applied[Id(c)] = 1
        \/ \E a \in Attempts : HoldsClaim(Id(c), a)
        \/ Id(c) \in wiped

\* A get answers a value its key had at some instant between the call and the
\* answer, whichever of its attempts is answered first, and never a value left
\* in the response table (handlerClientGetRequest, SetResponse, GetResponse).
GetReadsDuringCall ==
    \A c \in Calls : Op(c) = "get" /\ answer[c] \notin {Nil, Timeout} =>
        answer[c] \in seen[c]

\* No handler finds its entry gone or its Data nil: SetResponse stores Data
\* before it cancels the context the handler waits on, and only the handler
\* deletes the entry (GetResponse).  It needs UniqueIds.
RouterStaysUp == routerUp

\* The response table: a waiting call owns the entry of its id, and an entry
\* whose call has returned is that of a call that timed out: no late or repeated
\* response brings an entry back (SetResponse, GetResponse).
TableKeepsOnlyTimeouts ==
    /\ \A c \in Calls : phase[c] = "waiting" => responses[Id(c)] = c
    /\ \A i \in Ids : responses[i] # NoCall =>
          LET c == responses[i]
          IN  Id(c) = i /\ (phase[c] = "waiting" \/ answer[c] = Timeout)

\* What a reader of the README expects of an acknowledged write, and the shard
\* does not give: it has reached the storage (as long as the shard did not crash).
AckedIsApplied ==
    \A c \in Calls : answer[c] = Ack /\ Id(c) \notin wiped => applied[Id(c)] = 1

\* Every call is answered, also when every message is lost and when there is no
\* connection to the shard: the deadline ends the wait (client handlers).
EveryCallAnswered ==
    \A c \in Calls : (phase[c] = "waiting") ~> (phase[c] = "returned")

\* A retrying goroutine outlives the answer for ever only inside one Send that
\* never comes through: wherever else it is, ticks that compete with the end of
\* its context included, it ends (retrying, Send).
RetryingStops ==
    \A c \in Calls : (phase[c] = "returned") ~>
        ([](retrier[c] = "off") \/ [](retrier[c] = "sending"))

\* The request path keeps the promise of KVPromise: an id in the Deduplication
\* is accepted, and applied once the storage operation is done.
Status == [i \in Ids |-> IF applied[i] > 0 THEN "applied"
                         ELSE IF i \in dedup THEN "accepted" ELSE "none"]

Promise == INSTANCE KVPromise WITH status <- Status

KeepsPromise == Promise!Spec

\* The promise with its liveness: calls return, accepted writes take effect.
KeepsLivePromise == Promise!FairSpec

============================================================================
