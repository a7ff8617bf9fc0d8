----------------------------- MODULE KVPromise -----------------------------
(***************************************************************************)
(* What the key-value store promises a client whose calls go through the    *)
(* router, with no mention of messages, retries or the response table:      *)
(*                                                                          *)
(*   - a call is answered once, with a result or with Timeout;              *)
(*   - a write takes effect at most once between two crashes of its shard,  *)
(*     never before it was called, possibly after its call was answered;    *)
(*   - a write answered Ack was accepted: its effect follows, unless a      *)
(*     crash of the shard wipes it;                                         *)
(*   - a get answers a value its key had at some instant of the call.       *)
(*                                                                          *)
(* The promise says less than linearizability, on purpose: the shard may    *)
(* acknowledge a repeated write before the write reaches the storage.       *)
(***************************************************************************)
EXTENDS Naturals

CONSTANTS Calls, Ids, IdOf, OpOf, Keys, KeyOf, Shards, ShardOf,
          Missing, Ack, Nil, Timeout

VARIABLES
    phase,     \* [Calls -> {"idle", "waiting", "returned"}]
    answer,    \* [Calls -> Ids \cup {Missing, Ack, Nil, Timeout}]
    storage,   \* [Keys -> Ids \cup {Missing}]
    status,    \* [Ids -> {"none", "accepted", "applied"}]
    wiped,     \* accepted writes a crash discarded
    seen       \* values of its key while a get waits

vars == <<phase, answer, storage, status, wiped, seen>>

Written(i) == IF OpOf[i] = "put" THEN i ELSE Missing

Observe(ids, v) ==
    [c \in Calls |->
        IF /\ phase[c] = "waiting" /\ OpOf[IdOf[c]] = "get"
           /\ \E i \in ids : KeyOf[IdOf[c]] = KeyOf[i]
        THEN seen[c] \cup {v} ELSE seen[c]]

Init ==
    /\ phase   = [c \in Calls |-> "idle"]
    /\ answer  = [c \in Calls |-> Nil]
    /\ storage = [k \in Keys |-> Missing]
    /\ status  = [i \in Ids |-> "none"]
    /\ wiped   = {}
    /\ seen    = [c \in Calls |-> {}]

Invoke(c) ==
    /\ phase[c] = "idle"
    /\ phase' = [phase EXCEPT ![c] = "waiting"]
    /\ seen'  = [seen EXCEPT ![c] = IF OpOf[IdOf[c]] = "get"
                                    THEN {storage[KeyOf[IdOf[c]]]} ELSE {}]
    /\ UNCHANGED <<answer, storage, status, wiped>>

Accept(i) ==
    /\ OpOf[i] # "get"
    /\ \E c \in Calls : IdOf[c] = i /\ phase[c] # "idle"
    /\ status[i] = "none"
    /\ status' = [status EXCEPT ![i] = "accepted"]
    /\ UNCHANGED <<phase, answer, storage, wiped, seen>>

Effect(i) ==
    /\ status[i] = "accepted"
    /\ status'  = [status EXCEPT ![i] = "applied"]
    /\ storage' = [storage EXCEPT ![KeyOf[i]] = Written(i)]
    /\ seen'    = Observe({i}, Written(i))
    /\ UNCHANGED <<phase, answer, wiped>>

MayAnswer(c, r) ==
    \/ r = Timeout
    \/ OpOf[IdOf[c]] = "get" /\ r \in seen[c]
    \/ /\ OpOf[IdOf[c]] # "get" /\ r = Ack
       /\ status[IdOf[c]] # "none" \/ IdOf[c] \in wiped

Return(c) ==
    /\ phase[c] = "waiting"
    /\ phase' = [phase EXCEPT ![c] = "returned"]
    /\ \E r \in Ids \cup {Missing, Ack, Timeout} :
          MayAnswer(c, r) /\ answer' = [answer EXCEPT ![c] = r]
    /\ UNCHANGED <<storage, status, wiped, seen>>

Wipe(s) ==
    LET gone == {i \in Ids : ShardOf[KeyOf[i]] = s}
    IN  /\ storage' = [k \in Keys |-> IF ShardOf[k] = s THEN Missing ELSE storage[k]]
        /\ status'  = [i \in Ids |-> IF i \in gone THEN "none" ELSE status[i]]
        /\ wiped'   = wiped \cup {i \in gone : status[i] # "none"}
        /\ seen'    = Observe(gone, Missing)
        /\ UNCHANGED <<phase, answer>>

Next ==
    \/ \E c \in Calls : Invoke(c) \/ Return(c)
    \/ \E i \in Ids : Accept(i) \/ Effect(i)
    \/ \E s \in Shards : Wipe(s)

\* A call that waits returns; an accepted write takes effect.
Fairness ==
    /\ \A c \in Calls : WF_vars(Return(c))
    /\ \A i \in Ids : WF_vars(Effect(i))

Spec     == Init /\ [][Next]_vars
FairSpec == Spec /\ Fairness

============================================================================
