----------------------------- MODULE Deadlines -----------------------------
(***************************************************************************)
(* The timers of the system, which nobody checks against each other: the    *)
(* CLI waits ten seconds for an answer, a handler of the router gives each  *)
(* round of shard requests five, retrying sends copies until then, and the  *)
(* vacuum of a shard's Deduplication forgets an id after five minutes.      *)
(*                                                                          *)
(* A CLI command is the sequence of the requests it sends.  A request is a  *)
(* sequence of rounds at the router, each of which has a deadline of its    *)
(* own; the shard requests of one round are alike, and one of them stands   *)
(* for all, with the id of the round.  Copies of it may wait in a Send, in  *)
(* the writer channel or over a reconnect, and arrive at any later time.    *)
(*                                                                          *)
(* ApplyClusterUpdate holds the lock of the ConnectionManager while it      *)
(* dials, for as long as that takes, and nothing that needs the lock goes   *)
(* on meanwhile.  That a message between the CLI and the router takes no    *)
(* longer than Delay is an assumption about the network.                    *)
(***************************************************************************)
EXTENDS Integers, Sequences

CONSTANTS
    Timeout,      \* DefaultTimeoutDelay
    ReadTimeout,  \* defaultReadTimeout
    TTL,          \* DefaultDeduplicationTTL
    Period,       \* DefaultDeduplicationVacuumPeriod
    Delay,        \* of a message between the CLI and the router, at most
    MaxRequests,  \* bound: requests of the CLI
    MaxRounds,    \* bound: rounds of shard requests
    MaxTime       \* bound: the clock

ASSUME DeadlinesAssumption ==
    /\ Timeout \in Nat /\ ReadTimeout \in Nat /\ TTL \in Nat /\ Delay \in Nat
    /\ Period \in Nat \ {0}
    /\ MaxRequests \in Nat /\ MaxRounds \in Nat /\ MaxTime \in Nat
    /\ Timeout + 2 * Delay < ReadTimeout

Requests == 1 .. MaxRequests
Ids      == 1 .. MaxRounds
None     == 0
Never    == -1

VARIABLES
    now,
    script,     \* the CLI: requests of the command that it has yet to send
    waiting,    \* the CLI: the request whose answer it reads, or None
    until,      \* the CLI: the deadline of that read
    asked,      \* requests sent so far
    abandoned,  \* history: kinds of the requests it gave up on, but for those held up
    handler,    \* the router: where the handler of each request is
    rounds,     \* rounds started so far
    writes,     \* those that put or delete
    underWay,   \* rounds of whose request a copy may still arrive
    replied,    \* rounds the shard replied to
    holder,     \* the handler whose ApplyClusterUpdate has the lock, or None
    heldUp,     \* history: requests at the router while time passed under that lock
    store,      \* Deduplication: when an id was added, or Never
    next, vpc, vnow, toDelete,  \* StartVacuum
    applied,    \* history: how often the shard applied a round
    last        \* history: when it did so last, or Never

cliVars    == <<script, waiting, until, asked, abandoned>>
roundVars  == <<rounds, writes>>
linkVars   == <<underWay, replied>>
lockVars   == <<holder, heldUp>>
vacuumVars == <<next, vpc, vnow, toDelete>>
shardVars  == <<store, applied, last>>
vars == <<now, cliVars, handler, roundVars, linkVars, lockVars, vacuumVars, shardVars>>

----------------------------------------------------------------------------
(* The requests of the commands, and the rounds of the requests. *)

\* put and delete; get, dump and rangeGet; the cluster commands; listNodes and
\* ringInfo.
OneRequest == {<<"write">>, <<"read">>, <<"cluster">>, <<"info">>}

\* removeNode asks for the node first.
RemoveNode == <<"info", "remove">>

\* clusterDump and stats ask for the nodes, here two, and dump one after the
\* other.
DumpAll == <<"info", "read", "read">>

Commands == OneRequest \cup {RemoveNode, DumpAll}

\* What a handler may do next after op: a round, "apply", which is
\* ApplyClusterUpdate, or "end".  A stage of a migration that has no request to
\* send takes no time.
Follow(kind, op) ==
    CASE kind = "info"                            -> {"end"}
      [] kind = "write" /\ op = "start"           -> {"put"}
      [] kind = "read" /\ op = "start"            -> {"dump"}
      [] kind = "remove" /\ op = "start"          -> {"victim"}
      [] kind = "remove" /\ op = "victim"         -> {"apply"}
      [] kind = "cluster" /\ op = "start"         -> {"apply", "dump", "end"}
      [] kind \in {"cluster", "remove"} /\ op = "apply" -> {"dump", "end"}
      [] kind \in {"cluster", "remove"} /\ op = "dump"  -> {"put", "end"}
      [] kind \in {"cluster", "remove"} /\ op = "put"   -> {"delete", "end"}
      [] OTHER                                    -> {"end"}

NoHandler == [at |-> "none", kind |-> "info", op |-> "start", id |-> None, by |-> 0]

Init ==
    /\ now = 0
    /\ script = <<>> /\ waiting = None /\ until = 0 /\ asked = 0 /\ abandoned = {}
    /\ handler = [r \in Requests |-> NoHandler]
    /\ rounds = 0 /\ writes = {}
    /\ underWay = {} /\ replied = {}
    /\ holder = None /\ heldUp = {}
    /\ store = [i \in Ids |-> Never]
    /\ next = Period /\ vpc = "wait" /\ vnow = 0 /\ toDelete = {}
    /\ applied = [i \in Ids |-> 0] /\ last = [i \in Ids |-> Never]

----------------------------------------------------------------------------
(* The CLI. *)

Enter(s) ==
    /\ script = <<>> /\ waiting = None
    /\ asked + Len(s) <= MaxRequests
    /\ script' = s
    /\ UNCHANGED <<now, waiting, until, asked, abandoned, handler, roundVars, linkVars,
                   lockVars, vacuumVars, shardVars>>

\* sendJSONLine dials, writes the request and sets the deadline of the read.
Ask ==
    /\ script # <<>> /\ waiting = None
    /\ asked' = asked + 1
    /\ waiting' = asked'
    /\ until' = now + ReadTimeout
    /\ script' = Tail(script)
    /\ handler' = [handler EXCEPT ![asked'] =
                       [at |-> "coming", kind |-> Head(script), op |-> "start",
                        id |-> None, by |-> now + Delay]]
    /\ UNCHANGED <<now, abandoned, roundVars, linkVars, lockVars, vacuumVars, shardVars>>

\* The answer comes back; the CLI may have closed its connection.  A command
\* may end at the answer to its first request: an unknown node, no nodes.
Heard(r) ==
    /\ handler[r].at = "answering"
    /\ handler' = [handler EXCEPT ![r] = NoHandler]
    /\ IF waiting = r
         THEN /\ waiting' = None /\ until' = 0
              /\ script' \in {script} \cup IF handler[r].kind = "info" THEN {<<>>} ELSE {}
         ELSE UNCHANGED <<waiting, until, script>>
    /\ UNCHANGED <<now, asked, abandoned, roundVars, linkVars, lockVars, vacuumVars, shardVars>>

\* The read times out.  clusterDump and stats go on to the next node, the
\* other commands end; nobody tells the router.
GiveUp ==
    /\ waiting # None /\ now = until
    /\ abandoned' = abandoned \cup IF waiting \in heldUp THEN {} ELSE {handler[waiting].kind}
    /\ waiting' = None /\ until' = 0
    /\ script' = IF handler[waiting].kind = "read" THEN script ELSE <<>>
    /\ UNCHANGED <<now, asked, handler, roundVars, linkVars, lockVars, vacuumVars, shardVars>>

----------------------------------------------------------------------------
(* The router. *)

Free == holder = None

Answer(r) == [at |-> "answering", kind |-> handler[r].kind, op |-> "start",
              id |-> None, by |-> now + Delay]

\* Mutant: a context that lives twice as long.
BeginLonger(r, op) ==
    IF op \in {"end", "apply"}
    THEN /\ handler' = [handler EXCEPT ![r] =
                           IF op = "end" THEN Answer(r)
                           ELSE [at |-> "updating", kind |-> handler[r].kind, op |-> op,
                                 id |-> None, by |-> now]]
         /\ UNCHANGED roundVars
    ELSE /\ rounds < MaxRounds
         /\ rounds' = rounds + 1
         /\ writes' = IF op \in {"put", "delete"} THEN writes \cup {rounds'} ELSE writes
         /\ handler' = [handler EXCEPT ![r] = [at |-> "waiting", kind |-> handler[r].kind, op |-> op,
                                              id |-> rounds', by |-> now + 2 * Timeout]]

\* The answer, or the lock is wanted, or the next round with its context and its
\* retrying goroutine.
Begin(r, op) ==
    IF op \in {"end", "apply"}
    THEN /\ handler' = [handler EXCEPT ![r] =
                           IF op = "end" THEN Answer(r)
                           ELSE [at |-> "updating", kind |-> handler[r].kind, op |-> op,
                                 id |-> None, by |-> now]]
         /\ UNCHANGED roundVars
    ELSE /\ rounds < MaxRounds
         /\ rounds' = rounds + 1
         /\ writes' = IF op \in {"put", "delete"} THEN writes \cup {rounds'} ELSE writes
         /\ handler' = [handler EXCEPT ![r] = [at |-> "waiting", kind |-> handler[r].kind, op |-> op,
                                              id |-> rounds', by |-> now + Timeout]]

\* Accept takes the lock for the connection of the CLI; then the handler starts.
Arrives(r) ==
    /\ handler[r].at = "coming" /\ Free
    /\ \E op \in Follow(handler[r].kind, "start") : Begin(r, op)
    /\ UNCHANGED <<now, cliVars, linkVars, lockVars, vacuumVars, shardVars>>

\* CreateResponse and FindShard take the lock.  Then retrying calls Send, at once
\* and on its ticker; what it calls it with may arrive from now on.
SendCopy(r) ==
    /\ handler[r].at = "waiting" /\ Free
    /\ underWay' = underWay \cup {handler[r].id}
    /\ UNCHANGED <<now, cliVars, handler, roundVars, replied, lockVars, vacuumVars, shardVars>>

\* SetResponse cancels the context of the round before its deadline.
SetResponse(r) ==
    /\ handler[r].at = "waiting" /\ handler[r].id \in replied
    /\ now <= handler[r].by /\ Free
    /\ handler' = [handler EXCEPT ![r].at = "ready"]
    /\ UNCHANGED <<now, cliVars, roundVars, linkVars, lockVars, vacuumVars, shardVars>>

\* GetResponse returns Data, and the handler goes on.
RoundAnswered(r) ==
    /\ handler[r].at = "ready" /\ Free
    /\ \E op \in Follow(handler[r].kind, handler[r].op) : Begin(r, op)
    /\ UNCHANGED <<now, cliVars, linkVars, lockVars, vacuumVars, shardVars>>

\* Mutant: the handler ends without an answer.
RoundExpiresSilently(r) ==
    /\ handler[r].at = "waiting" /\ now >= handler[r].by /\ Free
    /\ handler' = [handler EXCEPT ![r] = NoHandler]
    /\ UNCHANGED <<now, cliVars, roundVars, linkVars, lockVars, vacuumVars, shardVars>>

\* The deadline of the round has passed: GetResponse, when it gets the lock,
\* returns a timeout and the handler answers it.
RoundExpires(r) ==
    /\ handler[r].at = "waiting" /\ now >= handler[r].by /\ Free
    /\ handler' = [handler EXCEPT ![r] = Answer(r)]
    /\ UNCHANGED <<now, cliVars, roundVars, linkVars, lockVars, vacuumVars, shardVars>>

\* ApplyClusterUpdate takes the lock, and dials node after node.
Update(r) ==
    /\ handler[r].at = "updating" /\ Free
    /\ holder' = r
    /\ UNCHANGED <<now, cliVars, handler, roundVars, linkVars, heldUp, vacuumVars, shardVars>>

\* It is through, whenever that is.
Updated(r) ==
    /\ holder = r
    /\ holder' = None
    /\ \E op \in Follow(handler[r].kind, "apply") : Begin(r, op)
    /\ UNCHANGED <<now, cliVars, linkVars, heldUp, vacuumVars, shardVars>>

----------------------------------------------------------------------------
(* The shard. *)

\* put and delete go through AddIfAbsent and are applied if the id was absent;
\* a dump is not.  All answer.
CopyArrives(i) ==
    /\ i \in underWay
    /\ replied' = replied \cup {i}
    /\ IF i \in writes /\ store[i] = Never
         THEN /\ store' = [store EXCEPT ![i] = now]
              /\ applied' = [applied EXCEPT ![i] = @ + 1]
              /\ last' = [last EXCEPT ![i] = now]
         ELSE UNCHANGED shardVars
    /\ UNCHANGED <<now, cliVars, handler, roundVars, underWay, lockVars, vacuumVars>>

\* Mutant: whatever is there is old.
OldAnyAge(i, t) == store[i] # Never

Old(i, t) == store[i] # Never /\ t - store[i] > TTL

\* A tick of the vacuum, and its search under the read lock.
VacuumFinds ==
    /\ vpc = "wait" /\ now = next
    /\ next' = next + Period
    /\ toDelete' = {i \in Ids : Old(i, now)}
    /\ IF toDelete' = {}
         THEN UNCHANGED <<vnow, vpc>>
         ELSE vnow' = now /\ vpc' = "delete"
    /\ UNCHANGED <<now, cliVars, handler, roundVars, linkVars, lockVars, shardVars>>

\* Mutant: the ids found are not deleted.
VacuumDeletesNone ==
    /\ vpc = "delete"
    /\ toDelete' = {} /\ vnow' = 0 /\ vpc' = "wait"
    /\ UNCHANGED <<now, cliVars, handler, roundVars, linkVars, lockVars, next, shardVars>>

\* What it found, looked at again under the write lock, some time later.
VacuumDeletes ==
    /\ vpc = "delete"
    /\ store' = [i \in Ids |-> IF i \in toDelete /\ Old(i, vnow) THEN Never ELSE store[i]]
    /\ toDelete' = {} /\ vnow' = 0 /\ vpc' = "wait"
    /\ UNCHANGED <<now, cliVars, handler, roundVars, linkVars, lockVars, next, applied, last>>

----------------------------------------------------------------------------

\* A second passes: only when nothing is due.  Under the lock nothing is due at
\* the router but answers that are on their way.
Pass ==
    /\ now < MaxTime
    /\ \A r \in Requests :
          /\ handler[r].at = "answering" => now < handler[r].by
          /\ Free => /\ handler[r].at \notin {"ready", "updating"}
                     /\ handler[r].at \in {"coming", "waiting"} => now < handler[r].by
    /\ waiting # None => now < until
    /\ now < next
    /\ now' = now + 1
    /\ heldUp' = IF Free THEN heldUp
                 ELSE heldUp \cup {r \in Requests : handler[r].at \notin {"none", "answering"}}
    /\ UNCHANGED <<cliVars, handler, roundVars, linkVars, holder, vacuumVars, shardVars>>

Next ==
    \/ \E s \in Commands : Enter(s)
    \/ Ask \/ GiveUp
    \/ \E r \in Requests :
         \/ Heard(r) \/ Arrives(r) \/ SendCopy(r) \/ SetResponse(r) \/ RoundAnswered(r)
         \/ RoundExpires(r) \/ Update(r) \/ Updated(r)
    \/ \E i \in Ids : CopyArrives(i)
    \/ VacuumFinds \/ VacuumDeletes
    \/ Pass

Spec == Init /\ [][Next]_vars

----------------------------------------------------------------------------
(* Properties. *)

Kinds == {"info", "write", "read", "cluster", "remove"}

HandlerType ==
    [at : {"none", "coming", "waiting", "ready", "updating", "answering"}, kind : Kinds,
     op : {"start", "victim", "dump", "put", "delete", "apply"}, id : Ids \cup {None}, by : Nat]

\* The types; and a request the CLI waits for has a handler, which leaves only
\* by answering it, no two handlers wait for one round, and who has the lock is
\* in ApplyClusterUpdate.
TypeOK ==
    /\ now \in Nat
    /\ script \in Seq(Kinds)
    /\ waiting \in Requests \cup {None} /\ until \in Nat
    /\ asked \in 0 .. MaxRequests /\ abandoned \subseteq Kinds
    /\ handler \in [Requests -> HandlerType]
    /\ rounds \in 0 .. MaxRounds /\ writes \subseteq 1 .. rounds
    /\ waiting # None => handler[waiting].at # "none"
    /\ \A r \in Requests : handler[r].at \in {"waiting", "ready"} =>
         /\ handler[r].id \in 1 .. rounds
         /\ \A q \in Requests : handler[q].id = handler[r].id => q = r
    /\ underWay \subseteq 1 .. rounds /\ replied \subseteq underWay
    /\ holder \in Requests \cup {None} /\ heldUp \subseteq Requests
    /\ holder # None => handler[holder].at = "updating"
    /\ store \in [Ids -> Nat \cup {Never}]
    /\ applied \in [Ids -> Nat] /\ last \in [Ids -> Nat \cup {Never}]
    /\ next \in Nat /\ vpc \in {"wait", "delete"} /\ vnow \in Nat /\ toDelete \subseteq Ids

\* The vacuum forgets ids while copies of their requests may be on the way.  A
\* copy that finds its id forgotten and is applied again is later, by more than
\* the life of an id, than the one applied before it (AddIfAbsent, StartVacuum).
RepeatsAreOld ==
    [][\A i \in Ids : applied[i] > 0 /\ applied'[i] > applied[i] => now - last[i] > TTL]_vars

\* The vacuum keeps up: an id is in the store for its time and two periods at
\* most, so that the store does not grow with the age of the shard.
ForgottenInTime ==
    \A i \in Ids : store[i] # Never => now - store[i] <= TTL + 2 * Period

\* The CLI hears of every request before it gives up, but of a cluster command
\* that migrates, which has up to four rounds and may dial, and of a request
\* that waited at the router for the lock under which another command dialled.
\* Its user then enters the next command while the router works on the first.
GivesUpWhenHeldUp == abandoned \subseteq {"cluster", "remove"}

============================================================================
