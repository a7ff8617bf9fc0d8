-------------------------- MODULE DeadlinesProofs --------------------------
(***************************************************************************)
(* Proofs about Deadlines, for every choice of the timers that satisfies    *)
(* DeadlinesAssumption and every bound.                                     *)
(***************************************************************************)
EXTENDS Deadlines, TLAPS

Ops == {"victim", "dump", "put", "delete", "apply"}

\* Where a handler has the id of a round.
InRound == {"waiting", "ready"}

HandlersOfRounds ==
    \A r \in Requests :
        IF handler[r].at \in InRound THEN handler[r].id \in 1 .. rounds ELSE handler[r].id = None

NotYetAsked == \A r \in Requests : r > asked => handler[r].at = "none"

\* The requests of a command are within the bound when it is entered.
ScriptFits == asked + Len(script) <= MaxRequests

Types == TypeOK /\ HandlersOfRounds /\ NotYetAsked /\ ScriptFits

----------------------------------------------------------------------------
(* The requests of the commands and the rounds of the requests. *)

\* What follows is a round, an update or the end; a request of a command that
\* changes nothing of the cluster has one round at most.
LEMMA FollowType ==
    ASSUME NEW kind \in Kinds, NEW op \in {"start"} \cup Ops, NEW o \in Follow(kind, op)
    PROVE  /\ o \in Ops \cup {"end"}
           /\ kind = "info" => o = "end"
           /\ kind \in {"read", "write"} => o # "apply"
           /\ kind \in {"read", "write"} /\ op # "start" => o = "end"
  BY DEF Follow, Kinds, Ops

\* The commands are sequences of kinds of request.
LEMMA CommandsType ==
    ASSUME NEW s \in Commands PROVE s \in Seq(Kinds)
<1>1. CASE s = <<"write">>
  BY <1>1 DEF Kinds
<1>2. CASE s = <<"read">>
  BY <1>2 DEF Kinds
<1>3. CASE s = <<"cluster">>
  BY <1>3 DEF Kinds
<1>4. CASE s = <<"info">>
  BY <1>4 DEF Kinds
<1>5. CASE s = <<"info", "remove">>
  BY <1>5 DEF Kinds
<1>6. CASE s = <<"info", "read", "read">>
  BY <1>6 DEF Kinds
<1>7. QED
  BY <1>1, <1>2, <1>3, <1>4, <1>5, <1>6 DEF Commands, OneRequest, RemoveNode, DumpAll

\* Of a handler r that goes on with op: it answers, wants the lock, or waits for
\* a new round.
GoesOn(r, op, h) ==
    /\ h.kind = handler[r].kind
    /\ \/ /\ op = "end" /\ h.at = "answering" /\ h.by = now + Delay /\ h.id = None
          /\ rounds' = rounds
       \/ /\ op = "apply" /\ h.at = "updating" /\ h.id = None
          /\ rounds' = rounds
       \/ /\ op \notin {"end", "apply"} /\ h.at = "waiting" /\ h.op = op
          /\ h.by = now + Timeout /\ h.id = rounds' /\ rounds' = rounds + 1

\* Begin is such a step, and keeps the types of the rounds.
LEMMA BeginStep ==
    ASSUME Types, NEW r \in Requests, NEW op \in Ops \cup {"end"}, Begin(r, op)
    PROVE  /\ \E h \in HandlerType : GoesOn(r, op, h) /\ handler' = [handler EXCEPT ![r] = h]
           /\ rounds' \in 0 .. MaxRounds /\ rounds' >= rounds /\ writes' \subseteq 1 .. rounds'
<1>. USE DeadlinesAssumption
<1>t. /\ now \in Nat /\ rounds \in 0 .. MaxRounds /\ writes \subseteq 1 .. rounds
      /\ handler[r].kind \in Kinds
  BY DEF Types, TypeOK, HandlerType
<1>1. CASE op = "end"
  <2>1. handler' = [handler EXCEPT ![r] = Answer(r)] /\ rounds' = rounds /\ writes' = writes
    BY <1>1 DEF Begin, roundVars
  <2>2. Answer(r) \in HandlerType
    BY <1>t DEF Answer, HandlerType
  <2>3. GoesOn(r, op, Answer(r))
    BY <1>1, <2>1 DEF Answer, GoesOn
  <2>4. rounds' \in 0 .. MaxRounds /\ rounds' >= rounds /\ writes' \subseteq 1 .. rounds'
    BY <1>t, <2>1
  <2>5. QED
    BY <2>1, <2>2, <2>3, <2>4
<1>2. CASE op = "apply"
  <2>. DEFINE h == [at |-> "updating", kind |-> handler[r].kind, op |-> op,
                    id |-> None, by |-> now]
  <2>1. handler' = [handler EXCEPT ![r] = h] /\ rounds' = rounds /\ writes' = writes
    BY <1>2 DEF Begin, roundVars
  <2>2. h \in HandlerType
    BY <1>2, <1>t DEF HandlerType
  <2>3. GoesOn(r, op, h)
    BY <1>2, <2>1 DEF GoesOn
  <2>4. rounds' \in 0 .. MaxRounds /\ rounds' >= rounds /\ writes' \subseteq 1 .. rounds'
    BY <1>t, <2>1
  <2>5. QED
    BY <2>1, <2>2, <2>3, <2>4
<1>3. CASE op \notin {"end", "apply"}
  <2>. DEFINE h == [at |-> "waiting", kind |-> handler[r].kind, op |-> op,
                    id |-> rounds', by |-> now + Timeout]
  <2>1. /\ handler' = [handler EXCEPT ![r] = h] /\ rounds < MaxRounds /\ rounds' = rounds + 1
        /\ writes' = IF op \in {"put", "delete"} THEN writes \cup {rounds'} ELSE writes
    BY <1>3 DEF Begin
  <2>2. rounds' \in Ids /\ now + Timeout \in Nat /\ op \in Ops \ {"apply"}
    BY <1>3, <1>t, <2>1 DEF Ids
  <2>3. h \in HandlerType /\ GoesOn(r, op, h)
    BY <1>3, <1>t, <2>1, <2>2 DEF HandlerType, GoesOn, Ops
  <2>4. rounds' \in 0 .. MaxRounds /\ rounds' >= rounds /\ writes' \subseteq 1 .. rounds'
    BY <1>t, <2>1
  <2>5. QED
    BY <2>1, <2>3, <2>4
<1>4. QED
  BY <1>1, <1>2, <1>3

----------------------------------------------------------------------------
(* Type correctness. *)

LEMMA TypesInit == Init => Types
<1>. SUFFICES ASSUME Init PROVE Types
  OBVIOUS
<1>. USE DeadlinesAssumption
<1>1. NoHandler \in HandlerType
  BY DEF NoHandler, HandlerType, Kinds, None
<1>2. handler \in [Requests -> HandlerType] /\ \A r \in Requests : handler[r] = NoHandler
  BY <1>1 DEF Init
<1>3. \A r \in Requests : handler[r].at = "none" /\ handler[r].id = None
  BY <1>2 DEF NoHandler
<1>4. script \in Seq(Kinds) /\ asked + Len(script) <= MaxRequests
  BY DEF Init
<1>5. TypeOK
  BY <1>2, <1>3, <1>4 DEF Init, TypeOK, Requests, Ids, None, Never
<1>6. QED
  BY <1>3, <1>4, <1>5 DEF Types, HandlersOfRounds, NotYetAsked, ScriptFits, InRound

\* One handler changes: out of a round, within its round or into a new one.
LEMMA OneHandler ==
    ASSUME Types, NEW r \in Requests, NEW h \in HandlerType, handler' = [handler EXCEPT ![r] = h],
           rounds' \in Nat, rounds' >= rounds,
           IF h.at \in InRound
           THEN \/ h.id = rounds + 1 /\ rounds' = rounds + 1
                \/ h.id = handler[r].id /\ handler[r].at \in InRound
           ELSE h.id = None
    PROVE  /\ handler' \in [Requests -> HandlerType] /\ handler'[r] = h
           /\ \A q \in Requests \ {r} : handler'[q] = handler[q]
           /\ HandlersOfRounds'
           /\ \A p \in Requests : handler'[p].at \in {"waiting", "ready"} =>
                /\ handler'[p].id \in 1 .. rounds'
                /\ \A q \in Requests : handler'[q].id = handler'[p].id => q = p
<1>1. /\ handler' \in [Requests -> HandlerType] /\ handler'[r] = h
      /\ \A q \in Requests \ {r} : handler'[q] = handler[q]
  BY DEF Types, TypeOK
<1>2. rounds \in Nat
  BY DEF Types, TypeOK
<1>3. \A p \in Requests : IF handler'[p].at \in InRound
                          THEN handler'[p].id \in 1 .. rounds'
                          ELSE handler'[p].id = None
  <2>. SUFFICES ASSUME NEW p \in Requests
                PROVE  IF handler'[p].at \in InRound
                       THEN handler'[p].id \in 1 .. rounds' ELSE handler'[p].id = None
    OBVIOUS
  <2>1. CASE p # r
    BY <2>1, <1>1, <1>2 DEF Types, HandlersOfRounds
  <2>2. CASE p = r
    BY <2>2, <1>1, <1>2 DEF Types, HandlersOfRounds
  <2>3. QED
    BY <2>1, <2>2
<1>4. ASSUME NEW p \in Requests, handler'[p].at \in InRound,
             NEW q \in Requests, handler'[q].id = handler'[p].id
      PROVE  q = p
  <2>1. handler'[p].id \in 1 .. rounds' /\ handler'[q].at \in InRound
    BY <1>3, <1>4, <1>2 DEF None
  <2>2. \A s \in Requests \ {r} : handler'[s].at \in InRound =>
            handler[s].at \in InRound /\ handler[s].id = handler'[s].id /\ handler[s].id \in 1 .. rounds
    BY <1>1 DEF Types, HandlersOfRounds
  <2>3. \A s, t \in Requests : handler[s].at \in InRound /\ handler[t].id = handler[s].id => s = t
    BY DEF Types, TypeOK, InRound
  <2>4. CASE p # r /\ q # r
    BY <2>4, <2>1, <2>2, <2>3, <1>4
  <2>5. CASE p = r /\ q # r
    BY <2>5, <2>1, <2>2, <2>3, <1>1, <1>2, <1>4
  <2>6. CASE p # r /\ q = r
    BY <2>6, <2>1, <2>2, <2>3, <1>1, <1>2, <1>4
  <2>7. QED
    BY <2>4, <2>5, <2>6
<1>5. QED
  BY <1>1, <1>3, <1>4 DEF InRound, HandlersOfRounds

\* What is left of Types when a handler that is there goes on.
LEMMA HandlerStep ==
    ASSUME Types, NEW r \in Requests, NEW h \in HandlerType, handler' = [handler EXCEPT ![r] = h],
           handler[r].at # "none", h.at # "none",
           rounds' \in 0 .. MaxRounds, rounds' >= rounds, writes' \subseteq 1 .. rounds',
           IF h.at \in InRound
           THEN \/ h.id = rounds + 1 /\ rounds' = rounds + 1
                \/ h.id = handler[r].id /\ handler[r].at \in InRound
           ELSE h.id = None,
           holder' = None,
           UNCHANGED <<now, cliVars, linkVars, heldUp, vacuumVars, shardVars>>
    PROVE  Types'
<1>. USE DeadlinesAssumption
<1>1. /\ handler' \in [Requests -> HandlerType] /\ handler'[r] = h
      /\ \A q \in Requests \ {r} : handler'[q] = handler[q]
      /\ HandlersOfRounds'
      /\ \A p \in Requests : handler'[p].at \in {"waiting", "ready"} =>
           /\ handler'[p].id \in 1 .. rounds'
           /\ \A q \in Requests : handler'[q].id = handler'[p].id => q = p
  <2>1. rounds' \in Nat
    BY DEF Types, TypeOK
  <2>2. QED
    BY <2>1, OneHandler
<1>2. /\ now' = now /\ script' = script /\ waiting' = waiting /\ until' = until /\ asked' = asked
      /\ abandoned' = abandoned /\ underWay' = underWay /\ replied' = replied /\ heldUp' = heldUp
      /\ store' = store /\ applied' = applied /\ last' = last
      /\ next' = next /\ vpc' = vpc /\ vnow' = vnow /\ toDelete' = toDelete
  BY DEF cliVars, linkVars, vacuumVars, shardVars
<1>3. underWay' \subseteq 1 .. rounds' /\ rounds \in Nat
  BY <1>2 DEF Types, TypeOK
<1>4. waiting' # None => handler'[waiting'].at # "none"
  BY <1>1, <1>2 DEF Types, TypeOK
<1>5. NotYetAsked'
  BY <1>1, <1>2 DEF Types, NotYetAsked
<1>6. TypeOK'
  BY <1>1, <1>2, <1>3, <1>4 DEF Types, TypeOK
<1>7. QED
  BY <1>1, <1>2, <1>5, <1>6 DEF Types, ScriptFits

\* A handler begins.
LEMMA BeginTypes ==
    ASSUME Types, NEW r \in Requests, handler[r].at # "none",
           NEW op \in Ops \cup {"end"}, Begin(r, op), holder' = None,
           UNCHANGED <<now, cliVars, linkVars, heldUp, vacuumVars, shardVars>>
    PROVE  Types'
<1>1. PICK h \in HandlerType : GoesOn(r, op, h) /\ handler' = [handler EXCEPT ![r] = h]
  BY BeginStep
<1>2. rounds' \in 0 .. MaxRounds /\ rounds' >= rounds /\ writes' \subseteq 1 .. rounds'
  BY BeginStep
<1>3. h.at # "none" /\ IF h.at \in InRound
                       THEN h.id = rounds + 1 /\ rounds' = rounds + 1
                       ELSE h.id = None
  BY <1>1 DEF GoesOn, InRound
<1>4. QED
  BY <1>1, <1>2, <1>3, HandlerStep

\* The script gets shorter, if anything.
LEMMA ShorterScript ==
    ASSUME Types, script' \in {script, <<>>}
    PROVE  script' \in Seq(Kinds) /\ asked + Len(script') <= MaxRequests
<1>1. script \in Seq(Kinds) /\ asked \in Nat /\ asked + Len(script) <= MaxRequests
  BY DeadlinesAssumption DEF Types, TypeOK, ScriptFits
<1>2. Len(script) \in Nat /\ MaxRequests \in Nat
  BY <1>1, DeadlinesAssumption
<1>3. CASE script' = script
  BY <1>1, <1>3
<1>4. CASE script' = <<>>
  BY <1>1, <1>2, <1>4
<1>5. QED
  BY <1>3, <1>4

LEMMA TypesNext == Types /\ [Next]_vars => Types'
<1>. SUFFICES ASSUME Types, [Next]_vars PROVE Types'
  OBVIOUS
<1>. USE DeadlinesAssumption
<1>h. ASSUME NEW r \in Requests
      PROVE  /\ handler[r] \in HandlerType
             /\ handler[r].kind \in Kinds /\ handler[r].op \in {"start"} \cup Ops
             /\ handler[r].by \in Nat
  BY DEF Types, TypeOK, HandlerType, Ops
<1>1. ASSUME NEW s \in Commands, Enter(s) PROVE Types'
  BY <1>1, CommandsType
  DEF Enter, Types, TypeOK, HandlersOfRounds, NotYetAsked, ScriptFits,
      roundVars, linkVars, lockVars, vacuumVars, shardVars
<1>2. ASSUME Ask PROVE Types'
  <2>. DEFINE h == [at |-> "coming", kind |-> Head(script), op |-> "start",
                    id |-> None, by |-> now + Delay]
  <2>1. script \in Seq(Kinds) /\ script # <<>>
    BY <1>2 DEF Ask, Types, TypeOK
  <2>2. Head(script) \in Kinds /\ Tail(script) \in Seq(Kinds) /\ Len(Tail(script)) = Len(script) - 1
        /\ Len(script) \in Nat \ {0}
    BY <2>1
  <2>3. h \in HandlerType /\ h.at = "coming" /\ h.id = None
    <3>1. now + Delay \in Nat
      BY DEF Types, TypeOK
    <3>2. QED
      BY <3>1, <2>2 DEF HandlerType, None
  <2>4. handler' = [handler EXCEPT ![asked'] = h]
    BY <1>2 DEF Ask
  <2>. HIDE DEF h
  <2>5. asked' = asked + 1 /\ asked' \in Requests /\ asked' \in 0 .. MaxRequests /\ asked \in Nat
    <3>1. asked \in 0 .. MaxRequests /\ asked + Len(script) <= MaxRequests
      BY DEF Types, TypeOK, ScriptFits
    <3>2. asked' = asked + 1
      BY <1>2 DEF Ask
    <3>3. QED
      BY <3>1, <3>2, <2>2 DEF Requests
  <2>6. /\ rounds' = rounds /\ writes' = writes /\ underWay' = underWay /\ replied' = replied
        /\ holder' = holder /\ heldUp' = heldUp /\ now' = now /\ abandoned' = abandoned
        /\ store' = store /\ applied' = applied /\ last' = last
        /\ next' = next /\ vpc' = vpc /\ vnow' = vnow /\ toDelete' = toDelete
    BY <1>2 DEF Ask, roundVars, linkVars, lockVars, vacuumVars, shardVars
  <2>7. ScriptFits'
    BY <1>2, <2>2, <2>5 DEF Ask, Types, TypeOK, ScriptFits
  <2>8. /\ handler' \in [Requests -> HandlerType] /\ handler'[asked'] = h
        /\ \A q \in Requests \ {asked'} : handler'[q] = handler[q]
        /\ HandlersOfRounds'
        /\ \A p \in Requests : handler'[p].at \in {"waiting", "ready"} =>
             /\ handler'[p].id \in 1 .. rounds'
             /\ \A q \in Requests : handler'[q].id = handler'[p].id => q = p
    <3>1. rounds' \in Nat /\ rounds' >= rounds
      BY <2>6 DEF Types, TypeOK
    <3>2. QED
      BY <2>3, <2>4, <2>5, <3>1, OneHandler DEF InRound
  <2>9. handler'[waiting'].at # "none" /\ waiting' \in Requests
    BY <1>2, <2>3, <2>5, <2>8 DEF Ask
  <2>10. holder # None => holder # asked'
    BY <2>5 DEF Types, TypeOK, NotYetAsked
  <2>11. NotYetAsked'
    BY <2>5, <2>8 DEF Types, NotYetAsked, Requests
  <2>12. script' \in Seq(Kinds) /\ until' \in Nat
    BY <1>2, <2>2 DEF Ask, Types, TypeOK
  <2>13. holder' # None => handler'[holder'].at = "updating"
    BY <2>6, <2>8, <2>10 DEF Types, TypeOK
  <2>14. TypeOK'
    <3>. HIDE DEF TypeOK
    <3>1. /\ now' \in Nat /\ abandoned' \subseteq Kinds
          /\ rounds' \in 0 .. MaxRounds /\ writes' \subseteq 1 .. rounds'
          /\ underWay' \subseteq 1 .. rounds' /\ replied' \subseteq underWay'
          /\ holder' \in Requests \cup {None} /\ heldUp' \subseteq Requests
          /\ store' \in [Ids -> Nat \cup {Never}]
          /\ applied' \in [Ids -> Nat] /\ last' \in [Ids -> Nat \cup {Never}]
          /\ next' \in Nat /\ vpc' \in {"wait", "delete"} /\ vnow' \in Nat /\ toDelete' \subseteq Ids
      BY <2>6 DEF Types, TypeOK
    <3>2. QED
      BY <3>1, <2>5, <2>8, <2>9, <2>12, <2>13 DEF TypeOK
  <2>15. QED
    BY <2>7, <2>8, <2>11, <2>14 DEF Types
<1>3. ASSUME GiveUp PROVE Types'
  <2>1. script' \in {script, <<>>} /\ waiting \in Requests
    BY <1>3 DEF GiveUp, Types, TypeOK
  <2>2. script' \in Seq(Kinds) /\ asked' + Len(script') <= MaxRequests
    BY <1>3, <2>1, ShorterScript DEF GiveUp
  <2>3. abandoned' \subseteq Kinds
    BY <1>3, <1>h, <2>1 DEF GiveUp, Types, TypeOK
  <2>4. QED
    BY <1>3, <2>2, <2>3
    DEF GiveUp, Types, TypeOK, HandlersOfRounds, NotYetAsked, ScriptFits,
        roundVars, linkVars, lockVars, vacuumVars, shardVars
<1>4. ASSUME NEW r \in Requests, Heard(r) PROVE Types'
  <2>1. NoHandler \in HandlerType /\ NoHandler.at = "none" /\ NoHandler.id = None
    BY DEF NoHandler, HandlerType, Kinds, None
  <2>2. handler' = [handler EXCEPT ![r] = NoHandler] /\ handler[r].at = "answering"
    BY <1>4 DEF Heard
  <2>3. script' \in {script, <<>>} /\ asked' = asked
    BY <1>4 DEF Heard
  <2>4. script' \in Seq(Kinds) /\ ScriptFits'
    BY <2>3, ShorterScript DEF ScriptFits
  <2>5. /\ rounds' = rounds /\ writes' = writes /\ underWay' = underWay /\ replied' = replied
        /\ holder' = holder /\ heldUp' = heldUp /\ now' = now /\ abandoned' = abandoned
        /\ store' = store /\ applied' = applied /\ last' = last
        /\ next' = next /\ vpc' = vpc /\ vnow' = vnow /\ toDelete' = toDelete
    BY <1>4 DEF Heard, roundVars, linkVars, lockVars, vacuumVars, shardVars
  <2>6. /\ handler' \in [Requests -> HandlerType] /\ handler'[r] = NoHandler
        /\ \A q \in Requests \ {r} : handler'[q] = handler[q]
        /\ HandlersOfRounds'
        /\ \A p \in Requests : handler'[p].at \in {"waiting", "ready"} =>
             /\ handler'[p].id \in 1 .. rounds'
             /\ \A q \in Requests : handler'[q].id = handler'[p].id => q = p
    <3>1. rounds' \in Nat /\ rounds' >= rounds
      BY <2>5 DEF Types, TypeOK
    <3>2. QED
      BY <2>1, <2>2, <3>1, OneHandler DEF InRound
  <2>7. /\ waiting' \in Requests \cup {None} /\ until' \in Nat
        /\ waiting' # None => handler'[waiting'].at # "none"
    BY <1>4, <2>6 DEF Heard, Types, TypeOK, None
  <2>8. holder' # None => handler'[holder'].at = "updating"
    BY <2>2, <2>5, <2>6 DEF Types, TypeOK
  <2>9. NotYetAsked'
    BY <2>1, <2>3, <2>6 DEF Types, NotYetAsked
  <2>10. TypeOK'
    BY <2>3, <2>4, <2>5, <2>6, <2>7, <2>8 DEF Types, TypeOK
  <2>11. QED
    BY <2>4, <2>6, <2>9, <2>10 DEF Types
<1>5. ASSUME NEW r \in Requests, Arrives(r) PROVE Types'
  <2>1. PICK op \in Follow(handler[r].kind, "start") : Begin(r, op)
    BY <1>5 DEF Arrives
  <2>2. op \in Ops \cup {"end"}
    BY <1>h, FollowType
  <2>3. /\ handler[r].at # "none" /\ holder' = None
        /\ UNCHANGED <<now, cliVars, linkVars, heldUp, vacuumVars, shardVars>>
    BY <1>5 DEF Arrives, Free, lockVars
  <2>4. QED
    BY <2>1, <2>2, <2>3, BeginTypes
<1>6. ASSUME NEW r \in Requests, RoundAnswered(r) PROVE Types'
  <2>1. PICK op \in Follow(handler[r].kind, handler[r].op) : Begin(r, op)
    BY <1>6 DEF RoundAnswered
  <2>2. handler[r].kind \in Kinds /\ handler[r].op \in {"start"} \cup Ops
    BY <1>h
  <2>3. op \in Ops \cup {"end"}
    BY <2>2, FollowType
  <2>4. /\ handler[r].at # "none" /\ holder' = None
        /\ UNCHANGED <<now, cliVars, linkVars, heldUp, vacuumVars, shardVars>>
    BY <1>6 DEF RoundAnswered, Free, lockVars
  <2>5. QED
    BY <2>1, <2>3, <2>4, BeginTypes
<1>7. ASSUME NEW r \in Requests, Updated(r) PROVE Types'
  <2>1. PICK op \in Follow(handler[r].kind, "apply") : Begin(r, op)
    BY <1>7 DEF Updated
  <2>2. op \in Ops \cup {"end"}
    BY <1>h, FollowType DEF Ops
  <2>3. handler[r].at = "updating"
    BY <1>7 DEF Updated, Types, TypeOK, Requests, None
  <2>4. /\ handler[r].at # "none" /\ holder' = None
        /\ UNCHANGED <<now, cliVars, linkVars, heldUp, vacuumVars, shardVars>>
    BY <1>7, <2>3 DEF Updated
  <2>5. QED
    BY <2>1, <2>2, <2>4, BeginTypes
<1>8. ASSUME NEW r \in Requests, RoundExpires(r) PROVE Types'
  <2>1. Answer(r) \in HandlerType /\ Answer(r).at = "answering" /\ Answer(r).id = None
    <3>1. now + Delay \in Nat
      BY DEF Types, TypeOK
    <3>2. QED
      BY <1>h, <3>1 DEF Answer, HandlerType, None
  <2>2. handler' = [handler EXCEPT ![r] = Answer(r)] /\ handler[r].at # "none" /\ holder' = None
    BY <1>8 DEF RoundExpires, Free, lockVars
  <2>3. rounds' \in 0 .. MaxRounds /\ rounds' >= rounds /\ writes' \subseteq 1 .. rounds'
    BY <1>8 DEF RoundExpires, Types, TypeOK, roundVars
  <2>4. UNCHANGED <<now, cliVars, linkVars, heldUp, vacuumVars, shardVars>>
    BY <1>8 DEF RoundExpires, lockVars
  <2>5. QED
    BY <2>1, <2>2, <2>3, <2>4, HandlerStep DEF InRound
<1>9. ASSUME NEW r \in Requests, SetResponse(r) PROVE Types'
  <2>. DEFINE h == [handler[r] EXCEPT !.at = "ready"]
  <2>1. h \in HandlerType /\ h.at = "ready" /\ h.id = handler[r].id
    BY <1>h DEF HandlerType
  <2>2. /\ handler' = [handler EXCEPT ![r] = h] /\ handler[r].at = "waiting" /\ holder' = None
    BY <1>9 DEF SetResponse, Free, lockVars
  <2>3. rounds' \in 0 .. MaxRounds /\ rounds' >= rounds /\ writes' \subseteq 1 .. rounds'
    <3>1. rounds' = rounds /\ writes' = writes
      BY <1>9 DEF SetResponse, roundVars
    <3>2. QED
      BY <3>1 DEF Types, TypeOK
  <2>4. UNCHANGED <<now, cliVars, linkVars, heldUp, vacuumVars, shardVars>>
    BY <1>9 DEF SetResponse, lockVars
  <2>. HIDE DEF h
  <2>5. QED
    BY <2>1, <2>2, <2>3, <2>4, HandlerStep DEF InRound
<1>10. ASSUME NEW r \in Requests, SendCopy(r) PROVE Types'
  <2>1. handler[r].id \in 1 .. rounds
    BY <1>10 DEF SendCopy, Types, TypeOK
  <2>2. QED
    BY <1>10, <2>1
    DEF SendCopy, Types, TypeOK, HandlersOfRounds, NotYetAsked, ScriptFits,
        cliVars, roundVars, lockVars, vacuumVars, shardVars
<1>11. ASSUME NEW r \in Requests, Update(r) PROVE Types'
  BY <1>11
  DEF Update, Types, TypeOK, HandlersOfRounds, NotYetAsked, ScriptFits,
      cliVars, roundVars, linkVars, vacuumVars, shardVars
<1>12. ASSUME NEW i \in Ids, CopyArrives(i) PROVE Types'
  <2>1. /\ store' \in [Ids -> Nat \cup {Never}] /\ applied' \in [Ids -> Nat]
        /\ last' \in [Ids -> Nat \cup {Never}]
    <3>1. /\ store \in [Ids -> Nat \cup {Never}] /\ applied \in [Ids -> Nat] /\ now \in Nat
          /\ last \in [Ids -> Nat \cup {Never}]
      BY DEF Types, TypeOK
    <3>2. \/ store' = store /\ applied' = applied /\ last' = last
          \/ /\ store' = [store EXCEPT ![i] = now] /\ applied' = [applied EXCEPT ![i] = applied[i] + 1]
             /\ last' = [last EXCEPT ![i] = now]
      BY <1>12 DEF CopyArrives, shardVars
    <3>3. QED
      BY <3>1, <3>2
  <2>2. replied' \subseteq underWay' /\ underWay' = underWay
    BY <1>12 DEF CopyArrives, Types, TypeOK
  <2>3. QED
    BY <1>12, <2>1, <2>2
    DEF CopyArrives, Types, TypeOK, HandlersOfRounds, NotYetAsked, ScriptFits,
        cliVars, roundVars, lockVars, vacuumVars
<1>13. ASSUME VacuumFinds PROVE Types'
  BY <1>13
  DEF VacuumFinds, Types, TypeOK, HandlersOfRounds, NotYetAsked, ScriptFits,
      cliVars, roundVars, linkVars, lockVars, shardVars
<1>14. ASSUME VacuumDeletes PROVE Types'
  BY <1>14
  DEF VacuumDeletes, Types, TypeOK, HandlersOfRounds, NotYetAsked, ScriptFits,
      cliVars, roundVars, linkVars, lockVars
<1>15. ASSUME Pass PROVE Types'
  BY <1>15
  DEF Pass, Types, TypeOK, HandlersOfRounds, NotYetAsked, ScriptFits,
      cliVars, roundVars, linkVars, vacuumVars, shardVars
<1>16. ASSUME UNCHANGED vars PROVE Types'
  BY <1>16
  DEF vars, Types, TypeOK, HandlersOfRounds, NotYetAsked, ScriptFits,
      cliVars, roundVars, linkVars, lockVars, vacuumVars, shardVars
<1>17. QED
  BY <1>1, <1>2, <1>3, <1>4, <1>5, <1>6, <1>7, <1>8, <1>9, <1>10, <1>11, <1>12, <1>13, <1>14, <1>15, <1>16
  DEF Next

\* Every reachable state has the types, and a handler leaves only by answering.
THEOREM TypeCorrect == Spec => []TypeOK
<1>1. Types => TypeOK
  BY DEF Types
<1>2. QED
  BY TypesInit, TypesNext, <1>1, PTL DEF Spec

----------------------------------------------------------------------------
(* What the clock and the deadlines have to do with each other. *)

\* An answer on its way is not late; nor is a request on its way or a round,
\* unless time passed for it under the lock.
HandlersTimed ==
    \A r \in Requests :
        /\ handler[r].at = "answering" => now <= handler[r].by
        /\ handler[r].at \in {"coming", "waiting"} => now <= handler[r].by \/ r \in heldUp

\* Ids were stored in the past.
IdsTimed == \A i \in Ids : store[i] <= now

\* The clock is between two ticks of the vacuum; what it found it found at the
\* earlier one.
VacuumTimed ==
    /\ next - Period <= now /\ now <= next
    /\ IF vpc = "delete"
         THEN vnow = next - Period /\ \A i \in toDelete : Old(i, vnow)
         ELSE toDelete = {}

Timed == HandlersTimed /\ IdsTimed /\ VacuumTimed

LEMMA TimedInit == Init => Timed
  BY DeadlinesAssumption
  DEF Init, Timed, HandlersTimed, IdsTimed, VacuumTimed, NoHandler, Never

LEMMA HandlersTimedNext == Types /\ HandlersTimed /\ [Next]_vars => HandlersTimed'
<1>. SUFFICES ASSUME Types, HandlersTimed, [Next]_vars PROVE HandlersTimed'
  OBVIOUS
<1>t. now \in Nat /\ Timeout \in Nat /\ Delay \in Nat
  BY DeadlinesAssumption DEF Types, TypeOK
<1>h. /\ handler \in [Requests -> HandlerType]
      /\ \A r \in Requests :
           /\ handler[r].by \in Nat /\ handler[r].kind \in Kinds /\ handler[r].op \in {"start"} \cup Ops
           /\ handler[r].at \in {"none", "coming", "waiting", "ready", "updating", "answering"}
  BY DEF Types, TypeOK, HandlerType, Ops
\* A step that gives one handler a deadline from now on.
<1>d. ASSUME NEW r \in Requests, NEW h, handler' = [handler EXCEPT ![r] = h], now' = now, heldUp' = heldUp,
             h.at \in {"coming", "waiting", "answering"} => now <= h.by
      PROVE  HandlersTimed'
  <2>1. \A q \in Requests : handler'[q] = IF q = r THEN h ELSE handler[q]
    BY <1>h, <1>d
  <2>2. QED
    BY <2>1, <1>d DEF HandlersTimed
<1>b. ASSUME NEW r \in Requests, NEW op \in Ops \cup {"end"}, Begin(r, op), now' = now, heldUp' = heldUp
      PROVE  HandlersTimed'
  <2>1. PICK h \in HandlerType : GoesOn(r, op, h) /\ handler' = [handler EXCEPT ![r] = h]
    BY <1>b, BeginStep
  <2>2. h.at \in {"coming", "waiting", "answering"} => now <= h.by
    BY <2>1, <1>t DEF GoesOn
  <2>3. QED
    BY <2>1, <2>2, <1>b, <1>d
<1>1. CASE UNCHANGED <<now, handler, heldUp>>
  BY <1>1 DEF HandlersTimed
<1>2. CASE Ask
  <2>. DEFINE h == [at |-> "coming", kind |-> Head(script), op |-> "start",
                    id |-> None, by |-> now + Delay]
  <2>1. handler' = [handler EXCEPT ![asked'] = h] /\ now' = now /\ heldUp' = heldUp /\ now <= h.by
    BY <1>2, <1>t DEF Ask, lockVars
  <2>. HIDE DEF h
  <2>2. \A q \in Requests : handler'[q] = IF q = asked' THEN h ELSE handler[q]
    BY <2>1, <1>h
  <2>3. QED
    BY <2>1, <2>2 DEF HandlersTimed
<1>3. ASSUME NEW r \in Requests, Heard(r) PROVE HandlersTimed'
  <2>1. /\ handler' = [handler EXCEPT ![r] = NoHandler] /\ now' = now /\ heldUp' = heldUp
        /\ NoHandler.at = "none"
    BY <1>3 DEF Heard, lockVars, NoHandler
  <2>2. QED
    BY <2>1, <1>d
<1>4. ASSUME NEW r \in Requests, Arrives(r) PROVE HandlersTimed'
  <2>1. PICK op \in Follow(handler[r].kind, "start") : Begin(r, op)
    BY <1>4 DEF Arrives
  <2>2. op \in Ops \cup {"end"}
    BY <1>h, FollowType
  <2>3. now' = now /\ heldUp' = heldUp
    BY <1>4 DEF Arrives, lockVars
  <2>4. QED
    BY <2>1, <2>2, <2>3, <1>b
<1>5. ASSUME NEW r \in Requests, RoundAnswered(r) PROVE HandlersTimed'
  <2>1. PICK op \in Follow(handler[r].kind, handler[r].op) : Begin(r, op)
    BY <1>5 DEF RoundAnswered
  <2>2. handler[r].kind \in Kinds /\ handler[r].op \in {"start"} \cup Ops
    BY <1>h
  <2>3. op \in Ops \cup {"end"}
    BY <2>2, FollowType
  <2>4. now' = now /\ heldUp' = heldUp
    BY <1>5 DEF RoundAnswered, lockVars
  <2>5. QED
    BY <2>1, <2>3, <2>4, <1>b
<1>6. ASSUME NEW r \in Requests, Updated(r) PROVE HandlersTimed'
  <2>1. PICK op \in Follow(handler[r].kind, "apply") : Begin(r, op)
    BY <1>6 DEF Updated
  <2>2. op \in Ops \cup {"end"}
    BY <1>h, FollowType DEF Ops
  <2>3. now' = now /\ heldUp' = heldUp
    BY <1>6 DEF Updated
  <2>4. QED
    BY <2>1, <2>2, <2>3, <1>b
<1>7. ASSUME NEW r \in Requests, RoundExpires(r) PROVE HandlersTimed'
  <2>1. handler' = [handler EXCEPT ![r] = Answer(r)] /\ now' = now /\ heldUp' = heldUp
    BY <1>7 DEF RoundExpires, lockVars
  <2>2. now <= Answer(r).by
    BY <1>t DEF Answer
  <2>3. QED
    BY <2>1, <2>2, <1>d
<1>8. ASSUME NEW r \in Requests, SetResponse(r) PROVE HandlersTimed'
  <2>. DEFINE h == [handler[r] EXCEPT !.at = "ready"]
  <2>1. handler' = [handler EXCEPT ![r] = h] /\ now' = now /\ heldUp' = heldUp
    BY <1>8 DEF SetResponse, lockVars
  <2>2. h.at = "ready"
    <3>1. handler[r] \in HandlerType
      BY <1>h
    <3>2. QED
      BY <3>1 DEF HandlerType
  <2>. HIDE DEF h
  <2>3. QED
    BY <2>1, <2>2, <1>d
<1>9. CASE Pass
  <2>1. now' = now + 1 /\ handler' = handler
    BY <1>9 DEF Pass
  <2>2. \A r \in Requests : handler[r].at = "answering" => now < handler[r].by
    BY <1>9 DEF Pass
  <2>3. \A r \in Requests : handler[r].at \in {"coming", "waiting"} =>
            r \in heldUp' \/ (now < handler[r].by /\ heldUp' = heldUp)
    BY <1>9 DEF Pass
  <2>4. QED
    BY <2>1, <2>2, <2>3, <1>h, <1>t DEF HandlersTimed
<1>10. QED
  BY <1>1, <1>2, <1>3, <1>4, <1>5, <1>6, <1>7, <1>8, <1>9
  DEF Next, vars, lockVars, Enter, GiveUp, SendCopy, Update, CopyArrives, VacuumFinds, VacuumDeletes

\* The clock, the ids and the vacuum when neither of these steps is taken.
LEMMA ShardUnchanged ==
    ASSUME [Next]_vars, ~\E i \in Ids : CopyArrives(i), ~VacuumFinds, ~VacuumDeletes, ~Pass
    PROVE  UNCHANGED <<now, store, applied, last, next, vpc, vnow, toDelete>>
  BY DEF Next, vars, vacuumVars, shardVars, Enter, Ask, GiveUp, Heard, Arrives, SendCopy, SetResponse,
         RoundAnswered, RoundExpires, Update, Updated

\* What a copy does to the ids.
LEMMA CopyStores ==
    ASSUME NEW i \in Ids, CopyArrives(i)
    PROVE  /\ now' = now /\ next' = next /\ vpc' = vpc /\ vnow' = vnow /\ toDelete' = toDelete
           /\ \/ store' = store /\ applied' = applied /\ last' = last
              \/ /\ store[i] = Never /\ store' = [store EXCEPT ![i] = now]
                 /\ applied' = [applied EXCEPT ![i] = applied[i] + 1] /\ last' = [last EXCEPT ![i] = now]
  BY DEF CopyArrives, shardVars, vacuumVars

LEMMA ShardTimedNext ==
    Types /\ IdsTimed /\ VacuumTimed /\ [Next]_vars => IdsTimed' /\ VacuumTimed'
<1>. SUFFICES ASSUME Types, IdsTimed, VacuumTimed, [Next]_vars PROVE IdsTimed' /\ VacuumTimed'
  OBVIOUS
<1>h. /\ now \in Nat /\ next \in Nat /\ vnow \in Nat /\ Period \in Nat \ {0} /\ TTL \in Nat
      /\ store \in [Ids -> Nat \cup {-1}]
      /\ vpc \in {"wait", "delete"} /\ toDelete \subseteq Ids
  BY DeadlinesAssumption DEF Types, TypeOK, Never
<1>1. ASSUME NEW i \in Ids, CopyArrives(i) PROVE IdsTimed' /\ VacuumTimed'
  <2>1. /\ now' = now /\ next' = next /\ vpc' = vpc /\ vnow' = vnow /\ toDelete' = toDelete
        /\ store' = store \/ (store[i] = Never /\ store' = [store EXCEPT ![i] = now])
    BY <1>1, CopyStores
  <2>2. IdsTimed'
    BY <2>1, <1>h DEF IdsTimed
  <2>3. \A j \in toDelete : Old(j, vnow) => store'[j] = store[j]
    BY <2>1, <1>h DEF Old
  <2>4. \A j \in toDelete : Old(j, vnow) => Old(j, vnow)'
    BY <2>1, <2>3 DEF Old
  <2>5. QED
    BY <2>1, <2>2, <2>4 DEF VacuumTimed
<1>2. CASE VacuumFinds
  <2>1. /\ vpc = "wait" /\ now = next /\ next' = next + Period
        /\ toDelete' = {i \in Ids : Old(i, now)}
        /\ IF toDelete' = {} THEN vnow' = vnow /\ vpc' = vpc ELSE vnow' = now /\ vpc' = "delete"
        /\ now' = now /\ store' = store
    BY <1>2 DEF VacuumFinds, shardVars
  <2>2. IdsTimed'
    BY <2>1 DEF IdsTimed
  <2>3. VacuumTimed'
    <3>1. CASE toDelete' = {}
      BY <2>1, <3>1, <1>h DEF VacuumTimed
    <3>2. CASE toDelete' # {}
      <4>1. vnow' = now /\ vpc' = "delete" /\ vnow' = next' - Period
        BY <2>1, <3>2, <1>h
      <4>2. \A i \in toDelete' : Old(i, vnow)'
        BY <2>1, <4>1 DEF Old
      <4>3. QED
        BY <2>1, <4>1, <4>2, <1>h DEF VacuumTimed
    <3>3. QED
      BY <3>1, <3>2
  <2>4. QED
    BY <2>2, <2>3
<1>3. CASE VacuumDeletes
  BY <1>3, <1>h DEF VacuumDeletes, IdsTimed, VacuumTimed, Never
<1>4. CASE Pass
  <2>1. now' = now + 1 /\ now < next /\ store' = store /\ UNCHANGED vacuumVars
    BY <1>4 DEF Pass, shardVars
  <2>2. IdsTimed'
    BY <2>1, <1>h DEF IdsTimed
  <2>3. VacuumTimed'
    BY <2>1, <1>h DEF VacuumTimed, Old, vacuumVars
  <2>4. QED
    BY <2>2, <2>3
<1>5. CASE UNCHANGED <<now, store, applied, last, next, vpc, vnow, toDelete>>
  BY <1>5 DEF IdsTimed, VacuumTimed, Old
<1>6. QED
  BY <1>1, <1>2, <1>3, <1>4, <1>5, ShardUnchanged

LEMMA TimedNext == Types /\ Timed /\ [Next]_vars => Timed'
  BY HandlersTimedNext, ShardTimedNext DEF Timed

----------------------------------------------------------------------------
(* The vacuum keeps up. *)

\* At the last tick no id was old but the ones found, and at the tick before
\* that none of those was.
Recent ==
    \A i \in Ids : store[i] # Never =>
        IF i \in toDelete
        THEN next - 2 * Period - store[i] <= TTL
        ELSE next - Period - store[i] <= TTL

LEMMA RecentNext == Types /\ Timed /\ Recent /\ [Next]_vars => Recent'
<1>. SUFFICES ASSUME Types, VacuumTimed, Recent, [Next]_vars PROVE Recent'
  BY DEF Timed
<1>h. /\ now \in Nat /\ next \in Nat /\ vnow \in Nat /\ Period \in Nat \ {0} /\ TTL \in Nat
      /\ store \in [Ids -> Nat \cup {-1}]
      /\ vpc \in {"wait", "delete"} /\ toDelete \subseteq Ids
  BY DeadlinesAssumption DEF Types, TypeOK, Never
<1>1. ASSUME NEW i \in Ids, CopyArrives(i) PROVE Recent'
  <2>1. /\ next' = next /\ toDelete' = toDelete
        /\ store' = store \/ (store[i] = Never /\ store' = [store EXCEPT ![i] = now])
    BY <1>1, CopyStores
  <2>2. i \in toDelete => store[i] # Never
    BY DEF VacuumTimed, Old
  <2>3. next - Period <= now
    BY DEF VacuumTimed
  <2>4. CASE store' = store
    BY <2>1, <2>4 DEF Recent
  <2>5. CASE store[i] = Never /\ store' = [store EXCEPT ![i] = now]
    BY <2>1, <2>2, <2>3, <2>5, <1>h DEF Recent
  <2>6. QED
    BY <2>1, <2>4, <2>5
<1>2. CASE VacuumFinds
  BY <1>2, <1>h DEF VacuumFinds, Recent, VacuumTimed, Old, shardVars
<1>3. CASE VacuumDeletes
  BY <1>3, <1>h DEF VacuumDeletes, Recent, VacuumTimed, Old, Never
<1>4. CASE UNCHANGED <<store, next, toDelete>>
  BY <1>4 DEF Recent
<1>5. QED
  BY <1>1, <1>2, <1>3, <1>4, ShardUnchanged DEF Pass, vacuumVars, shardVars

\* ForgottenInTime for every choice of the timers.
THEOREM ForgetsInTime == Spec => []ForgottenInTime
<1>1. Init => Types /\ Timed /\ Recent
  BY TypesInit, TimedInit DEF Init, Recent
<1>2. Types /\ Timed /\ Recent /\ [Next]_vars => (Types /\ Timed /\ Recent)'
  BY TypesNext, TimedNext, RecentNext
<1>3. Types /\ Timed /\ Recent => ForgottenInTime
  <2>. SUFFICES ASSUME Types, Timed, Recent, NEW i \in Ids, store[i] # Never
                PROVE  now - store[i] <= TTL + 2 * Period
    BY DEF ForgottenInTime
  <2>1. now \in Nat /\ next \in Nat /\ Period \in Nat \ {0} /\ TTL \in Nat /\ store[i] \in Nat
    BY DeadlinesAssumption DEF Types, TypeOK
  <2>2. now <= next
    BY DEF Timed, VacuumTimed
  <2>3. QED
    BY <2>1, <2>2 DEF Recent
<1>4. QED
  BY <1>1, <1>2, <1>3, PTL DEF Spec

----------------------------------------------------------------------------
(* A write is applied again only when its id is old. *)

\* An id that is stored was stored when its round was applied last; when it is
\* stored no longer, that is longer ago than its time.
Forgotten ==
    \A i \in Ids : applied[i] > 0 =>
        IF store[i] # Never THEN last[i] = store[i] ELSE now - last[i] > TTL

\* Nothing is stored that was not applied.
StoredApplied == \A i \in Ids : store[i] # Never => applied[i] > 0

LEMMA ForgottenNext == Types /\ Timed /\ Forgotten /\ StoredApplied /\ [Next]_vars => Forgotten' /\ StoredApplied'
<1>. SUFFICES ASSUME Types, VacuumTimed, Forgotten, StoredApplied, [Next]_vars
              PROVE  Forgotten' /\ StoredApplied'
  BY DEF Timed
<1>h. /\ now \in Nat /\ next \in Nat /\ vnow \in Nat /\ Period \in Nat \ {0} /\ TTL \in Nat
      /\ store \in [Ids -> Nat \cup {-1}] /\ last \in [Ids -> Nat \cup {-1}] /\ applied \in [Ids -> Nat]
  BY DeadlinesAssumption DEF Types, TypeOK, Never
<1>1. ASSUME NEW i \in Ids, CopyArrives(i) PROVE Forgotten' /\ StoredApplied'
  <2>1. /\ now' = now
        /\ \/ store' = store /\ applied' = applied /\ last' = last
           \/ /\ store' = [store EXCEPT ![i] = now]
              /\ applied' = [applied EXCEPT ![i] = applied[i] + 1] /\ last' = [last EXCEPT ![i] = now]
    BY <1>1, CopyStores
  <2>2. CASE store' = store /\ applied' = applied /\ last' = last
    BY <2>1, <2>2 DEF Forgotten, StoredApplied
  <2>3. CASE /\ store' = [store EXCEPT ![i] = now]
             /\ applied' = [applied EXCEPT ![i] = applied[i] + 1] /\ last' = [last EXCEPT ![i] = now]
    <3>1. store'[i] = now /\ last'[i] = now /\ applied'[i] = applied[i] + 1 /\ store'[i] # Never
      BY <2>3, <1>h DEF Never
    <3>2. \A j \in Ids \ {i} : store'[j] = store[j] /\ last'[j] = last[j] /\ applied'[j] = applied[j]
      BY <2>3, <1>h
    <3>3. applied'[i] > 0
      BY <3>1, <1>h
    <3>4. QED
      BY <2>1, <3>1, <3>2, <3>3 DEF Forgotten, StoredApplied
  <2>4. QED
    BY <2>1, <2>2, <2>3
<1>2. CASE VacuumDeletes
  <2>1. /\ vpc = "delete" /\ now' = now /\ applied' = applied /\ last' = last
        /\ \A i \in Ids : store'[i] = IF i \in toDelete /\ Old(i, vnow) THEN Never ELSE store[i]
    BY <1>2 DEF VacuumDeletes
  <2>2. vnow <= now
    BY <2>1, <1>h DEF VacuumTimed
  <2>3. ASSUME NEW i \in Ids, store[i] # Never, Old(i, vnow) PROVE now - last[i] > TTL
    <3>1. applied[i] > 0 /\ last[i] = store[i]
      BY <2>3 DEF Forgotten, StoredApplied
    <3>2. vnow - store[i] > TTL
      BY <2>3 DEF Old
    <3>3. QED
      BY <3>1, <3>2, <2>2, <1>h
  <2>4. ASSUME NEW i \in Ids, applied'[i] > 0
        PROVE  IF store'[i] # Never THEN last'[i] = store'[i] ELSE now' - last'[i] > TTL
    <3>1. CASE store'[i] = store[i]
      BY <2>1, <2>4, <3>1 DEF Forgotten
    <3>2. CASE store'[i] # store[i]
      <4>1. store'[i] = Never /\ Old(i, vnow) /\ store[i] # Never
        BY <2>1, <3>2
      <4>2. QED
        BY <4>1, <2>1, <2>3
    <3>3. QED
      BY <3>1, <3>2
  <2>5. Forgotten'
    BY <2>4 DEF Forgotten
  <2>6. StoredApplied'
    BY <2>1 DEF StoredApplied
  <2>7. QED
    BY <2>5, <2>6
<1>3. CASE UNCHANGED <<store, applied, last>> /\ now' \in {now, now + 1}
  <2>1. StoredApplied'
    BY <1>3 DEF StoredApplied
  <2>2. ASSUME NEW i \in Ids, applied[i] > 0
        PROVE  IF store[i] # Never THEN last[i] = store[i] ELSE now' - last[i] > TTL
    <3>1. IF store[i] # Never THEN last[i] = store[i] ELSE now - last[i] > TTL
      BY <2>2 DEF Forgotten
    <3>2. last[i] \in Int /\ now' \in Nat /\ now' >= now
      BY <1>3, <1>h
    <3>3. QED
      BY <3>1, <3>2, <1>h
  <2>3. QED
    BY <1>3, <2>1, <2>2 DEF Forgotten
<1>4. QED
  BY <1>1, <1>2, <1>3, ShardUnchanged DEF Pass, VacuumFinds, shardVars

\* RepeatsAreOld for every choice of the timers.  However late copies arrive,
\* the time of an id is between two applications of one request.
THEOREM RepeatsOld == Spec => RepeatsAreOld
<1>1. Init => Types /\ Timed /\ Forgotten /\ StoredApplied
  <2>1. Init => Forgotten /\ StoredApplied
    BY DEF Init, Forgotten, StoredApplied, Never
  <2>2. QED
    BY <2>1, TypesInit, TimedInit
<1>2. Types /\ Timed /\ Forgotten /\ StoredApplied /\ [Next]_vars => (Types /\ Timed /\ Forgotten /\ StoredApplied)'
  BY TypesNext, TimedNext, ForgottenNext
<1>3. ASSUME Types, Forgotten, [Next]_vars
      PROVE  [\A i \in Ids : applied[i] > 0 /\ applied'[i] > applied[i] => now - last[i] > TTL]_vars
  <2>. SUFFICES ASSUME NEW i \in Ids, applied[i] > 0, applied'[i] > applied[i]
                PROVE  now - last[i] > TTL
    OBVIOUS
  <2>h. applied \in [Ids -> Nat]
    BY <1>3 DEF Types, TypeOK
  <2>1. applied' # applied
    BY <2>h
  <2>2. PICK j \in Ids : CopyArrives(j)
    <3>1. VacuumFinds \/ VacuumDeletes \/ Pass => applied' = applied
      BY DEF VacuumFinds, VacuumDeletes, Pass, shardVars
    <3>2. QED
      BY <1>3, <2>1, <3>1, ShardUnchanged
  <2>3. store[j] = Never /\ applied' = [applied EXCEPT ![j] = applied[j] + 1]
    BY <2>1, <2>2, CopyStores
  <2>4. i = j
    BY <2>3, <2>h
  <2>5. QED
    BY <1>3, <2>3, <2>4 DEF Forgotten
<1>4. QED
  BY <1>1, <1>2, <1>3, PTL DEF Spec, RepeatsAreOld

----------------------------------------------------------------------------
(* The CLI is answered in time, unless it asked for a migration or was held up. *)

\* However long the rest of the request h of a handler may take, it ends before
\* the read of the CLI does.
InTime(h) ==
    \/ h.kind \in {"cluster", "remove"}
    \/ h.at = "coming" /\ h.op = "start" /\ h.by + Timeout + Delay < until
    \/ h.at = "waiting" /\ h.kind # "info" /\ h.op # "start" /\ h.by + Delay < until
    \/ h.at = "ready" /\ h.kind # "info" /\ h.op # "start" /\ now + Delay < until
    \/ h.at = "answering" /\ h.by < until

Hears ==
    /\ waiting # None => waiting \in heldUp \/ InTime(handler[waiting])
    /\ GivesUpWhenHeldUp

LEMMA HearsNext == Types /\ HandlersTimed /\ Hears /\ [Next]_vars => Hears'
<1>. SUFFICES ASSUME Types, HandlersTimed, Hears, [Next]_vars PROVE Hears'
  OBVIOUS
<1>h. /\ now \in Nat /\ until \in Nat /\ ReadTimeout \in Nat /\ Timeout \in Nat /\ Delay \in Nat
      /\ Timeout + 2 * Delay < ReadTimeout
      /\ handler \in [Requests -> HandlerType]
      /\ waiting # None => waiting \in Requests
  BY DeadlinesAssumption DEF Types, TypeOK
<1>t. ASSUME NEW r \in Requests
      PROVE  /\ handler[r].by \in Nat /\ handler[r].kind \in Kinds /\ handler[r].op \in {"start"} \cup Ops
             /\ handler[r].at = "answering" => now <= handler[r].by
             /\ handler[r].at \in {"coming", "waiting"} => now <= handler[r].by \/ r \in heldUp
  BY <1>h DEF HandlerType, HandlersTimed, Ops
<1>g. abandoned' = abandoned => GivesUpWhenHeldUp'
  BY DEF Hears, GivesUpWhenHeldUp
\* A handler changes; whoever the CLI does not wait for makes no difference.
<1>s. ASSUME NEW r \in Requests, NEW h, handler' = [handler EXCEPT ![r] = h],
             UNCHANGED <<now, cliVars, heldUp>>,
             waiting = r /\ r \notin heldUp => InTime(h)
      PROVE  Hears'
  <2>1. \A q \in Requests : handler'[q] = IF q = r THEN h ELSE handler[q]
    BY <1>h, <1>s
  <2>2. now' = now /\ until' = until /\ waiting' = waiting /\ abandoned' = abandoned /\ heldUp' = heldUp
    BY <1>s DEF cliVars
  <2>3. GivesUpWhenHeldUp'
    BY <2>2, <1>g
  <2>4. ASSUME waiting # None, waiting \notin heldUp PROVE InTime(handler[waiting])'
    <3>1. CASE waiting = r
      BY <3>1, <2>1, <2>2, <2>4, <1>s DEF InTime
    <3>2. CASE waiting # r
      BY <3>2, <2>1, <2>2, <2>4, <1>h DEF InTime, Hears
    <3>3. QED
      BY <3>1, <3>2
  <2>5. QED
    BY <2>2, <2>3, <2>4 DEF Hears
\* A handler begins.
<1>b. ASSUME NEW r \in Requests, NEW op \in Ops \cup {"end"}, Begin(r, op), UNCHANGED <<now, cliVars, heldUp>>,
             handler[r].at \in {"coming", "ready", "updating"},
             handler[r].kind = "info" => op = "end",
             handler[r].kind \in {"read", "write"} => op # "apply" /\ (handler[r].op # "start" => op = "end")
      PROVE  Hears'
  <2>1. PICK h \in HandlerType : GoesOn(r, op, h) /\ handler' = [handler EXCEPT ![r] = h]
    BY <1>b, BeginStep
  <2>2. ASSUME waiting = r, r \notin heldUp, handler[r].kind \notin {"cluster", "remove"} PROVE InTime(h)
    <3>1. InTime(handler[r])
      BY <2>2 DEF Hears, None, Requests
    <3>2. now + Delay < until
      BY <3>1, <2>2, <1>b, <1>t, <1>h DEF InTime
    <3>3. CASE op = "end"
      <4>1. h.at = "answering" /\ h.by = now + Delay
        BY <3>3, <2>1 DEF GoesOn
      <4>2. QED
        BY <4>1, <3>2 DEF InTime
    <3>4. CASE op # "end"
      <4>1. handler[r].kind \in {"read", "write"} /\ handler[r].op = "start" /\ op # "apply"
        BY <3>4, <2>2, <1>b, <1>t DEF Kinds
      <4>2. h.at = "waiting" /\ h.by = now + Timeout /\ h.op = op /\ h.kind = handler[r].kind
        BY <3>4, <4>1, <2>1 DEF GoesOn
      <4>3. now + Timeout + Delay < until
        BY <3>1, <4>1, <2>2, <1>b, <1>t, <1>h DEF InTime
      <4>4. h.op # "start" /\ h.kind # "info"
        BY <3>4, <4>1, <4>2 DEF Ops
      <4>5. QED
        BY <4>2, <4>3, <4>4 DEF InTime
    <3>5. QED
      BY <3>3, <3>4
  <2>3. h.kind = handler[r].kind
    BY <2>1 DEF GoesOn
  <2>4. waiting = r /\ r \notin heldUp => InTime(h)
    BY <2>2, <2>3 DEF InTime
  <2>5. QED
    BY <2>1, <2>4, <1>b, <1>s
<1>1. CASE Ask
  <2>1. /\ waiting' = asked' /\ until' = now + ReadTimeout /\ abandoned' = abandoned /\ now' = now
        /\ handler' = [handler EXCEPT ![asked'] =
                          [at |-> "coming", kind |-> Head(script), op |-> "start",
                           id |-> None, by |-> now + Delay]]
    BY <1>1 DEF Ask
  <2>2. waiting' # None => waiting' \in Requests
    BY TypesNext DEF Types, TypeOK
  <2>3. waiting' # None => /\ handler'[waiting'].at = "coming" /\ handler'[waiting'].op = "start"
                           /\ handler'[waiting'].by = now + Delay
    BY <2>1, <2>2, <1>h
  <2>4. waiting' # None => InTime(handler[waiting])'
    BY <2>1, <2>3, <1>h DEF InTime
  <2>5. QED
    BY <2>1, <2>4, <1>g DEF Hears
<1>2. CASE GiveUp
  <2>1. /\ waiting # None /\ now = until /\ waiting' = None
        /\ abandoned' = abandoned \cup IF waiting \in heldUp THEN {} ELSE {handler[waiting].kind}
    BY <1>2 DEF GiveUp
  <2>2. handler[waiting].kind \in {"cluster", "remove"} \/ waiting \in heldUp
    BY <2>1, <1>h, <1>t DEF Hears, InTime
  <2>3. QED
    BY <2>1, <2>2 DEF Hears, GivesUpWhenHeldUp
<1>3. ASSUME NEW r \in Requests, Heard(r) PROVE Hears'
  <2>1. /\ handler' = [handler EXCEPT ![r] = NoHandler] /\ abandoned' = abandoned
        /\ now' = now /\ heldUp' = heldUp
        /\ IF waiting = r THEN waiting' = None ELSE waiting' = waiting /\ until' = until
    BY <1>3 DEF Heard, lockVars
  <2>2. CASE waiting = r
    BY <2>1, <2>2, <1>g DEF Hears
  <2>3. CASE waiting # r
    <3>1. waiting # None => handler'[waiting] = handler[waiting]
      BY <2>1, <2>3, <1>h
    <3>2. QED
      BY <2>1, <2>3, <3>1, <1>g DEF Hears, InTime
  <2>4. QED
    BY <2>2, <2>3
<1>4. ASSUME NEW r \in Requests, Arrives(r) PROVE Hears'
  <2>1. PICK op \in Follow(handler[r].kind, "start") : Begin(r, op)
    BY <1>4 DEF Arrives
  <2>2. /\ op \in Ops \cup {"end"}
        /\ handler[r].kind = "info" => op = "end"
        /\ handler[r].kind \in {"read", "write"} => op # "apply"
    BY <1>t, FollowType
  <2>3. handler[r].at = "coming" /\ UNCHANGED <<now, cliVars, heldUp>>
    BY <1>4 DEF Arrives, lockVars
  <2>4. CASE waiting = r /\ r \notin heldUp
    <3>1. handler[r].op = "start" \/ handler[r].kind \in {"cluster", "remove"}
      BY <2>3, <2>4 DEF Hears, InTime, None, Requests
    <3>2. handler[r].kind \in {"read", "write"} /\ handler[r].op # "start" => op = "end"
      BY <3>1
    <3>3. QED
      BY <2>1, <2>2, <2>3, <3>2, <1>b
  <2>5. CASE ~(waiting = r /\ r \notin heldUp)
    <3>1. PICK h \in HandlerType : GoesOn(r, op, h) /\ handler' = [handler EXCEPT ![r] = h]
      BY <2>1, <2>2, BeginStep
    <3>2. QED
      BY <2>3, <2>5, <3>1, <1>s
  <2>6. QED
    BY <2>4, <2>5
<1>5. ASSUME NEW r \in Requests, RoundAnswered(r) PROVE Hears'
  <2>1. PICK op \in Follow(handler[r].kind, handler[r].op) : Begin(r, op)
    BY <1>5 DEF RoundAnswered
  <2>2. handler[r].kind \in Kinds /\ handler[r].op \in {"start"} \cup Ops
    BY <1>t
  <2>3. /\ op \in Ops \cup {"end"}
        /\ handler[r].kind = "info" => op = "end"
        /\ handler[r].kind \in {"read", "write"} => op # "apply" /\ (handler[r].op # "start" => op = "end")
    <3>1. op \in Ops \cup {"end"}
      BY <2>2, FollowType
    <3>2. handler[r].kind = "info" => op = "end"
      BY <2>2, FollowType
    <3>3. handler[r].kind \in {"read", "write"} => op # "apply"
      BY <2>2, FollowType
    <3>4. ASSUME handler[r].kind \in {"read", "write"}, handler[r].op # "start" PROVE op = "end"
      <4>1. Follow(handler[r].kind, handler[r].op) = {"end"}
        BY <3>4 DEF Follow
      <4>2. QED
        BY <4>1
    <3>5. QED
      BY <3>1, <3>2, <3>3, <3>4
  <2>4. handler[r].at = "ready" /\ UNCHANGED <<now, cliVars, heldUp>>
    BY <1>5 DEF RoundAnswered, lockVars
  <2>5. QED
    BY <2>1, <2>3, <2>4, <1>b
<1>6. ASSUME NEW r \in Requests, Updated(r) PROVE Hears'
  <2>1. PICK op \in Follow(handler[r].kind, "apply") : Begin(r, op)
    BY <1>6 DEF Updated
  <2>2. op \in Ops \cup {"end"} /\ (handler[r].kind = "info" => op = "end")
        /\ (handler[r].kind \in {"read", "write"} => op = "end")
    BY <1>t, FollowType DEF Ops
  <2>3. handler[r].at = "updating" /\ UNCHANGED <<now, cliVars, heldUp>>
    BY <1>6 DEF Updated, Types, TypeOK, Requests, None
  <2>4. QED
    BY <2>1, <2>2, <2>3, <1>b
<1>7. ASSUME NEW r \in Requests, RoundExpires(r) PROVE Hears'
  <2>1. /\ handler' = [handler EXCEPT ![r] = Answer(r)] /\ UNCHANGED <<now, cliVars, heldUp>>
        /\ handler[r].at = "waiting" /\ now >= handler[r].by
    BY <1>7 DEF RoundExpires, lockVars
  <2>2. Answer(r).kind = handler[r].kind /\ Answer(r).at = "answering" /\ Answer(r).by = now + Delay
    BY DEF Answer
  <2>3. ASSUME waiting = r, r \notin heldUp PROVE InTime(Answer(r))
    <3>1. InTime(handler[r])
      BY <2>3 DEF Hears, None, Requests
    <3>2. now = handler[r].by
      BY <2>1, <2>3, <1>t, <1>h
    <3>3. handler[r].kind \in {"cluster", "remove"} \/ now + Delay < until
      BY <2>1, <3>1, <3>2 DEF InTime
    <3>4. QED
      BY <2>2, <3>3 DEF InTime
  <2>4. QED
    BY <2>1, <2>3, <1>s
<1>8. ASSUME NEW r \in Requests, SetResponse(r) PROVE Hears'
  <2>. DEFINE h == [handler[r] EXCEPT !.at = "ready"]
  <2>1. /\ handler' = [handler EXCEPT ![r] = h] /\ UNCHANGED <<now, cliVars, heldUp>>
        /\ handler[r].at = "waiting" /\ now <= handler[r].by
    BY <1>8 DEF SetResponse, lockVars
  <2>2. h.kind = handler[r].kind /\ h.op = handler[r].op /\ h.at = "ready"
    <3>1. handler[r] \in HandlerType
      BY <1>h
    <3>2. QED
      BY <3>1 DEF HandlerType
  <2>. HIDE DEF h
  <2>3. ASSUME waiting = r, r \notin heldUp PROVE InTime(h)
    <3>1. InTime(handler[r])
      BY <2>3 DEF Hears, None, Requests
    <3>2. QED
      BY <2>1, <2>2, <3>1, <1>t, <1>h DEF InTime
  <2>4. QED
    BY <2>1, <2>3, <1>s
<1>9. CASE Pass
  <2>1. /\ now' = now + 1 /\ handler' = handler /\ abandoned' = abandoned
        /\ waiting' = waiting /\ until' = until
    BY <1>9 DEF Pass, cliVars
  <2>2. ASSUME waiting # None, waiting \notin heldUp'
        PROVE  handler[waiting].at # "ready" /\ waiting \notin heldUp
    BY <1>9, <2>2, <1>h DEF Pass, Free
  <2>3. waiting' # None => waiting' \in heldUp' \/ InTime(handler[waiting])'
    <3>1. SUFFICES ASSUME waiting # None, waiting \notin heldUp' PROVE InTime(handler[waiting])'
      BY <2>1
    <3>2. InTime(handler[waiting])
      BY <2>2, <3>1 DEF Hears
    <3>3. QED
      BY <2>1, <2>2, <3>1, <3>2 DEF InTime
  <2>4. QED
    BY <2>1, <2>3, <1>g DEF Hears
<1>10. CASE UNCHANGED <<now, waiting, until, abandoned, handler, heldUp>>
  BY <1>10 DEF Hears, InTime, GivesUpWhenHeldUp
<1>11. QED
  BY <1>1, <1>2, <1>3, <1>4, <1>5, <1>6, <1>7, <1>8, <1>9, <1>10
  DEF Next, vars, cliVars, lockVars, Enter, SendCopy, Update, CopyArrives, VacuumFinds, VacuumDeletes

\* GivesUpWhenHeldUp for every choice of the timers: the deadline of one round
\* and the way there and back are within the patience of the CLI, and only the
\* lock of ApplyClusterUpdate can hold up a request that has no more rounds.
THEOREM AnswersInTime == Spec => []GivesUpWhenHeldUp
<1>1. Init => Types /\ Timed /\ Hears
  BY TypesInit, TimedInit DEF Init, Hears, GivesUpWhenHeldUp
<1>2. Types /\ Timed /\ Hears /\ [Next]_vars => (Types /\ Timed /\ Hears)'
  BY TypesNext, TimedNext, HearsNext DEF Timed
<1>3. Hears => GivesUpWhenHeldUp
  BY DEF Hears
<1>4. QED
  BY <1>1, <1>2, <1>3, PTL DEF Spec

============================================================================
