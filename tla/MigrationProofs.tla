-------------------------- MODULE MigrationProofs --------------------------
(***************************************************************************)
(* Proofs about Migration, for all nodes, keys, placements and strategies:  *)
(* its types, that no key is lost at any instant of a migration, and that a *)
(* command answered OK has placed every key.                                *)
(***************************************************************************)
EXTENDS Migration, TLAPS

Flying == sent \cup accepted \cup applied \cup awaited

----------------------------------------------------------------------------
(* The inductive invariant.                                                 *)

\* What is there at each stage of a command.
Stages ==
    /\ op # "idle" => commands \in 1 .. MaxCommands
    /\ op \in {"victim", "drop"} => nodes # {victim}
    /\ asked # {} => op = "dump"
    /\ op # "dump" => dumps = [n \in Nodes |-> Nothing]
    /\ toDelete # {} => op = "put"
    /\ awaited # {} => op \in {"put", "delete"}
    /\ applied \subseteq awaited
    /\ op \in {"idle", "victim", "delete"} => base = Nothing
    /\ op # "idle" => outcome = "none"

\* A key the clients left alone is Old wherever it is, and so is what is put;
\* what is deleted is Missing.
OldOnly ==
    /\ \A k \in Keys : latest[k] = Old =>
          /\ base[k] \in {Missing, Old}
          /\ \A n \in Nodes : storage[n][k] \in {Missing, Old} /\ dumps[n][k] \in {Missing, Old}
    /\ \A r \in Flying : r.kind = "put" /\ latest[r.key] = Old => r.value = Old
    /\ \A r \in Flying : r.kind = "delete" => r.value = Missing

\* The nodes have not changed since a request was sent for a key that is not
\* overtaken: puts go to the owner, deletes to others.
Aimed ==
    /\ \A r \in Flying : r.key \notin overtaken => (r.kind = "put" <=> r.node = Owner(r.key))
    /\ \A n \in Nodes, k \in Keys : <<n, k>> \in toDelete => n # Owner(k)

\* The owner has the key, or has accepted it.
AtHome(k) == storage[Owner(k)][k] = Old \/ Pending("put", Owner(k), k)

\* Deletes go out when the key is at home, and only then; what was applied is
\* done.
DeletesFollow ==
    \A r \in Flying : Settled(r.key) =>
        /\ r.kind = "delete" => AtHome(r.key)
        /\ r \in applied => /\ r.kind = "put" => AtHome(r.key)
                            /\ r.kind = "delete" => storage[r.node][r.key] = Missing

\* Between the dump of the victim and its removal no request is in flight that
\* could change the victim, but for overtaken keys.
VictimDumped ==
    op = "drop" =>
        /\ \A r \in Flying : r.key \in overtaken
        /\ \A k \in Keys : Settled(k) => base[k] = storage[victim][k]

AwaitedFor(kind, n, k) ==
    \E r \in awaited : r.kind = kind /\ r.node = n /\ r.key = k

\* Where a command is on its way to place a key that is not where it belongs.
OnItsWay ==
    \A k \in Keys : Settled(k) =>
        /\ op = "dump" => \A n \in nodes \ (asked \cup {Owner(k)}) :
              storage[n][k] # Missing => dumps[n][k] # Missing
        /\ op = "put" =>
              /\ \A n \in nodes \ {Owner(k)} :
                    storage[n][k] # Missing => <<n, k>> \in toDelete
              /\ base[k] = Old \/ (\E n \in nodes : <<n, k>> \in toDelete) =>
                    AtHome(k) \/ AwaitedFor("put", Owner(k), k)
        /\ op = "delete" =>
              \A n \in nodes \ {Owner(k)} :
                  storage[n][k] # Missing => Pending("delete", n, k) \/ AwaitedFor("delete", n, k)
        /\ op = "delete" \/ (op = "idle" /\ outcome = "ok") => AtHome(k)

IInv ==
    /\ TypeOK /\ Stages
    /\ OldOnly /\ Aimed /\ DeletesFollow /\ VictimDumped /\ OnItsWay
    /\ NothingLost /\ SuccessPlaces

----------------------------------------------------------------------------
(* Types.                                                                   *)

LEMMA NothingType == Nothing \in [Keys -> Values] /\ \A k \in Keys : Nothing[k] = Missing
  BY DEF Nothing, Values

LEMMA OwnerIn == ASSUME TypeOK, NEW k \in Keys PROVE Owner(k) \in nodes /\ Owner(k) \in Nodes
  BY MigrationAssumption DEF TypeOK, Owner

LEMMA RequestType ==
    ASSUME TypeOK, NEW r \in Flying
    PROVE  /\ r \in Requests
           /\ r.kind \in {"put", "delete"} /\ r.node \in Nodes
           /\ r.key \in Keys /\ r.value \in Values
  BY DEF TypeOK, Flying, Requests

LEMMA NewRequestType ==
    ASSUME TypeOK, Stages, op # "idle", NEW kind \in {"put", "delete"},
           NEW n \in Nodes, NEW k \in Keys, NEW v \in Values
    PROVE  /\ Request(kind, n, k, v) \in Requests
           /\ Request(kind, n, k, v).kind = kind /\ Request(kind, n, k, v).node = n
           /\ Request(kind, n, k, v).key = k /\ Request(kind, n, k, v).value = v
  BY DEF Stages, Request, Requests

LEMMA TypeInit == Init => TypeOK /\ Stages
  <1> SUFFICES ASSUME Init PROVE TypeOK /\ Stages
    OBVIOUS
  <1>1. storage \in [Nodes -> [Keys -> Values]]
    BY DEF Init, Values
  <1> QED
    BY <1>1, MigrationAssumption, NothingType DEF Init, TypeOK, Stages, Values

LEMMA TypeNext == TypeOK /\ Stages /\ [Next]_vars => TypeOK' /\ Stages'
  <1> SUFFICES ASSUME TypeOK, Stages, [Next]_vars PROVE TypeOK' /\ Stages'
    OBVIOUS
  <1> USE MigrationAssumption, NothingType DEF commandVars, requestVars, historyVars
  <1>1. CASE MigrateData
    BY <1>1 DEF MigrateData, TypeOK, Stages
  <1>2. ASSUME NEW v \in Nodes, RemoveNode(v) PROVE TypeOK' /\ Stages'
    BY <1>2 DEF RemoveNode, TypeOK, Stages
  <1>3. CASE VictimDump
    <2>1. {r.key : r \in sent \cup accepted} \subseteq Keys
      BY RequestType DEF Flying
    <2>2. storage[victim] \in [Keys -> Values] /\ victim # NoNode
      BY <1>3 DEF VictimDump, TypeOK
    <2> QED
      BY <1>3, <2>1, <2>2 DEF VictimDump, TypeOK, Stages
  <1>4. CASE DropVictim
    <2>1. /\ nodes' = nodes \ {victim} /\ nodes' # {} /\ victim' = NoNode
          /\ toDelete = {} /\ asked' = nodes'
      BY <1>4 DEF DropVictim, TypeOK, Stages
    <2> QED
      BY <1>4, <2>1 DEF DropVictim, TypeOK, Stages
  <1>5. ASSUME NEW n \in Nodes, DumpNode(n) PROVE TypeOK' /\ Stages'
    BY <1>5 DEF DumpNode, TypeOK, Stages
  <1>6. CASE StartPuts
    <2>1. PICK toPut \in [Keys -> Values] :
              Issue({Request("put", Owner(k), k, toPut[k]) :
                      k \in {l \in Keys : toPut[l] # Missing}})
      BY <1>6 DEF StartPuts
    <2> DEFINE puts == {Request("put", Owner(k), k, toPut[k]) :
                          k \in {l \in Keys : toPut[l] # Missing}}
    <2>2. puts \subseteq Requests
      BY <1>6, NewRequestType, OwnerIn DEF StartPuts
    <2>3. sent' = sent \cup puts /\ awaited' = puts
      BY <2>1 DEF Issue
    <2>4. toDelete' \subseteq nodes \X Keys
      BY <1>6 DEF StartPuts, Strays
    <2>5. applied = {}
      BY <1>6 DEF StartPuts, Stages
    <2> HIDE DEF puts
    <2> QED
      BY <1>6, <2>2, <2>3, <2>4, <2>5 DEF StartPuts, TypeOK, Stages
  <1>7. CASE StartDeletes
    <2> DEFINE deletes == {Request("delete", d[1], d[2], Missing) : d \in toDelete}
    <2>1. deletes \subseteq Requests
      <3>1. \A d \in toDelete : d[1] \in Nodes /\ d[2] \in Keys
        BY DEF TypeOK
      <3> QED
        BY <1>7, <3>1, NewRequestType DEF StartDeletes, Values
    <2>2. sent' = sent \cup deletes /\ awaited' = deletes /\ applied = {}
      BY <1>7 DEF StartDeletes, Issue, Stages
    <2> HIDE DEF deletes
    <2> QED
      BY <1>7, <2>1, <2>2 DEF StartDeletes, TypeOK, Stages
  <1>8. CASE Finish
    BY <1>8 DEF Finish, TypeOK, Stages
  <1>9. CASE Fail
    BY <1>9 DEF Fail, TypeOK, Stages
  <1>10. ASSUME NEW r \in sent, Accept(r) PROVE TypeOK' /\ Stages'
    BY <1>10 DEF Accept, TypeOK, Stages
  <1>11. ASSUME NEW r \in accepted, Apply(r) PROVE TypeOK' /\ Stages'
    <2>1. storage' \in [Nodes -> [Keys -> Values]]
      BY <1>11, RequestType DEF Apply, TypeOK, Flying
    <2>2. applied' \subseteq applied \cup {r} /\ applied' \subseteq awaited'
      BY <1>11 DEF Apply, Stages
    <2> QED
      BY <1>11, <2>1, <2>2 DEF Apply, TypeOK, Stages
  <1>12. ASSUME NEW r \in awaited, Answer(r) PROVE TypeOK' /\ Stages'
    BY <1>12 DEF Answer, TypeOK, Stages
  <1>13. ASSUME NEW k \in Keys, NEW v \in {New, Missing}, ClientWrite(k, v)
         PROVE TypeOK' /\ Stages'
    <2>1. /\ storage' \in [Nodes -> [Keys -> Values]]
          /\ latest' \in [Keys -> Values]
      BY <1>13 DEF ClientWrite, TypeOK, Values
    <2> QED
      BY <1>13, <2>1 DEF ClientWrite, TypeOK, Stages
  <1>14. CASE UNCHANGED vars
    BY <1>14 DEF vars, TypeOK, Stages
  <1> QED
    BY <1>1, <1>2, <1>3, <1>4, <1>5, <1>6, <1>7, <1>8, <1>9, <1>10, <1>11, <1>12,
       <1>13, <1>14 DEF Next, Command

\* Every variable keeps its type.
THEOREM TypeCorrect == Spec => []TypeOK
  <1>1. Init => TypeOK /\ Stages
    BY TypeInit
  <1>2. TypeOK /\ Stages /\ [Next]_vars => (TypeOK /\ Stages)'
    BY TypeNext
  <1> QED
    BY <1>1, <1>2, PTL DEF Spec

----------------------------------------------------------------------------
(* Values, and where requests go.                                           *)

\* What is in flight after a step was in flight before it, or is a request the
\* command has just issued.
LEMMA InFlight ==
    ASSUME TypeOK, Stages, [Next]_vars, NEW r \in Flying'
    PROVE  \/ r \in Flying
           \/ /\ StartPuts /\ r.kind = "put" /\ r.key \in Keys /\ r.node = Owner(r.key)
              /\ r.value \in Candidates(r.key) \ {Missing}
           \/ /\ StartDeletes /\ r.kind = "delete" /\ r.value = Missing
              /\ <<r.node, r.key>> \in toDelete
  <1> USE DEF commandVars, requestVars, historyVars
  <1>1. CASE StartPuts
    <2>1. PICK toPut \in [Keys -> Values] :
              /\ \A k \in Keys : toPut[k] \in Candidates(k)
              /\ Issue({Request("put", Owner(k), k, toPut[k]) :
                      k \in {l \in Keys : toPut[l] # Missing}})
      BY <1>1 DEF StartPuts
    <2>2. CASE r \notin Flying
      <3>1. PICK k \in {l \in Keys : toPut[l] # Missing} :
                r = Request("put", Owner(k), k, toPut[k])
        BY <1>1, <2>1, <2>2 DEF StartPuts, Issue, Flying
      <3>2. /\ op # "idle" /\ k \in Keys /\ Owner(k) \in Nodes
            /\ toPut[k] \in Values \ {Missing} /\ toPut[k] \in Candidates(k)
        BY <1>1, <2>1, OwnerIn DEF StartPuts
      <3>3. /\ r.kind = "put" /\ r.node = Owner(k) /\ r.key = k /\ r.value = toPut[k]
        BY <3>1, <3>2, NewRequestType
      <3> QED
        BY <1>1, <3>2, <3>3
    <2> QED
      BY <2>2
  <1>2. CASE StartDeletes
    <2>1. CASE r \notin Flying
      <3>1. PICK d \in toDelete : r = Request("delete", d[1], d[2], Missing)
        BY <1>2, <2>1 DEF StartDeletes, Issue, Flying
      <3>2. d = <<d[1], d[2]>> /\ d[1] \in Nodes /\ d[2] \in Keys
        BY DEF TypeOK
      <3> QED
        BY <1>2, <3>1, <3>2, NewRequestType DEF StartDeletes, Values
    <2> QED
      BY <2>1
  <1>3. CASE ~ StartPuts /\ ~ StartDeletes
    <2>1. CASE Command
      BY <1>3, <2>1 DEF Command, MigrateData, VictimDump, DropVictim, Finish, Fail,
         RemoveNode, DumpNode, Flying
    <2>2. CASE ~ Command
      BY <1>3, <2>2 DEF Next, vars, Accept, Apply, Answer, ClientWrite, Flying
    <2> QED
      BY <2>1, <2>2
  <1> QED
    BY <1>1, <1>2, <1>3

LEMMA HistoryGrows ==
    ASSUME TypeOK, [Next]_vars
    PROVE  /\ \A k \in Keys : latest'[k] = Old => latest[k] = Old
           /\ spilled \subseteq spilled' /\ overtaken \subseteq overtaken'
           /\ \A k \in Keys : Settled(k)' => Settled(k)
  <1> USE MigrationAssumption DEF commandVars, requestVars, historyVars
  <1>1. \A k \in Keys : latest'[k] = Old => latest[k] = Old
    <2>1. ASSUME NEW k \in Keys, NEW v \in {New, Missing}, ClientWrite(k, v)
          PROVE  \A l \in Keys : latest'[l] = Old => latest[l] = Old
      BY <2>1 DEF ClientWrite, TypeOK
    <2>2. CASE UNCHANGED latest
      BY <2>2
    <2> QED
      BY <2>1, <2>2 DEF Next, vars, Command, MigrateData, VictimDump, DropVictim, StartPuts,
         StartDeletes, Finish, Fail, RemoveNode, DumpNode, Accept, Apply, Answer
  <1>2. spilled \subseteq spilled' /\ overtaken \subseteq overtaken'
    BY DEF Next, vars, Command, MigrateData, VictimDump, DropVictim, StartPuts,
       StartDeletes, Finish, Fail, RemoveNode, DumpNode, Accept, Apply, Answer, ClientWrite
  <1> QED
    BY <1>1, <1>2 DEF Settled

LEMMA OldInit == Init => OldOnly
  BY NothingType DEF Init, OldOnly, Flying

\* The value that is put is one of the dumps, or of base.
LEMMA CandidateOld ==
    ASSUME OldOnly, NEW k \in Keys, latest[k] = Old, NEW v \in Candidates(k), TypeOK
    PROVE  v \in {Missing, Old}
  BY DEF Candidates, OldOnly, Strays, TypeOK

LEMMA OldNext == TypeOK /\ Stages /\ OldOnly /\ [Next]_vars => OldOnly'
  <1> SUFFICES ASSUME TypeOK, Stages, OldOnly, [Next]_vars PROVE OldOnly'
    OBVIOUS
  <1> USE MigrationAssumption, NothingType DEF commandVars, requestVars, historyVars
  <1>1. ASSUME NEW r \in Flying'
        PROVE  /\ r.kind = "put" /\ latest'[r.key] = Old => r.value = Old
               /\ r.kind = "delete" => r.value = Missing
    <2>1. CASE r \in Flying
      <3>1. r.key \in Keys /\ (latest'[r.key] = Old => latest[r.key] = Old)
        BY <2>1, RequestType, HistoryGrows
      <3> QED
        BY <2>1, <3>1 DEF OldOnly
    <2>2. CASE /\ r.kind = "put" /\ r.key \in Keys
               /\ r.value \in Candidates(r.key) \ {Missing}
      BY <2>2, HistoryGrows, CandidateOld
    <2>3. CASE r.kind = "delete" /\ r.value = Missing
      BY <2>3
    <2> QED
      BY <2>1, <2>2, <2>3, InFlight
  <1>2. ASSUME NEW k \in Keys, latest'[k] = Old
        PROVE  /\ base'[k] \in {Missing, Old}
               /\ \A n \in Nodes : dumps'[n][k] \in {Missing, Old}
               /\ \A n \in Nodes : storage'[n][k] \in {Missing, Old}
    <2>0. /\ latest[k] = Old /\ base[k] \in {Missing, Old}
          /\ \A n \in Nodes : dumps[n][k] \in {Missing, Old} /\ storage[n][k] \in {Missing, Old}
      BY <1>2, HistoryGrows DEF OldOnly
    <2>1. ASSUME NEW r \in accepted, Apply(r)
          PROVE  /\ UNCHANGED <<base, dumps>>
                 /\ \A n \in Nodes : storage'[n][k] \in {Missing, Old}
      <3>1. /\ r.kind \in {"put", "delete"}
            /\ r.node \in Nodes /\ r.key \in Keys
            /\ r.key = k => r.value \in {Missing, Old}
        BY <2>0, RequestType DEF Flying, OldOnly
      <3> QED
        BY <2>0, <2>1, <3>1 DEF Apply, TypeOK
    <2>2. ASSUME NEW l \in Keys, NEW v \in {New, Missing}, ClientWrite(l, v)
          PROVE  /\ UNCHANGED <<base, dumps>>
                 /\ \A n \in Nodes : storage'[n][k] \in {Missing, Old}
      BY <1>2, <2>0, <2>2, OwnerIn DEF ClientWrite, TypeOK
    <2>3. CASE VictimDump
      BY <2>0, <2>3 DEF VictimDump, TypeOK
    <2>4. ASSUME NEW n \in Nodes, DumpNode(n)
          PROVE  /\ UNCHANGED <<base, storage>>
                 /\ \A m \in Nodes : dumps'[m][k] \in {Missing, Old}
      BY <2>0, <2>4 DEF DumpNode, TypeOK
    <2>5. CASE /\ UNCHANGED storage /\ base' \in {base, Nothing}
               /\ dumps' \in {dumps, [n \in Nodes |-> Nothing]}
      BY <2>0, <2>5
    <2> QED
      BY <2>0, <2>1, <2>2, <2>3, <2>4, <2>5 DEF Next, vars, Command, MigrateData, DropVictim,
         StartPuts, StartDeletes, Finish, Fail, RemoveNode, Accept, Answer
  <1> QED
    BY <1>1, <1>2 DEF OldOnly

LEMMA AimedInit == Init => Aimed
  BY DEF Init, Aimed, Flying

LEMMA NodesStay ==
    ASSUME [Next]_vars, ~ DropVictim
    PROVE  nodes' = nodes /\ \A k : Owner(k)' = Owner(k)
  <1>1. nodes' = nodes
    BY DEF Next, vars, Command, MigrateData, VictimDump, StartPuts, StartDeletes, Finish,
       Fail, RemoveNode, DumpNode, Accept, Apply, Answer, ClientWrite
  <1> QED
    BY <1>1 DEF Owner

LEMMA AimedNext == TypeOK /\ Stages /\ Aimed /\ VictimDumped /\ [Next]_vars => Aimed'
  <1> SUFFICES ASSUME TypeOK, Stages, Aimed, VictimDumped, [Next]_vars PROVE Aimed'
    OBVIOUS
  <1> USE DEF commandVars, requestVars, historyVars
  <1>1. CASE DropVictim
    <2>1. Flying' = Flying /\ toDelete' = {} /\ overtaken' = overtaken
      BY <1>1 DEF DropVictim, Flying, Stages
    <2> QED
      BY <1>1, <2>1 DEF DropVictim, Aimed, VictimDumped
  <1>2. CASE ~ DropVictim
    <2>1. ASSUME NEW r \in Flying', r.key \notin overtaken'
          PROVE  r.kind = "put" <=> r.node = Owner(r.key)
      <3>1. r.key \notin overtaken
        BY <2>1, HistoryGrows
      <3>2. CASE r \in Flying
        BY <3>1, <3>2 DEF Aimed
      <3>3. CASE r.kind = "put" /\ r.node = Owner(r.key)
        BY <3>3
      <3>4. CASE r.kind = "delete" /\ <<r.node, r.key>> \in toDelete
        BY <3>4 DEF Aimed, TypeOK
      <3> QED
        BY <3>2, <3>3, <3>4, InFlight
    <2>2. ASSUME NEW n \in Nodes, NEW k \in Keys, <<n, k>> \in toDelete'
          PROVE  n # Owner(k)
      <3>1. CASE StartPuts
        BY <2>2, <3>1 DEF StartPuts, Strays
      <3>2. CASE toDelete' \subseteq toDelete
        BY <2>2, <3>2 DEF Aimed
      <3>3. CASE ~ StartPuts
        <4>1. toDelete' \in {toDelete, {}}
          BY <3>3 DEF Next, vars, Command, MigrateData, VictimDump, DropVictim, StartDeletes,
             Finish, Fail, RemoveNode, DumpNode, Accept, Apply, Answer, ClientWrite
        <4> QED
          BY <3>2, <4>1
      <3> QED
        BY <3>1, <3>3
    <2> QED
      BY <1>2, <2>1, <2>2, NodesStay DEF Aimed
  <1> QED
    BY <1>1, <1>2

----------------------------------------------------------------------------
(* What a step can do to a key the clients left alone.                      *)

\* Requests and clients leave the command where it is; an answer takes away
\* what was awaited.
LEMMA Quiet ==
    ASSUME [Next]_vars, ~ Command
    PROVE  /\ UNCHANGED <<nodes, commandVars, spilled, overtaken>>
           /\ awaited' = awaited \/ \E r \in awaited : Answer(r)
  BY DEF Next, vars, commandVars, requestVars, historyVars, Accept, Apply, Answer, ClientWrite

\* A settled key changes on a node only when a request is applied there.
LEMMA StorageOf ==
    ASSUME TypeOK, [Next]_vars, NEW k \in Keys, Settled(k)', NEW n \in Nodes
    PROVE  \/ storage'[n][k] = storage[n][k]
           \/ \E r \in accepted : /\ Apply(r) /\ r.node = n /\ r.key = k
                                  /\ storage'[n][k] = r.value
  <1> USE DEF commandVars, requestVars, historyVars
  <1>1. ASSUME NEW r \in accepted, Apply(r)
        PROVE  \/ storage'[n][k] = storage[n][k]
               \/ r.node = n /\ r.key = k /\ storage'[n][k] = r.value
    <2>1. r.node \in Nodes /\ r.key \in Keys
      BY RequestType DEF Flying
    <2> QED
      BY <1>1, <2>1 DEF Apply, TypeOK
  <1>2. ASSUME NEW l \in Keys, NEW v \in {New, Missing}, ClientWrite(l, v)
        PROVE  storage'[n][k] = storage[n][k]
    <2>1. latest'[l] = v /\ v # Old
      BY <1>2, MigrationAssumption DEF ClientWrite, TypeOK
    <2>2. l # k
      BY <2>1 DEF Settled
    <2> QED
      BY <1>2, <2>2, OwnerIn DEF ClientWrite, TypeOK
  <1>3. CASE UNCHANGED storage
    BY <1>3
  <1> QED
    BY <1>1, <1>2, <1>3 DEF Next, vars, Command, MigrateData, VictimDump, DropVictim, StartPuts,
       StartDeletes, Finish, Fail, RemoveNode, DumpNode, Accept, Answer

\* What a shard accepted it applies.
LEMMA PendingStays ==
    ASSUME TypeOK, [Next]_vars, NEW kind, NEW n \in Nodes, NEW k \in Keys,
           Pending(kind, n, k)
    PROVE  \/ Pending(kind, n, k)'
           \/ \E r \in accepted : /\ Apply(r) /\ r.kind = kind /\ r.node = n /\ r.key = k
                                  /\ storage'[n][k] = r.value
  <1> USE DEF commandVars, requestVars, historyVars
  <1>1. PICK r \in accepted : r.kind = kind /\ r.node = n /\ r.key = k
    BY DEF Pending
  <1>2. CASE r \in accepted'
    BY <1>1, <1>2 DEF Pending
  <1>3. CASE r \notin accepted'
    <2>1. Apply(r)
      BY <1>3 DEF Next, vars, Command, MigrateData, VictimDump, DropVictim, StartPuts,
         StartDeletes, Finish, Fail, RemoveNode, DumpNode, Accept, Apply, Answer, ClientWrite
    <2> QED
      BY <1>1, <2>1 DEF Apply, TypeOK
  <1> QED
    BY <1>2, <1>3

\* What is applied for a settled key: a put of its value to the owner, or a
\* delete elsewhere.
LEMMA AppliedIs ==
    ASSUME TypeOK, OldOnly, Aimed, NEW r \in Flying, Settled(r.key)
    PROVE  \/ r.kind = "put" /\ r.node = Owner(r.key) /\ r.value = Old
           \/ r.kind = "delete" /\ r.node # Owner(r.key) /\ r.value = Missing
  BY RequestType DEF OldOnly, Aimed, Settled

\* A key that is at home stays there.
LEMMA HomeStays ==
    ASSUME TypeOK, OldOnly, Aimed, [Next]_vars, ~ DropVictim,
           NEW k \in Keys, Settled(k)', AtHome(k)
    PROVE  AtHome(k)'
  <1>1. /\ Owner(k)' = Owner(k) /\ Owner(k) \in Nodes /\ Settled(k)
    BY NodesStay, OwnerIn, HistoryGrows
  <1>2. ASSUME NEW r \in accepted, r.key = k, r.node = Owner(k)
        PROVE  r.value = Old
    BY <1>1, <1>2, AppliedIs DEF Flying
  <1>3. CASE storage[Owner(k)][k] = Old
    <2>1. storage'[Owner(k)][k] = Old
      BY <1>1, <1>2, <1>3, StorageOf
    <2> QED
      BY <1>1, <2>1 DEF AtHome
  <1>4. CASE Pending("put", Owner(k), k)
    <2>1. Pending("put", Owner(k), k)' \/ storage'[Owner(k)][k] = Old
      BY <1>1, <1>2, <1>4, PendingStays
    <2> QED
      BY <1>1, <2>1 DEF AtHome, Pending
  <1> QED
    BY <1>3, <1>4 DEF AtHome

\* Nothing of a settled key is written away from its owner, and a delete that
\* is accepted there is applied.
LEMMA AwayStays ==
    ASSUME TypeOK, OldOnly, Aimed, [Next]_vars, ~ DropVictim,
           NEW k \in Keys, Settled(k)', NEW n \in Nodes \ {Owner(k)},
           storage'[n][k] # Missing
    PROVE  /\ storage[n][k] # Missing
           /\ Pending("delete", n, k) => Pending("delete", n, k)'
  <1>1. Settled(k)
    BY HistoryGrows
  <1>2. ASSUME NEW r \in accepted, r.key = k, r.node = n
        PROVE  r.value = Missing
    BY <1>1, <1>2, AppliedIs DEF Flying
  <1> QED
    BY <1>2, StorageOf, PendingStays

----------------------------------------------------------------------------
(* The order of puts, deletes and the dump of a victim.                     *)

LEMMA DeletesInit == Init => DeletesFollow /\ VictimDumped
  BY DEF Init, DeletesFollow, VictimDumped, Flying

LEMMA DeletesNext ==
    TypeOK /\ Stages /\ OldOnly /\ Aimed /\ DeletesFollow /\ VictimDumped /\ OnItsWay
      /\ [Next]_vars => DeletesFollow'
  <1> SUFFICES ASSUME TypeOK, Stages, OldOnly, Aimed, DeletesFollow, VictimDumped, OnItsWay,
                      [Next]_vars, NEW r \in Flying', Settled(r.key)'
               PROVE  /\ r.kind = "delete" => AtHome(r.key)'
                      /\ r \in applied' => /\ r.kind = "put" => AtHome(r.key)'
                                           /\ r.kind = "delete" => storage'[r.node][r.key] = Missing
    BY DEF DeletesFollow
  <1>1. /\ r \in Requests /\ r.key \in Keys /\ r.node \in Nodes
        /\ r.kind \in {"put", "delete"} /\ Settled(r.key)
    BY TypeNext, HistoryGrows DEF TypeOK, Flying, Requests
  <1>2. CASE DropVictim
    BY <1>1, <1>2, InFlight DEF DropVictim, VictimDumped, Settled, StartPuts, StartDeletes
  <1>3. CASE ~ DropVictim
    <2>1. AtHome(r.key) => AtHome(r.key)'
      BY <1>1, <1>3, HomeStays
    <2>2. CASE r \in Flying
      <3>1. r.kind = "delete" => AtHome(r.key)
        BY <1>1, <2>2 DEF DeletesFollow
      <3>2. CASE r \in applied
        <4>1. r.kind = "put" => AtHome(r.key)
          BY <1>1, <2>2, <3>2 DEF DeletesFollow
        <4>2. r.kind = "delete" => /\ storage[r.node][r.key] = Missing
                                   /\ r.node \in Nodes \ {Owner(r.key)}
          BY <1>1, <2>2, <3>2, AppliedIs DEF DeletesFollow
        <4>3. r.kind = "delete" => storage'[r.node][r.key] = Missing
          BY <1>1, <1>3, <4>2, AwayStays
        <4> QED
          BY <2>1, <3>1, <4>1, <4>3
      <3>3. CASE r \in applied' \ applied
        <4>0. CASE Command
          BY <3>3, <4>0 DEF requestVars, Command, MigrateData, VictimDump, DropVictim, StartPuts,
             StartDeletes, Finish, Fail, RemoveNode, DumpNode
        <4>1. CASE r \in accepted /\ Apply(r)
          <5>1. storage'[r.node][r.key] = r.value
            BY <1>1, <4>1 DEF Apply, TypeOK
          <5>2. CASE r.kind = "put"
            <6>1. r.node = Owner(r.key) /\ r.value = Old
              BY <1>1, <2>2, <5>2, AppliedIs
            <6> QED
              BY <1>1, <1>3, <5>1, <5>2, <6>1, NodesStay DEF AtHome
          <5>3. CASE r.kind = "delete"
            BY <1>1, <2>1, <2>2, <3>1, <5>1, <5>3, AppliedIs
          <5> QED
            BY <1>1, <5>2, <5>3
        <4> QED
          <5>1. CASE UNCHANGED applied
            BY <3>3, <5>1
          <5>2. ASSUME NEW q \in accepted, Apply(q) PROVE q = r
            BY <3>3, <5>2 DEF Apply
          <5> QED
            BY <3>3, <4>0, <4>1, <5>1, <5>2 DEF Next, vars, requestVars, Accept, Answer, ClientWrite
      <3> QED
        BY <2>1, <3>1, <3>2, <3>3
    <2>3. CASE r \notin Flying
      <3>1. r \notin applied'
        BY <2>3, InFlight DEF StartPuts, StartDeletes, Flying
      <3>2. ASSUME r.kind = "delete" PROVE AtHome(r.key)
        <4>1. StartDeletes /\ <<r.node, r.key>> \in toDelete /\ r.node \in nodes
          BY <2>3, <3>2, InFlight DEF TypeOK
        <4> QED
          BY <1>1, <4>1 DEF StartDeletes, OnItsWay, AwaitedFor
      <3> QED
        BY <2>1, <3>1, <3>2
    <2> QED
      BY <2>2, <2>3
  <1> QED
    BY <1>2, <1>3

LEMMA VictimNext ==
    TypeOK /\ Stages /\ VictimDumped /\ [Next]_vars => VictimDumped'
  <1> SUFFICES ASSUME TypeOK, Stages, VictimDumped, [Next]_vars, op' = "drop"
               PROVE  VictimDumped'
    BY DEF VictimDumped
  <1>1. CASE VictimDump
    <2>1. awaited = {} /\ applied = {}
      BY <1>1 DEF VictimDump, Stages
    <2> QED
      BY <1>1, <2>1 DEF VictimDump, VictimDumped, Flying, requestVars
  <1>2. CASE ~ VictimDump
    <2>1. ~ Command
      BY <1>2 DEF Command, MigrateData, VictimDump, DropVictim, StartPuts, StartDeletes,
         Finish, Fail, RemoveNode, DumpNode, Stages
    <2>2. op = "drop" /\ base' = base /\ victim' = victim /\ overtaken' = overtaken
      BY <2>1, Quiet DEF commandVars
    <2>3. ASSUME NEW r \in Flying' PROVE r.key \in overtaken'
      BY <2>1, <2>2, InFlight DEF VictimDumped, Command
    <2>4. ASSUME NEW k \in Keys, Settled(k)'
          PROVE  base'[k] = storage'[victim'][k]
      <3>1. Settled(k) /\ victim \in Nodes
        BY <2>2, <2>4, HistoryGrows DEF TypeOK
      <3>2. base[k] = storage[victim][k]
        BY <2>2, <3>1 DEF VictimDumped
      <3>3. \A r \in accepted : r.key # k
        BY <2>2, <3>1 DEF VictimDumped, Flying, Settled
      <3> QED
        BY <2>2, <2>4, <3>1, <3>2, <3>3, StorageOf
    <2> QED
      BY <2>3, <2>4 DEF VictimDumped
  <1> QED
    BY <1>1, <1>2

----------------------------------------------------------------------------
(* Every key is on its way to its owner, and off the other nodes.           *)

\* What the command waits for was accepted or applied when it is answered.
LEMMA Answered ==
    ASSUME TypeOK, DeletesFollow, NEW k \in Keys, Settled(k),
           NEW kind, NEW n \in Nodes, AwaitedFor(kind, n, k)
    PROVE  \/ \A r \in awaited : Answer(r) => AwaitedFor(kind, n, k)'
           \/ Pending(kind, n, k)
           \/ kind = "put" /\ AtHome(k)
           \/ kind = "delete" /\ storage[n][k] = Missing
  <1>1. PICK q \in awaited : q.kind = kind /\ q.node = n /\ q.key = k
    BY DEF AwaitedFor
  <1>2. CASE q \in accepted
    BY <1>1, <1>2 DEF Pending
  <1>3. CASE q \in applied
    <2>1. q.kind \in {"put", "delete"}
      BY RequestType DEF Flying
    <2> QED
      BY <1>1, <1>3, <2>1 DEF DeletesFollow, Flying
  <1>4. CASE q \notin accepted \cup applied
    BY <1>1, <1>4 DEF Answer, AwaitedFor
  <1> QED
    BY <1>2, <1>3, <1>4

\* While puts are out a key is at home, or its put is awaited.
LEMMA HomeOrAwaited ==
    ASSUME TypeOK, OldOnly, Aimed, OnItsWay, NothingLost, op = "put",
           NEW k \in Keys, Settled(k)
    PROVE  AtHome(k) \/ AwaitedFor("put", Owner(k), k)
  <1>1. CASE base[k] = Old
    BY <1>1 DEF OnItsWay
  <1>2. ASSUME NEW n \in nodes, storage[n][k] = Old
        PROVE  AtHome(k) \/ AwaitedFor("put", Owner(k), k)
    BY <1>2, MigrationAssumption DEF OnItsWay, AtHome
  <1>3. ASSUME NEW n \in nodes, Pending("put", n, k)
        PROVE  AtHome(k)
    <2>1. PICK r \in accepted : r.kind = "put" /\ r.node = n /\ r.key = k
      BY <1>3 DEF Pending
    <2>2. n = Owner(k)
      BY <2>1 DEF Aimed, Flying, Settled
    <2> QED
      BY <1>3, <2>2 DEF AtHome
  <1> QED
    BY <1>1, <1>2, <1>3 DEF NothingLost

LEMMA WayInit == Init => OnItsWay /\ SuccessPlaces
  BY DEF Init, OnItsWay, SuccessPlaces

\* A key that is not at its owner is among the dumps.
LEMMA WayDump ==
    ASSUME TypeOK, Stages, OldOnly, Aimed, OnItsWay, [Next]_vars,
           NEW k \in Keys, Settled(k)', op' = "dump",
           NEW n \in nodes' \ (asked' \cup {Owner(k)'}), storage'[n][k] # Missing
    PROVE  dumps'[n][k] # Missing
  <1>1. ~ DropVictim /\ ~ MigrateData
    BY DEF DropVictim, MigrateData
  <1>2. n \in nodes \ {Owner(k)} /\ n \in Nodes
    BY <1>1, NodesStay DEF TypeOK
  <1>3. storage[n][k] # Missing /\ Settled(k)
    BY <1>1, <1>2, AwayStays, HistoryGrows
  <1>4. ASSUME NEW m \in Nodes, DumpNode(m)
        PROVE  dumps'[n][k] # Missing
    <2>1. n \notin asked \/ n = m
      BY <1>4 DEF DumpNode
    <2>2. CASE n = m
      BY <1>2, <1>3, <1>4, <2>2 DEF DumpNode, TypeOK
    <2>3. CASE n # m
      BY <1>2, <1>3, <1>4, <2>1, <2>3 DEF DumpNode, TypeOK, OnItsWay
    <2> QED
      BY <2>2, <2>3
  <1>5. CASE ~ Command
    BY <1>2, <1>3, <1>5, Quiet DEF commandVars, OnItsWay
  <1> QED
    BY <1>1, <1>4, <1>5 DEF Command, VictimDump, RemoveNode, StartPuts, StartDeletes, Finish, Fail

\* What is not at its owner will be deleted.
LEMMA WayPutStrays ==
    ASSUME TypeOK, Stages, OldOnly, Aimed, OnItsWay, [Next]_vars,
           NEW k \in Keys, Settled(k)', op' = "put",
           NEW n \in nodes' \ {Owner(k)'}, storage'[n][k] # Missing
    PROVE  <<n, k>> \in toDelete'
  <1>1. ~ DropVictim
    BY DEF DropVictim
  <1>2. n \in nodes \ {Owner(k)} /\ n \in Nodes
    BY <1>1, NodesStay DEF TypeOK
  <1>3. storage[n][k] # Missing /\ Settled(k)
    BY <1>1, <1>2, AwayStays, HistoryGrows
  <1>4. CASE StartPuts
    <2>1. n \in Strays(k)
      BY <1>2, <1>3, <1>4 DEF StartPuts, OnItsWay, Strays
    <2> QED
      BY <1>4, <2>1 DEF StartPuts
  <1>5. CASE ~ Command
    BY <1>2, <1>3, <1>5, Quiet DEF commandVars, OnItsWay
  <1> QED
    BY <1>4, <1>5 DEF Command, MigrateData, VictimDump, DropVictim, RemoveNode, DumpNode,
       StartDeletes, Finish, Fail

\* What will be deleted, or was the victim's, is at home or put there.
LEMMA WayPut ==
    ASSUME TypeOK, Stages, OldOnly, Aimed, DeletesFollow, OnItsWay, [Next]_vars,
           NEW k \in Keys, Settled(k)', op' = "put",
           base'[k] = Old \/ \E n \in nodes' : <<n, k>> \in toDelete'
    PROVE  AtHome(k)' \/ AwaitedFor("put", Owner(k), k)'
  <1>1. ~ DropVictim
    BY DEF DropVictim
  <1>2. /\ nodes' = nodes /\ Owner(k)' = Owner(k) /\ Owner(k) \in Nodes /\ Settled(k)
        /\ AtHome(k) => AtHome(k)'
    BY <1>1, NodesStay, OwnerIn, HistoryGrows, HomeStays
  <1>3. CASE StartPuts
    <2>1. PICK toPut \in [Keys -> Values] :
              /\ \A l \in Keys : toPut[l] \in Candidates(l)
              /\ Issue({Request("put", Owner(l), l, toPut[l]) :
                      l \in {l \in Keys : toPut[l] # Missing}})
      BY <1>3 DEF StartPuts
    <2>2. toPut[k] # Missing
      <3>1. CASE Strays(k) # {}
        BY <2>1, <3>1 DEF Candidates, Strays
      <3>2. CASE Strays(k) = {}
        <4>1. \A n \in nodes : <<n, k>> \notin toDelete'
          BY <1>3, <3>2 DEF StartPuts
        <4>2. base[k] = Old /\ toPut[k] = base[k]
          BY <1>2, <1>3, <2>1, <3>2, <4>1 DEF StartPuts, Candidates
        <4> QED
          BY <4>2, MigrationAssumption
      <3> QED
        BY <3>1, <3>2
    <2>3. Request("put", Owner(k), k, toPut[k]) \in awaited'
      BY <2>1, <2>2 DEF Issue
    <2> QED
      BY <1>2, <2>3 DEF AwaitedFor, Request
  <1>4. CASE ~ Command
    <2>1. /\ op = "put"
          /\ base[k] = Old \/ \E n \in nodes : <<n, k>> \in toDelete
          /\ awaited' = awaited \/ \E r \in awaited : Answer(r)
      BY <1>2, <1>4, Quiet DEF commandVars
    <2>2. CASE AtHome(k)
      BY <1>2, <2>2
    <2>3. CASE AwaitedFor("put", Owner(k), k) /\ ~ AtHome(k)
      <3>1. ASSUME NEW r \in awaited, Answer(r)
            PROVE  AwaitedFor("put", Owner(k), k)'
        BY <1>2, <2>3, <3>1, Answered DEF AtHome
      <3>2. CASE awaited' = awaited
        BY <1>2, <2>3, <3>2 DEF AwaitedFor
      <3> QED
        BY <1>2, <2>1, <3>1, <3>2 DEF AwaitedFor
    <2> QED
      BY <1>2, <2>1, <2>2, <2>3 DEF OnItsWay
  <1> QED
    BY <1>3, <1>4 DEF Command, MigrateData, VictimDump, DropVictim, RemoveNode, DumpNode,
       StartDeletes, Finish, Fail

\* What is not at its owner is being deleted.
LEMMA WayDelete ==
    ASSUME TypeOK, Stages, OldOnly, Aimed, DeletesFollow, OnItsWay, [Next]_vars,
           NEW k \in Keys, Settled(k)', op' = "delete",
           NEW n \in nodes' \ {Owner(k)'}, storage'[n][k] # Missing
    PROVE  Pending("delete", n, k)' \/ AwaitedFor("delete", n, k)'
  <1>1. ~ DropVictim
    BY DEF DropVictim
  <1>2. n \in nodes \ {Owner(k)} /\ n \in Nodes
    BY <1>1, NodesStay DEF TypeOK
  <1>3. /\ storage[n][k] # Missing /\ Settled(k)
        /\ Pending("delete", n, k) => Pending("delete", n, k)'
    BY <1>1, <1>2, AwayStays, HistoryGrows
  <1>4. CASE StartDeletes
    <2>1. <<n, k>> \in toDelete
      BY <1>2, <1>3, <1>4 DEF StartDeletes, OnItsWay
    <2>2. Request("delete", n, k, Missing) \in awaited'
      <3>1. <<n, k>>[1] = n /\ <<n, k>>[2] = k
        OBVIOUS
      <3>2. awaited' = {Request("delete", d[1], d[2], Missing) : d \in toDelete}
        BY <1>4 DEF StartDeletes, Issue
      <3> QED
        BY <2>1, <3>1, <3>2
    <2> QED
      BY <2>2 DEF AwaitedFor, Request
  <1>5. CASE ~ Command
    <2>1. op = "delete" /\ (awaited' = awaited \/ \E r \in awaited : Answer(r))
      BY <1>5, Quiet DEF commandVars
    <2>2. CASE AwaitedFor("delete", n, k) /\ ~ Pending("delete", n, k)
      <3>1. ASSUME NEW r \in awaited, Answer(r)
            PROVE  AwaitedFor("delete", n, k)'
        BY <1>2, <1>3, <2>2, <3>1, Answered
      <3>2. CASE awaited' = awaited
        BY <2>2, <3>2 DEF AwaitedFor
      <3> QED
        BY <2>1, <3>1, <3>2
    <2> QED
      BY <1>2, <1>3, <2>1, <2>2 DEF OnItsWay
  <1> QED
    BY <1>4, <1>5 DEF Command, MigrateData, VictimDump, DropVictim, RemoveNode, DumpNode,
       StartPuts, Finish, Fail

\* Once deletes are out, every key is at home.
LEMMA WayHome ==
    ASSUME TypeOK, Stages, OldOnly, Aimed, OnItsWay, NothingLost, [Next]_vars,
           NEW k \in Keys, Settled(k)', op' = "delete" \/ (op' = "idle" /\ outcome' = "ok")
    PROVE  AtHome(k)'
  <1>1. ~ DropVictim /\ Settled(k)
    BY HistoryGrows DEF DropVictim
  <1>2. CASE StartDeletes
    BY <1>1, <1>2, HomeOrAwaited, HomeStays DEF StartDeletes, AwaitedFor
  <1>3. CASE Finish
    BY <1>1, <1>3, HomeStays DEF Finish, OnItsWay
  <1>4. CASE ~ Command
    BY <1>1, <1>4, Quiet, HomeStays DEF commandVars, OnItsWay
  <1> QED
    BY <1>1, <1>2, <1>3, <1>4 DEF Command, MigrateData, VictimDump, RemoveNode, DumpNode,
       StartPuts, Fail

LEMMA WayNext ==
    TypeOK /\ Stages /\ OldOnly /\ Aimed /\ DeletesFollow /\ OnItsWay /\ NothingLost
      /\ [Next]_vars => OnItsWay'
  BY WayDump, WayPutStrays, WayPut, WayDelete, WayHome DEF OnItsWay

----------------------------------------------------------------------------
(* The theorems.                                                            *)

LEMMA LostInit == Init => NothingLost
  <1> SUFFICES ASSUME Init, NEW k \in Keys
               PROVE  \E n \in nodes : storage[n][k] = Old
    BY DEF NothingLost
  <1>1. PICK home \in [Keys -> Nodes] :
            storage = [n \in Nodes |-> [l \in Keys |-> IF home[l] = n THEN Old ELSE Missing]]
    BY DEF Init
  <1>2. home[k] \in nodes /\ storage[home[k]][k] = Old
    BY <1>1 DEF Init
  <1> QED
    BY <1>2

\* What a node of the cluster has, or has accepted, is not lost while the
\* cluster stays the same.
LEMMA KeptStays ==
    ASSUME TypeOK, OldOnly, Aimed, DeletesFollow, [Next]_vars, ~ DropVictim,
           NEW k \in Keys, Settled(k)',
           NEW n \in nodes, storage[n][k] = Old \/ Pending("put", n, k)
    PROVE  \E m \in nodes' : storage'[m][k] = Old \/ Pending("put", m, k)'
  <1>1. nodes' = nodes /\ n \in Nodes /\ Settled(k)
    BY NodesStay, HistoryGrows DEF TypeOK
  <1>2. CASE AtHome(k)
    BY <1>1, <1>2, HomeStays, OwnerIn, NodesStay DEF AtHome
  <1>3. CASE ~ AtHome(k)
    <2>1. ASSUME NEW r \in accepted, r.key = k
          PROVE  r.value = Old
      BY <1>1, <1>3, <2>1, AppliedIs DEF DeletesFollow, Flying
    <2>2. storage'[n][k] = Old \/ Pending("put", n, k)'
      BY <1>1, <2>1, StorageOf, PendingStays
    <2> QED
      BY <1>1, <2>2
  <1> QED
    BY <1>2, <1>3

LEMMA LostNext ==
    TypeOK /\ Stages /\ OldOnly /\ Aimed /\ DeletesFollow /\ VictimDumped /\ OnItsWay
      /\ NothingLost /\ [Next]_vars => NothingLost'
  <1> SUFFICES ASSUME TypeOK, Stages, OldOnly, Aimed, DeletesFollow, VictimDumped, OnItsWay,
                      NothingLost, [Next]_vars, NEW k \in Keys, Settled(k)'
               PROVE  \/ \E n \in nodes' : storage'[n][k] = Old \/ Pending("put", n, k)'
                      \/ base'[k] = Old
    BY DEF NothingLost
  <1>1. /\ Settled(k) /\ Nothing[k] = Missing /\ Missing # Old
        /\ \/ \E n \in nodes : storage[n][k] = Old \/ Pending("put", n, k)
           \/ base[k] = Old
    BY HistoryGrows, NothingType, MigrationAssumption DEF NothingLost
  <1>2. CASE DropVictim
    <2>1. op = "drop" /\ nodes' = nodes \ {victim} /\ UNCHANGED <<storage, base, accepted>>
      BY <1>2 DEF DropVictim, requestVars
    <2>2. ~ Pending("put", victim, k)
      BY <1>1, <2>1 DEF VictimDumped, Pending, Flying, Settled
    <2>3. base[k] = storage[victim][k]
      BY <1>1, <2>1 DEF VictimDumped
    <2> QED
      BY <1>1, <2>1, <2>2, <2>3 DEF Pending
  <1>3. CASE ~ DropVictim
    <2>1. CASE \E n \in nodes : storage[n][k] = Old \/ Pending("put", n, k)
      BY <1>3, <2>1, KeptStays
    <2>2. CASE base[k] = Old /\ ~ \E n \in nodes : storage[n][k] = Old \/ Pending("put", n, k)
      <3>1. op \in {"drop", "dump", "put"}
        BY <1>1, <2>2 DEF Stages, TypeOK
      <3>2. op = "put" => AwaitedFor("put", Owner(k), k)
        BY <1>1, <2>2, HomeOrAwaited, OwnerIn DEF AtHome
      <3>3. ~ StartDeletes
        BY <3>2 DEF StartDeletes, AwaitedFor
      <3>4. ~ Fail
        <4>1. ASSUME Fail PROVE k \in spilled'
          <5>1. op \in {"dump", "put"}
            BY <3>1, <4>1 DEF Fail, Stages
          <5>2. op = "put" => \E r \in awaited : r.key = k
            BY <3>2 DEF AwaitedFor
          <5> QED
            BY <1>1, <2>2, <4>1, <5>1, <5>2 DEF Fail
        <4> QED
          BY <4>1 DEF Settled
      <3>5. base' = base
        <4>1. CASE Command
          BY <1>3, <3>1, <3>3, <3>4, <4>1 DEF Command, MigrateData, VictimDump, StartPuts,
             Finish, RemoveNode, DumpNode
        <4>2. CASE ~ Command
          BY <4>2, Quiet DEF commandVars
        <4> QED
          BY <4>1, <4>2
      <3> QED
        BY <2>2, <3>5
    <2> QED
      BY <1>1, <2>1, <2>2
  <1> QED
    BY <1>2, <1>3

LEMMA SuccessNext ==
    TypeOK /\ Stages /\ OldOnly /\ Aimed /\ OnItsWay /\ NothingLost /\ SuccessPlaces
      /\ [Next]_vars => SuccessPlaces'
  <1> SUFFICES ASSUME TypeOK, Stages, OldOnly, Aimed, OnItsWay, NothingLost, SuccessPlaces,
                      [Next]_vars, op' = "idle", outcome' = "ok", NEW k \in Keys, Settled(k)'
               PROVE  /\ AtHome(k)'
                      /\ \A n \in nodes' \ {Owner(k)'} :
                            storage'[n][k] # Missing => Pending("delete", n, k)'
    BY DEF SuccessPlaces, AtHome
  <1>1. ~ DropVictim /\ Settled(k)
    BY HistoryGrows DEF DropVictim
  <1>2. ASSUME NEW n \in nodes' \ {Owner(k)'}, storage'[n][k] # Missing
        PROVE  Pending("delete", n, k)'
    <2>1. n \in nodes \ {Owner(k)} /\ n \in Nodes
      BY <1>1, <1>2, NodesStay DEF TypeOK
    <2>2. /\ storage[n][k] # Missing
          /\ Pending("delete", n, k) => Pending("delete", n, k)'
      BY <1>1, <1>2, <2>1, AwayStays
    <2>3. CASE Finish
      BY <1>1, <2>1, <2>2, <2>3 DEF Finish, OnItsWay, AwaitedFor
    <2>4. CASE ~ Command
      BY <1>1, <2>1, <2>2, <2>4, Quiet DEF commandVars, SuccessPlaces
    <2> QED
      BY <1>1, <2>3, <2>4 DEF Command, MigrateData, VictimDump, RemoveNode, DumpNode, StartPuts,
         StartDeletes, Fail
  <1> QED
    BY <1>1, <1>2, WayHome

LEMMA Invariant == Spec => []IInv
  <1>1. Init => IInv
    BY TypeInit, OldInit, AimedInit, DeletesInit, WayInit, LostInit DEF IInv
  <1>2. IInv /\ [Next]_vars => IInv'
    BY TypeNext, OldNext, AimedNext, DeletesNext, VictimNext, WayNext, LostNext, SuccessNext
       DEF IInv
  <1> QED
    BY <1>1, <1>2, PTL DEF Spec

\* At every instant, of failed migrations and of removals too, a key clients
\* left alone is on a node of the cluster, on its way to one, or in the dump of
\* the victim the router still works on (migrate, removeNode).
THEOREM NothingLostHolds == Spec => []NothingLost
  <1>1. IInv => NothingLost
    BY DEF IInv
  <1> QED
    BY <1>1, Invariant, PTL

\* A command that answers OK, also one that repeats a failed one, has put every
\* such key to its owner and off every other node (migrateData).
THEOREM SuccessPlacesHolds == Spec => []SuccessPlaces
  <1>1. IInv => SuccessPlaces
    BY DEF IInv
  <1> QED
    BY <1>1, Invariant, PTL

=============================================================================
