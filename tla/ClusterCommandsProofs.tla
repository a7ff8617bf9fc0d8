----------------------- MODULE ClusterCommandsProofs -----------------------
(***************************************************************************)
(* Proofs about ClusterCommands, for any number of commands at once: the    *)
(* connections follow the configuration, what Delete takes from deletedData *)
(* is in the hands of a migration, and no key is moved onto the node it is  *)
(* on; and migrations that overlap lose no key between them, and leave each *)
(* one at its owner.                                                        *)
(***************************************************************************)
EXTENDS ClusterCommands, TLAPS

Kinds  == {"none", "addNode", "removeNode", "setRouting", "retune", "migrateData"}
Pcs    == {"idle", "victim", "store", "apply", "decide", "range", "forget",
           "dump", "put", "delete", "ok", "err"}
Stamps == {Absent} \cup Tags

LocalType ==
    [kind : Kinds, pc : Pcs, node : Nodes \cup {NoNode}, auto : BOOLEAN,
     base : [Keys -> Stamps], todo : SUBSET Keys, ask : SUBSET Nodes,
     asked : SUBSET Connections, dumps : SUBSET (Nodes \X Keys),
     looking : SUBSET [node : Nodes, key : Keys, new : Connections],
     puts : SUBSET (Connections \X Keys), moves : SUBSET MoveType, wait : SUBSET RequestType]

VarTypes ==
    /\ nodes \subseteq Nodes /\ nodes # {} /\ routing \in Routings
    /\ peers \subseteq Nodes /\ gen \in Nat \ {0} /\ undialled \subseteq Nodes
    /\ storage \in [Nodes -> SUBSET Keys] /\ deletedData \in [Keys -> Stamps]
    /\ sent \subseteq RequestType /\ claimed \subseteq RequestType
    /\ \A r \in sent \cup claimed : r.to # Nil
    /\ mixed \in BOOLEAN /\ spilled \subseteq Keys

Types == VarTypes /\ cmd \in [Commands -> LocalType]

\* The local variables l of a handler hold something to wait for, to look up or
\* to delete at certain places only.
Stages(l) ==
    /\ l.todo # {} => l.pc \in {"store", "range", "forget", "dump"}
    /\ l.ask # {} => l.pc = "dump"
    /\ l.asked # {} => l.pc \in {"victim", "dump"}
    /\ l.wait # {} => l.pc \in {"put", "delete"}
    /\ l.looking # {} => l.pc = "dump"
    /\ l.dumps # {} => l.pc = "dump"
    /\ l.moves # {} => l.pc \in {"dump", "put", "delete"}
    /\ l.puts # {} => l.pc \in {"dump", "put"}

\* The reason for NoMoveOntoItself: the new connection was looked up first, so
\* if the two are of one node it is of an earlier generation than g, and the
\* put for it, which is not sent, is waited for until the deadline.
Overtaken(c, l, g) ==
    /\ \A k \in l.looking : k.new[2] <= g
    /\ \A m \in l.moves : m.new[1] = m.old[1] =>
          /\ m.new # Nil /\ m.new[2] < g
          /\ l.pc = "dump" => <<m.new, m.key>> \in l.puts
          /\ l.pc = "put" =>
                [cmd |-> c, kind |-> "put", to |-> m.new, key |-> m.key] \in l.wait
          /\ l.pc # "delete"

\* The reason for DeletedDataHandedOver, for what the deletedData D holds: a
\* removeNode that migrates has in its base what it stored, until after its own
\* Delete of it; and a migration that is past Range of a key has in its base
\* what was there before the commands.
InHand(c, l, D) ==
    /\ l.auto => l.kind = "removeNode"
    /\ l.pc = "store" => \A k \in l.todo : l.base[k] = c
    /\ \A k \in Keys : D[k] = c =>
          /\ l.pc \notin {"idle", "victim"}
          /\ l.auto => /\ l.base[k] = c
                       /\ \/ l.pc \in {"store", "apply", "decide", "range"}
                          \/ l.pc = "forget" /\ k \in l.todo
    /\ \A k \in Keys : D[k] = Earlier =>
          /\ l.pc = "range" => k \in l.todo \/ l.base[k] = Earlier
          /\ l.pc = "forget" /\ k \in l.todo => l.base[k] = Earlier

Good(c, l, g) == Stages(l) /\ Overtaken(c, l, g)

IInv ==
    /\ Types
    /\ \A c \in Commands : Good(c, cmd[c], gen)
    /\ \A c \in Commands : InHand(c, cmd[c], deletedData)

----------------------------------------------------------------------------
(* Connections, and the records of the handlers. *)

LEMMA ConnectionTypes ==
    ASSUME peers \subseteq Nodes, gen \in Nat \ {0}
    PROVE  /\ Nil \in Connections
           /\ \A n : Peer(n) \in Connections
           /\ \A n : Peer(n) # Nil => Peer(n) = <<n, gen>> /\ n \in Nodes
           /\ \A k : FindShard(k) \in Connections
           /\ \A n : GetConnectionByNodeId(n) \in Connections
           /\ \A x \in Connections : Live(x) => x[1] \in Nodes /\ x[2] = gen /\ x # Nil
<1>. USE ClusterCommandsAssumption
<1>1. Nil \in Connections
  BY DEF Connections
<1>2. ASSUME NEW n
      PROVE  Peer(n) \in Connections /\ (Peer(n) # Nil => Peer(n) = <<n, gen>> /\ n \in Nodes)
  BY <1>1 DEF Peer, Connections
<1>3. \A k : FindShard(k) \in Connections
  BY <1>2 DEF FindShard
<1>4. \A n : GetConnectionByNodeId(n) \in Connections
  BY <1>1, <1>2 DEF GetConnectionByNodeId
<1>5. ASSUME NEW x \in Connections, Live(x)
      PROVE  x[1] \in Nodes /\ x[2] = gen /\ x # Nil
  <2>1. x = Peer(x[1]) /\ x # Nil
    BY <1>5 DEF Live
  <2>2. x = <<x[1], gen>> /\ x[1] \in Nodes
    BY <2>1, <1>2
  <2>3. QED
    BY <2>1, <2>2
<1>6. QED
  BY <1>1, <1>2, <1>3, <1>4, <1>5

LEMMA StampTypes ==
    /\ Absent \in Stamps /\ Earlier \in Stamps /\ Commands \subseteq Stamps
    /\ Earlier \notin Commands /\ Absent \notin Commands /\ Absent # Earlier
    /\ Nothing \in [Keys -> Stamps] /\ \A k \in Keys : Nothing[k] = Absent
BY ClusterCommandsAssumption DEF Stamps, Tags, Commands, Absent, Earlier, Nothing

LEMMA IdleType == Idle \in LocalType
BY StampTypes DEF Idle, LocalType, Kinds, Pcs

LEMMA RequestsType ==
    ASSUME NEW c \in Commands, NEW kind \in {"put", "delete"}, NEW S \in SUBSET (Connections \X Keys)
    PROVE  Requests(c, kind, S) \subseteq RequestType
BY DEF Requests, RequestType

\* A step that changes the record of one command.
LEMMA OneRecord ==
    ASSUME NEW c \in Commands, cmd \in [Commands -> LocalType], NEW new \in LocalType,
           cmd' = [cmd EXCEPT ![c] = new]
    PROVE  /\ cmd' \in [Commands -> LocalType]
           /\ cmd'[c] = new
           /\ \A d \in Commands \ {c} : cmd'[d] = cmd[d]
OBVIOUS

\* A step of command c, which puts itself or nothing in place of what
\* deletedData holds.
LEMMA Frame ==
    ASSUME IInv, NEW c \in Commands, NEW new \in LocalType, cmd' = [cmd EXCEPT ![c] = new],
           VarTypes', gen' >= gen, Good(c, new, gen'),
           \A k \in Keys : deletedData'[k] \in {deletedData[k], c, Absent},
           InHand(c, new, deletedData')
    PROVE  IInv'
<1>1. /\ cmd' \in [Commands -> LocalType] /\ cmd'[c] = new
      /\ \A d \in Commands \ {c} : cmd'[d] = cmd[d]
  BY OneRecord DEF IInv, Types
<1>2. gen \in Nat /\ gen' \in Nat
  BY DEF IInv, Types, VarTypes
<1>3. ASSUME NEW d \in Commands \ {c} PROVE Good(d, cmd'[d], gen')
  <2>1. cmd'[d] = cmd[d] /\ Good(d, cmd[d], gen) /\ cmd[d] \in LocalType
    BY <1>1 DEF IInv, Types
  <2>2. /\ \A k \in cmd[d].looking : k.new[2] \in Nat
        /\ \A m \in cmd[d].moves : m.new[2] \in Nat
    BY <2>1 DEF LocalType, MoveType, Connections, Nil
  <2>3. QED
    BY <1>2, <2>1, <2>2 DEF Good, Overtaken
<1>4. ASSUME NEW d \in Commands \ {c} PROVE InHand(d, cmd'[d], deletedData')
  <2>1. cmd'[d] = cmd[d] /\ InHand(d, cmd[d], deletedData)
    BY <1>1 DEF IInv
  <2>2. \A k \in Keys : /\ deletedData'[k] = d => deletedData[k] = d
                        /\ deletedData'[k] = Earlier => deletedData[k] = Earlier
    BY StampTypes
  <2>3. QED
    BY <2>1, <2>2 DEF InHand
<1>5. \A d \in Commands : Good(d, cmd'[d], gen') /\ InHand(d, cmd'[d], deletedData')
  BY <1>1, <1>3, <1>4
<1>6. QED
  BY <1>1, <1>5 DEF IInv, Types

\* When it changes neither the connections nor deletedData.
LEMMA FrameStill ==
    ASSUME IInv, NEW c \in Commands, NEW new \in LocalType, cmd' = [cmd EXCEPT ![c] = new],
           VarTypes', gen' = gen, deletedData' = deletedData,
           Good(c, new, gen), InHand(c, new, deletedData)
    PROVE  IInv'
<1>1. gen' >= gen
  BY DEF IInv, Types, VarTypes
<1>2. Good(c, new, gen') /\ InHand(c, new, deletedData')
  OBVIOUS
<1>3. \A k \in Keys : deletedData'[k] \in {deletedData[k], c, Absent}
  OBVIOUS
<1>4. QED
  BY <1>1, <1>2, <1>3, Frame

LEMMA LocalTypes ==
    ASSUME IInv, NEW c \in Commands
    PROVE  /\ cmd[c] \in LocalType /\ cmd \in [Commands -> LocalType]
           /\ Good(c, cmd[c], gen) /\ InHand(c, cmd[c], deletedData)
           /\ VarTypes /\ gen \in Nat \ {0}
           /\ cmd[c].kind \in Kinds /\ cmd[c].pc \in Pcs
           /\ cmd[c].base \in [Keys -> Stamps] /\ cmd[c].todo \subseteq Keys
           /\ cmd[c].ask \subseteq Nodes /\ cmd[c].asked \subseteq Connections
           /\ cmd[c].dumps \subseteq Nodes \X Keys
           /\ cmd[c].looking \subseteq [node : Nodes, key : Keys, new : Connections]
           /\ cmd[c].puts \subseteq Connections \X Keys /\ cmd[c].moves \subseteq MoveType
           /\ cmd[c].wait \subseteq RequestType
BY DEF IInv, Types, VarTypes, LocalType

\* Nothing of a handler that has not begun is in deletedData.
LEMMA NotBegun ==
    ASSUME IInv, NEW c \in Commands, cmd[c].pc \in {"idle", "victim"}
    PROVE  \A k \in Keys : deletedData[k] # c
BY DEF IInv, InHand

\* A record with nothing in its hands is good.
LEMMA EmptyHands ==
    ASSUME NEW c, NEW g, NEW kind \in Kinds, NEW pc \in Pcs
    PROVE  /\ [Idle EXCEPT !.kind = kind, !.pc = pc] \in LocalType
           /\ Good(c, [Idle EXCEPT !.kind = kind, !.pc = pc], g)
BY IdleType DEF LocalType, Good, Stages, Overtaken, Idle

LEMMA EmptyInHand ==
    ASSUME IInv, NEW c \in Commands, cmd[c].pc = "idle", NEW kind \in Kinds,
           NEW pc \in Pcs \ {"range", "forget"}
    PROVE  InHand(c, [Idle EXCEPT !.kind = kind, !.pc = pc], deletedData)
BY NotBegun DEF InHand, Idle

----------------------------------------------------------------------------
(* The steps up to migrate. *)

LEMMA StartStep ==
    ASSUME IInv, NEW c \in Commands,
           \/ \E n \in Nodes : AddNode(c, n)
           \/ \E r \in Routings : SetRouting(c, r) \/ Retune(c, r)
    PROVE  IInv'
<1>. USE DEF configVars, peerVars, dataVars, linkVars
<1>v. VarTypes /\ cmd \in [Commands -> LocalType] /\ gen \in Nat
  BY DEF IInv, Types, VarTypes
<1>m. ASSUME NEW kind, Start(c, kind) PROVE mixed' \in BOOLEAN /\ cmd[c].pc = "idle"
  BY <1>m DEF Start
<1>1. PICK kind \in Kinds, pc \in Pcs \ {"range", "forget"} :
         /\ cmd' = [cmd EXCEPT ![c] = [Idle EXCEPT !.kind = kind, !.pc = pc]]
         /\ cmd[c].pc = "idle"
  <2>1. ASSUME NEW n \in Nodes, AddNode(c, n)
        PROVE  /\ cmd' = [cmd EXCEPT ![c] = [Idle EXCEPT !.kind = "addNode", !.pc = "apply"]]
               /\ cmd[c].pc = "idle"
    BY <2>1, <1>m DEF AddNode
  <2>2. ASSUME NEW r \in Routings, SetRouting(c, r)
        PROVE  /\ cmd' = [cmd EXCEPT ![c] = [Idle EXCEPT !.kind = "setRouting", !.pc = "ok"]]
               /\ cmd[c].pc = "idle"
    BY <2>2, <1>m DEF SetRouting
  <2>3. ASSUME NEW r \in Routings, Retune(c, r)
        PROVE  /\ cmd' = [cmd EXCEPT ![c] = [Idle EXCEPT !.kind = "retune", !.pc = "decide"]]
               /\ cmd[c].pc = "idle"
    BY <2>3, <1>m DEF Retune
  <2>4. /\ {"addNode", "setRouting", "retune"} \subseteq Kinds
        /\ {"apply", "ok", "decide"} \subseteq Pcs \ {"range", "forget"}
    BY DEF Kinds, Pcs
  <2>5. QED
    BY <2>1, <2>2, <2>3, <2>4
<1>2. VarTypes' /\ gen' = gen /\ deletedData' = deletedData
  <2>1. ASSUME NEW n \in Nodes, AddNode(c, n)
        PROVE  VarTypes' /\ gen' = gen /\ deletedData' = deletedData
    BY <2>1, <1>v, <1>m DEF AddNode, VarTypes
  <2>2. ASSUME NEW r \in Routings, SetRouting(c, r)
        PROVE  VarTypes' /\ gen' = gen /\ deletedData' = deletedData
    BY <2>2, <1>v, <1>m DEF SetRouting, VarTypes
  <2>3. ASSUME NEW r \in Routings, Retune(c, r)
        PROVE  VarTypes' /\ gen' = gen /\ deletedData' = deletedData
    BY <2>3, <1>v, <1>m DEF Retune, VarTypes
  <2>4. QED
    BY <2>1, <2>2, <2>3
<1>. DEFINE new == [Idle EXCEPT !.kind = kind, !.pc = pc]
<1>3. new \in LocalType /\ Good(c, new, gen) /\ InHand(c, new, deletedData)
  BY <1>1, EmptyHands, EmptyInHand
<1>4. cmd' = [cmd EXCEPT ![c] = new]
  BY <1>1
<1>5. QED
  <2>. HIDE DEF new
  <2>. QED
    BY <1>2, <1>3, <1>4, FrameStill

LEMMA RemoveNodeStep ==
    ASSUME IInv, NEW c \in Commands, NEW n \in Nodes, RemoveNode(c, n)
    PROVE  IInv'
<1>. USE DEF configVars, peerVars, dataVars, linkVars
<1>v. VarTypes /\ cmd \in [Commands -> LocalType] /\ gen \in Nat
  BY DEF IInv, Types, VarTypes
<1>. DEFINE new == [Idle EXCEPT !.kind = "removeNode", !.pc = "victim", !.node = n,
                       !.auto = routing \in Automatic, !.asked = {GetConnectionByNodeId(n)}]
<1>1. GetConnectionByNodeId(n) \in Connections
  BY <1>v, ConnectionTypes DEF VarTypes
<1>2. new \in LocalType
  <2>1. \A auto \in BOOLEAN, x \in Connections :
           [Idle EXCEPT !.kind = "removeNode", !.pc = "victim", !.node = n,
                        !.auto = auto, !.asked = {x}] \in LocalType
    BY IdleType DEF LocalType, Kinds, Pcs
  <2>2. (routing \in Automatic) \in BOOLEAN
    OBVIOUS
  <2>3. QED
    BY <1>1, <2>1, <2>2
<1>3. Good(c, new, gen)
  BY DEF Good, Stages, Overtaken, Idle
<1>4. VarTypes' /\ gen' = gen /\ deletedData' = deletedData /\ cmd[c].pc = "idle"
  BY <1>v DEF RemoveNode, VarTypes, Start
<1>5. InHand(c, new, deletedData)
  BY <1>4, NotBegun DEF InHand, Idle
<1>6. cmd' = [cmd EXCEPT ![c] = new]
  BY DEF RemoveNode
<1>7. QED
  <2>. HIDE DEF new
  <2>. QED
    BY <1>v, <1>2, <1>3, <1>4, <1>5, <1>6, FrameStill

LEMMA MigrateDataStep ==
    ASSUME IInv, NEW c \in Commands, MigrateData(c)
    PROVE  IInv'
<1>. USE DEF configVars, peerVars, dataVars, linkVars
<1>v. VarTypes /\ cmd \in [Commands -> LocalType] /\ gen \in Nat
  BY DEF IInv, Types, VarTypes
<1>. DEFINE new == [Idle EXCEPT !.kind = "migrateData", !.pc = "range", !.todo = Keys]
<1>1. new \in LocalType
  BY IdleType DEF LocalType, Kinds, Pcs
<1>2. Good(c, new, gen)
  BY DEF Good, Stages, Overtaken, Idle
<1>3. VarTypes' /\ gen' = gen /\ deletedData' = deletedData /\ cmd[c].pc = "idle"
  BY <1>v DEF MigrateData, VarTypes, Start
<1>4. InHand(c, new, deletedData)
  BY <1>3, NotBegun DEF InHand, Idle
<1>5. cmd' = [cmd EXCEPT ![c] = new]
  BY DEF MigrateData
<1>6. QED
  <2>. HIDE DEF new
  <2>. QED
    BY <1>v, <1>1, <1>2, <1>3, <1>4, <1>5, FrameStill

LEMMA VictimDumpStep ==
    ASSUME IInv, NEW c \in Commands, VictimDump(c)
    PROVE  IInv'
<1>. USE DEF configVars, peerVars, dataVars, linkVars
<1>l. /\ VarTypes /\ cmd \in [Commands -> LocalType] /\ cmd[c] \in LocalType
      /\ Good(c, cmd[c], gen) /\ InHand(c, cmd[c], deletedData) /\ cmd[c].asked \subseteq Connections
  BY LocalTypes
<1>1. PICK x \in cmd[c].asked :
        /\ Live(x)
        /\ cmd' = [cmd EXCEPT ![c].pc = "store", ![c].asked = {}, ![c].todo = storage[x[1]],
                              ![c].base = [k \in Keys |-> IF k \in storage[x[1]] THEN c ELSE Absent]]
  BY DEF VictimDump
<1>. DEFINE keys == storage[x[1]]
            base == [k \in Keys |-> IF k \in keys THEN c ELSE Absent]
            new  == [cmd[c] EXCEPT !.pc = "store", !.asked = {}, !.todo = keys, !.base = base]
<1>2. x[1] \in Nodes
  BY <1>1, <1>l, ConnectionTypes DEF VarTypes
<1>3. keys \in SUBSET Keys
  BY <1>2, <1>l DEF VarTypes
<1>4. cmd[c].pc = "victim" /\ VarTypes' /\ gen' = gen /\ deletedData' = deletedData
  BY <1>l DEF VictimDump, VarTypes
<1>5. cmd' = [cmd EXCEPT ![c] = new]
  BY <1>1, <1>l DEF LocalType
<1>. HIDE DEF keys
<1>6. base \in [Keys -> Stamps] /\ \A k \in keys : base[k] = c
  BY <1>3, StampTypes
<1>. HIDE DEF base
<1>7. new \in LocalType
  BY <1>3, <1>6, <1>l DEF LocalType, Pcs
<1>8. Good(c, new, gen)
  BY <1>4, <1>l DEF Good, Stages, Overtaken, LocalType
<1>9. InHand(c, new, deletedData)
  BY <1>4, <1>6, <1>l, NotBegun DEF InHand, LocalType
<1>10. QED
  <2>. HIDE DEF new
  <2>. QED
    BY <1>4, <1>5, <1>7, <1>8, <1>9, FrameStill

LEMMA StoreDeletedStep ==
    ASSUME IInv, NEW c \in Commands, NEW k \in cmd[c].todo, StoreDeleted(c, k)
    PROVE  IInv'
<1>. USE DEF configVars, peerVars, dataVars, linkVars
<1>l. /\ VarTypes /\ cmd \in [Commands -> LocalType] /\ cmd[c] \in LocalType /\ gen \in Nat
      /\ Good(c, cmd[c], gen) /\ InHand(c, cmd[c], deletedData) /\ cmd[c].todo \subseteq Keys
  BY LocalTypes
<1>. DEFINE todo == cmd[c].todo \ {k}
            new  == [cmd[c] EXCEPT !.todo = todo]
<1>1. /\ cmd[c].pc = "store" /\ deletedData' = [deletedData EXCEPT ![k] = c]
      /\ cmd' = [cmd EXCEPT ![c].todo = todo]
      /\ UNCHANGED <<configVars, peerVars, storage, linkVars, mixed, spilled>>
  BY <1>l DEF StoreDeleted, LocalType
<1>2. deletedData \in [Keys -> Stamps]
  BY <1>l DEF VarTypes
<1>3. /\ deletedData' \in [Keys -> Stamps] /\ gen' >= gen
      /\ \A j \in Keys : deletedData'[j] = IF j = k THEN c ELSE deletedData[j]
  BY <1>1, <1>2, <1>l, StampTypes
<1>4. VarTypes'
  BY <1>1, <1>3, <1>l DEF VarTypes
<1>5. cmd[c].base[k] = c /\ k \in Keys
  BY <1>1, <1>l DEF InHand
<1>6. new \in LocalType
  BY <1>l DEF LocalType
<1>7. Good(c, new, gen')
  BY <1>1, <1>l DEF Good, Stages, Overtaken, LocalType
<1>8. InHand(c, new, deletedData')
  <2>1. /\ new.auto = cmd[c].auto /\ new.kind = cmd[c].kind /\ new.pc = "store"
        /\ new.base = cmd[c].base /\ new.todo = todo
    BY <1>1, <1>l DEF LocalType
  <2>. HIDE DEF new
  <2>2. \A j \in new.todo : new.base[j] = c
    BY <1>1, <2>1, <1>l DEF InHand
  <2>3. \A j \in Keys : deletedData'[j] = c /\ new.auto => new.base[j] = c
    BY <1>3, <1>5, <2>1, <1>l DEF InHand
  <2>4. QED
    BY <2>1, <2>2, <2>3, <1>l DEF InHand
<1>9. cmd' = [cmd EXCEPT ![c] = new]
  BY <1>1, <1>l DEF LocalType
<1>10. \A j \in Keys : deletedData'[j] \in {deletedData[j], c, Absent}
  BY <1>3
<1>11. QED
  <2>. HIDE DEF new
  <2>. QED
    BY <1>3, <1>4, <1>6, <1>7, <1>8, <1>9, <1>10, Frame

\* Steps that change only where a handler is, with its hands empty.
LEMMA GotoStep ==
    ASSUME IInv, NEW c \in Commands, NEW pc \in {"apply", "decide"}, Goto(c, pc),
           VarTypes', gen' >= gen, deletedData' = deletedData,
           cmd[c].pc \in {"store", "apply"}, cmd[c].todo = {}
    PROVE  IInv'
<1>. DEFINE new == [cmd[c] EXCEPT !.pc = pc]
<1>l. /\ cmd \in [Commands -> LocalType] /\ cmd[c] \in LocalType
      /\ Good(c, cmd[c], gen) /\ InHand(c, cmd[c], deletedData)
  BY LocalTypes
<1>1. new \in LocalType
  BY <1>l DEF LocalType, Pcs
<1>2. Good(c, new, gen')
  BY <1>l DEF Good, Stages, Overtaken, LocalType
<1>3. InHand(c, new, deletedData')
  BY <1>l DEF InHand, LocalType
<1>4. cmd' = [cmd EXCEPT ![c] = new]
  BY <1>l DEF Goto, LocalType
<1>5. \A k \in Keys : deletedData'[k] \in {deletedData[k], c, Absent}
  OBVIOUS
<1>6. QED
  <2>. HIDE DEF new
  <2>. QED
    BY <1>1, <1>2, <1>3, <1>4, <1>5, Frame

LEMMA ApplyStep ==
    ASSUME IInv, NEW c \in Commands, DropVictim(c) \/ Apply(c)
    PROVE  IInv'
<1>. USE DEF configVars, peerVars, dataVars, linkVars
<1>l. VarTypes /\ gen \in Nat \ {0} /\ Stages(cmd[c])
  BY LocalTypes DEF Good
<1>1. CASE DropVictim(c)
  <2>1. VarTypes' /\ gen' >= gen
    BY <1>1, <1>l DEF DropVictim, VarTypes
  <2>2. QED
    BY <1>1, <2>1, GotoStep DEF DropVictim
<1>2. CASE Apply(c)
  <2>1. VarTypes' /\ gen' >= gen
    BY <1>2, <1>l DEF Apply, VarTypes
  <2>2. cmd[c].pc = "apply" /\ cmd[c].todo = {}
    BY <1>2, <1>l DEF Apply, Stages
  <2>3. QED
    BY <1>2, <2>1, <2>2, GotoStep DEF Apply
<1>3. QED
  BY <1>1, <1>2

LEMMA DecideStep ==
    ASSUME IInv, NEW c \in Commands, Decide(c)
    PROVE  IInv'
<1>. USE DEF configVars, peerVars, dataVars, linkVars
<1>l. /\ VarTypes /\ cmd \in [Commands -> LocalType] /\ cmd[c] \in LocalType
      /\ Good(c, cmd[c], gen) /\ InHand(c, cmd[c], deletedData)
  BY LocalTypes
<1>1. VarTypes' /\ gen' = gen /\ deletedData' = deletedData /\ cmd[c].pc = "decide"
  BY <1>l DEF Decide, VarTypes
<1>2. CASE NeedMigrate(c)
  <2>. DEFINE new == [cmd[c] EXCEPT !.pc = "range", !.todo = Keys]
  <2>1. new \in LocalType
    BY <1>l DEF LocalType, Pcs
  <2>2. Good(c, new, gen)
    BY <1>1, <1>l DEF Good, Stages, Overtaken, LocalType
  <2>3. InHand(c, new, deletedData)
    BY <1>1, <1>l DEF InHand, LocalType
  <2>4. cmd' = [cmd EXCEPT ![c] = new]
    BY <1>2, <1>l DEF Decide, LocalType
  <2>5. QED
    <3>. HIDE DEF new
    <3>. QED
      BY <1>1, <2>1, <2>2, <2>3, <2>4, FrameStill
<1>3. CASE ~NeedMigrate(c)
  <2>. DEFINE new == [cmd[c] EXCEPT !.pc = "ok", !.base = Nothing]
  <2>1. new \in LocalType
    BY <1>l, StampTypes DEF LocalType, Pcs
  <2>2. Good(c, new, gen)
    BY <1>1, <1>l DEF Good, Stages, Overtaken, LocalType
  <2>3. ~cmd[c].auto
    BY <1>3, <1>l DEF NeedMigrate, InHand
  <2>4. InHand(c, new, deletedData)
    BY <1>1, <2>3, <1>l DEF InHand, LocalType
  <2>5. cmd' = [cmd EXCEPT ![c] = new]
    BY <1>3, <1>l DEF Decide, LocalType
  <2>6. QED
    <3>. HIDE DEF new
    <3>. QED
      BY <1>1, <2>1, <2>2, <2>4, <2>5, FrameStill
<1>4. QED
  BY <1>2, <1>3

----------------------------------------------------------------------------
(* The steps of migrate. *)

LEMMA CollectStep ==
    ASSUME IInv, NEW c \in Commands, NEW k \in cmd[c].todo, Collect(c, k)
    PROVE  IInv'
<1>. USE DEF configVars, peerVars, dataVars, linkVars
<1>l. /\ VarTypes /\ cmd \in [Commands -> LocalType] /\ cmd[c] \in LocalType
      /\ Good(c, cmd[c], gen) /\ InHand(c, cmd[c], deletedData) /\ cmd[c].todo \subseteq Keys
      /\ cmd[c].base \in [Keys -> Stamps]
  BY LocalTypes
<1>. DEFINE todo == cmd[c].todo \ {k}
            at   == IF deletedData[k] # Absent THEN deletedData[k] ELSE cmd[c].base[k]
            base == [cmd[c].base EXCEPT ![k] = at]
            new  == [cmd[c] EXCEPT !.todo = todo, !.base = base]
<1>1. /\ cmd[c].pc = "range" /\ k \in Keys
      /\ VarTypes' /\ gen' = gen /\ deletedData' = deletedData
  BY <1>l DEF Collect, VarTypes
<1>2. cmd' = [cmd EXCEPT ![c] = new]
  BY <1>l DEF Collect, LocalType
<1>3. at \in Stamps
  BY <1>1, <1>l DEF VarTypes
<1>4. /\ base \in [Keys -> Stamps] /\ base[k] = at
      /\ \A j \in Keys \ {k} : base[j] = cmd[c].base[j]
  BY <1>1, <1>3, <1>l
<1>5. \A j \in Keys : /\ deletedData[j] = c /\ cmd[c].auto => base[j] = c
                      /\ deletedData[j] = Earlier => j \in todo \/ base[j] = Earlier
  <2>1. ASSUME NEW j \in Keys \ {k}
        PROVE  /\ deletedData[j] = c /\ cmd[c].auto => base[j] = c
               /\ deletedData[j] = Earlier => j \in todo \/ base[j] = Earlier
    BY <1>1, <1>4, <1>l DEF InHand
  <2>2. /\ deletedData[k] = c => base[k] = c
        /\ deletedData[k] = Earlier => base[k] = Earlier
    BY <1>1, <1>4, StampTypes
  <2>3. QED
    BY <2>1, <2>2
<1>. HIDE DEF at, base
<1>6. new \in LocalType
  BY <1>4, <1>l DEF LocalType
<1>7. Good(c, new, gen)
  BY <1>1, <1>l DEF Good, Stages, Overtaken, LocalType
<1>8. InHand(c, new, deletedData)
  BY <1>1, <1>5, <1>l DEF InHand, LocalType
<1>9. QED
  <2>. HIDE DEF new
  <2>. QED
    BY <1>1, <1>2, <1>6, <1>7, <1>8, FrameStill

LEMMA CollectedStep ==
    ASSUME IInv, NEW c \in Commands, Collected(c)
    PROVE  IInv'
<1>. USE DEF configVars, peerVars, dataVars, linkVars
<1>l. /\ VarTypes /\ cmd \in [Commands -> LocalType] /\ cmd[c] \in LocalType
      /\ Good(c, cmd[c], gen) /\ InHand(c, cmd[c], deletedData)
  BY LocalTypes
<1>. DEFINE todo == Held(cmd[c].base)
            new  == [cmd[c] EXCEPT !.pc = "forget", !.todo = todo]
<1>1. /\ cmd[c].pc = "range" /\ cmd[c].todo = {}
      /\ VarTypes' /\ gen' = gen /\ deletedData' = deletedData
  BY <1>l DEF Collected, VarTypes
<1>2. cmd' = [cmd EXCEPT ![c] = new]
  BY <1>l DEF Collected, LocalType
<1>3. \A k \in Keys : k \in todo <=> cmd[c].base[k] # Absent
  BY DEF Held
<1>4. todo \in SUBSET Keys
  BY DEF Held
<1>. HIDE DEF todo
<1>5. new \in LocalType
  BY <1>4, <1>l DEF LocalType, Pcs
<1>6. Good(c, new, gen)
  BY <1>1, <1>l DEF Good, Stages, Overtaken, LocalType
<1>7. InHand(c, new, deletedData)
  BY <1>1, <1>3, <1>l, StampTypes DEF InHand, LocalType
<1>8. QED
  <2>. HIDE DEF new
  <2>. QED
    BY <1>1, <1>2, <1>5, <1>6, <1>7, FrameStill

LEMMA ForgetStep ==
    ASSUME IInv, NEW c \in Commands, NEW k \in cmd[c].todo, Forget(c, k)
    PROVE  IInv'
<1>. USE DEF configVars, peerVars, dataVars, linkVars
<1>l. /\ VarTypes /\ cmd \in [Commands -> LocalType] /\ cmd[c] \in LocalType /\ gen \in Nat
      /\ Good(c, cmd[c], gen) /\ InHand(c, cmd[c], deletedData) /\ cmd[c].todo \subseteq Keys
  BY LocalTypes
<1>. DEFINE todo == cmd[c].todo \ {k}
            new  == [cmd[c] EXCEPT !.todo = todo]
<1>1. /\ cmd[c].pc = "forget" /\ deletedData' = [deletedData EXCEPT ![k] = Absent]
      /\ cmd' = [cmd EXCEPT ![c].todo = todo]
      /\ UNCHANGED <<configVars, peerVars, storage, linkVars, mixed, spilled>>
  BY <1>l DEF Forget, LocalType
<1>2. deletedData \in [Keys -> Stamps]
  BY <1>l DEF VarTypes
<1>3. /\ deletedData' \in [Keys -> Stamps] /\ gen' >= gen
      /\ \A j \in Keys : deletedData'[j] = IF j = k THEN Absent ELSE deletedData[j]
  BY <1>1, <1>2, <1>l, StampTypes
<1>4. VarTypes'
  BY <1>1, <1>3, <1>l DEF VarTypes
<1>5. new \in LocalType
  BY <1>l DEF LocalType
<1>6. Good(c, new, gen')
  BY <1>1, <1>l DEF Good, Stages, Overtaken, LocalType
<1>7. InHand(c, new, deletedData')
  <2>1. /\ new.auto = cmd[c].auto /\ new.kind = cmd[c].kind /\ new.pc = "forget"
        /\ new.base = cmd[c].base /\ new.todo = todo
    BY <1>1, <1>l DEF LocalType
  <2>. HIDE DEF new
  <2>2. \A j \in Keys : deletedData'[j] # Absent => j # k /\ deletedData'[j] = deletedData[j]
    BY <1>3
  <2>3. QED
    BY <1>1, <2>1, <2>2, <1>l, StampTypes DEF InHand
<1>8. cmd' = [cmd EXCEPT ![c] = new]
  BY <1>1, <1>l DEF LocalType
<1>9. \A j \in Keys : deletedData'[j] \in {deletedData[j], c, Absent}
  BY <1>3
<1>10. QED
  <2>. HIDE DEF new
  <2>. QED
    BY <1>3, <1>4, <1>5, <1>6, <1>7, <1>8, <1>9, Frame

\* From the plan on a handler has nothing of its own in deletedData that it
\* would hand over.
LEMMA InHandPast ==
    ASSUME IInv, NEW c \in Commands, NEW new, new.auto = cmd[c].auto, new.kind = cmd[c].kind,
           cmd[c].pc \in {"dump", "put", "delete"} \/ (cmd[c].pc = "forget" /\ cmd[c].todo = {}),
           new.pc \in {"dump", "put", "delete", "ok", "err"}
    PROVE  InHand(c, new, deletedData)
BY DEF IInv, InHand

LEMMA PlanStep ==
    ASSUME IInv, NEW c \in Commands, Plan(c)
    PROVE  IInv'
<1>. USE DEF configVars, peerVars, dataVars, linkVars
<1>l. /\ VarTypes /\ cmd \in [Commands -> LocalType] /\ cmd[c] \in LocalType /\ Good(c, cmd[c], gen)
  BY LocalTypes
<1>. DEFINE todo == Held(cmd[c].base)
            new  == [cmd[c] EXCEPT !.pc = "dump", !.todo = todo, !.ask = nodes]
<1>1. /\ cmd[c].pc = "forget" /\ cmd[c].todo = {}
      /\ VarTypes' /\ gen' = gen /\ deletedData' = deletedData
  BY <1>l DEF Plan, VarTypes
<1>2. cmd' = [cmd EXCEPT ![c] = new]
  BY <1>l DEF Plan, LocalType
<1>3. todo \in SUBSET Keys /\ nodes \in SUBSET Nodes
  BY <1>l DEF Held, VarTypes
<1>. HIDE DEF todo
<1>4. new \in LocalType
  BY <1>3, <1>l DEF LocalType, Pcs
<1>5. Good(c, new, gen)
  BY <1>1, <1>l DEF Good, Stages, Overtaken, LocalType
<1>6. new.auto = cmd[c].auto /\ new.kind = cmd[c].kind /\ new.pc = "dump"
  BY <1>l DEF LocalType
<1>7. QED
  <2>. HIDE DEF new
  <2>. QED
    BY <1>1, <1>2, <1>4, <1>5, <1>6, InHandPast, FrameStill

LEMMA PlaceStep ==
    ASSUME IInv, NEW c \in Commands, NEW k \in cmd[c].todo, Place(c, k)
    PROVE  IInv'
<1>. USE DEF configVars, peerVars, dataVars, linkVars
<1>l. /\ VarTypes /\ cmd \in [Commands -> LocalType] /\ cmd[c] \in LocalType /\ Good(c, cmd[c], gen)
      /\ cmd[c].todo \subseteq Keys /\ cmd[c].puts \subseteq Connections \X Keys
  BY LocalTypes
<1>. DEFINE todo == cmd[c].todo \ {k}
            puts == cmd[c].puts \cup {<<FindShard(k), k>>}
            new  == [cmd[c] EXCEPT !.todo = todo, !.puts = puts]
<1>1. cmd[c].pc = "dump" /\ VarTypes' /\ gen' = gen /\ deletedData' = deletedData
  BY <1>l DEF Place, VarTypes
<1>2. cmd' = [cmd EXCEPT ![c] = new]
  BY <1>l DEF Place, LocalType
<1>3. puts \in SUBSET (Connections \X Keys) /\ cmd[c].puts \subseteq puts
  BY <1>l, ConnectionTypes DEF VarTypes
<1>. HIDE DEF puts
<1>4. new \in LocalType
  BY <1>3, <1>l DEF LocalType
<1>5. Good(c, new, gen)
  <2>1. Stages(new)
    BY <1>1, <1>l DEF Good, Stages, LocalType
  <2>2. Overtaken(c, new, gen)
    BY <1>1, <1>3, <1>l DEF Good, Overtaken, LocalType
  <2>3. QED
    BY <2>1, <2>2 DEF Good
<1>6. new.auto = cmd[c].auto /\ new.kind = cmd[c].kind /\ new.pc = "dump"
  BY <1>1, <1>l DEF LocalType
<1>7. QED
  <2>. HIDE DEF new
  <2>. QED
    BY <1>1, <1>2, <1>4, <1>5, <1>6, InHandPast, FrameStill

LEMMA AskStep ==
    ASSUME IInv, NEW c \in Commands, NEW n \in cmd[c].ask, Ask(c, n)
    PROVE  IInv'
<1>. USE DEF configVars, peerVars, dataVars, linkVars
<1>l. /\ VarTypes /\ cmd \in [Commands -> LocalType] /\ cmd[c] \in LocalType /\ Good(c, cmd[c], gen)
      /\ cmd[c].ask \subseteq Nodes /\ cmd[c].asked \subseteq Connections
  BY LocalTypes
<1>. DEFINE ask   == cmd[c].ask \ {n}
            asked == cmd[c].asked \cup {GetConnectionByNodeId(n)}
            new   == [cmd[c] EXCEPT !.ask = ask, !.asked = asked]
<1>1. cmd[c].pc = "dump" /\ VarTypes' /\ gen' = gen /\ deletedData' = deletedData
  BY <1>l DEF Ask, VarTypes
<1>2. cmd' = [cmd EXCEPT ![c] = new]
  BY <1>l DEF Ask, LocalType
<1>3. asked \in SUBSET Connections
  BY <1>l, ConnectionTypes DEF VarTypes
<1>. HIDE DEF asked
<1>4. new \in LocalType
  BY <1>3, <1>l DEF LocalType
<1>5. Good(c, new, gen)
  BY <1>1, <1>l DEF Good, Stages, Overtaken, LocalType
<1>6. new.auto = cmd[c].auto /\ new.kind = cmd[c].kind /\ new.pc = "dump"
  BY <1>1, <1>l DEF LocalType
<1>7. QED
  <2>. HIDE DEF new
  <2>. QED
    BY <1>1, <1>2, <1>4, <1>5, <1>6, InHandPast, FrameStill

LEMMA TakeDumpStep ==
    ASSUME IInv, NEW c \in Commands, NEW x \in cmd[c].asked, TakeDump(c, x)
    PROVE  IInv'
<1>. USE DEF configVars, peerVars, dataVars, linkVars
<1>l. /\ VarTypes /\ cmd \in [Commands -> LocalType] /\ cmd[c] \in LocalType /\ Good(c, cmd[c], gen)
      /\ cmd[c].asked \subseteq Connections /\ cmd[c].dumps \subseteq Nodes \X Keys
  BY LocalTypes
<1>. DEFINE asked == cmd[c].asked \ {x}
            dumps == cmd[c].dumps \cup ({x[1]} \X storage[x[1]])
            new   == [cmd[c] EXCEPT !.asked = asked, !.dumps = dumps]
<1>1. /\ cmd[c].pc = "dump" /\ Live(x)
      /\ VarTypes' /\ gen' = gen /\ deletedData' = deletedData
  BY <1>l DEF TakeDump, VarTypes
<1>2. cmd' = [cmd EXCEPT ![c] = new]
  BY <1>l DEF TakeDump, LocalType
<1>3. x[1] \in Nodes
  BY <1>1, <1>l, ConnectionTypes DEF VarTypes
<1>4. storage[x[1]] \in SUBSET Keys
  BY <1>3, <1>l DEF VarTypes
<1>5. dumps \in SUBSET (Nodes \X Keys)
  BY <1>3, <1>4, <1>l
<1>. HIDE DEF dumps
<1>6. new \in LocalType
  BY <1>5, <1>l DEF LocalType
<1>7. Good(c, new, gen)
  BY <1>1, <1>l DEF Good, Stages, Overtaken, LocalType
<1>8. new.auto = cmd[c].auto /\ new.kind = cmd[c].kind /\ new.pc = "dump"
  BY <1>1, <1>l DEF LocalType
<1>9. QED
  <2>. HIDE DEF new
  <2>. QED
    BY <1>1, <1>2, <1>6, <1>7, <1>8, InHandPast, FrameStill

LEMMA LookUpNewStep ==
    ASSUME IInv, NEW c \in Commands, NEW d \in cmd[c].dumps, LookUpNew(c, d)
    PROVE  IInv'
<1>. USE DEF configVars, peerVars, dataVars, linkVars
<1>l. /\ VarTypes /\ cmd \in [Commands -> LocalType] /\ cmd[c] \in LocalType
      /\ Good(c, cmd[c], gen) /\ gen \in Nat \ {0} /\ cmd[c].dumps \subseteq Nodes \X Keys
  BY LocalTypes
<1>. DEFINE dumps   == cmd[c].dumps \ {d}
            found   == FindShard(d[2])
            looking == {[node |-> d[1], key |-> d[2], new |-> found]}
            new     == [cmd[c] EXCEPT !.dumps = dumps, !.looking = looking]
<1>1. cmd' = [cmd EXCEPT ![c] = new]
  BY <1>l DEF LookUpNew, LocalType
<1>2. d \in Nodes \X Keys
  BY <1>l
<1>3. found \in Connections /\ found[2] <= gen
  <2>1. found \in Connections
    BY <1>l, ConnectionTypes DEF VarTypes
  <2>2. found = Nil \/ found[2] = gen
    BY <1>l, ConnectionTypes DEF VarTypes, FindShard
  <2>3. QED
    BY <2>1, <2>2, <1>l DEF Nil
<1>4. /\ cmd[c].pc = "dump"
      /\ VarTypes' /\ gen' = gen /\ deletedData' = deletedData
  BY <1>l DEF LookUpNew, VarTypes, Good, Stages
<1>. HIDE DEF found
<1>5. dumps \in SUBSET (Nodes \X Keys) /\ looking \in SUBSET [node : Nodes, key : Keys, new : Connections]
  BY <1>2, <1>3, <1>l
<1>6. \A k \in looking : k.new[2] <= gen
  BY <1>3
<1>. HIDE DEF dumps, looking
<1>7. new \in LocalType
  BY <1>5, <1>l DEF LocalType
<1>8. Good(c, new, gen)
  BY <1>4, <1>6, <1>l DEF Good, Stages, Overtaken, LocalType
<1>9. new.auto = cmd[c].auto /\ new.kind = cmd[c].kind /\ new.pc = "dump"
  BY <1>4, <1>l DEF LocalType
<1>10. QED
  <2>. HIDE DEF new
  <2>. QED
    BY <1>1, <1>4, <1>7, <1>8, <1>9, InHandPast, FrameStill

\* Two connections of one node that are not the same: the first is older.
LEMMA Older ==
    ASSUME IInv, NEW a \in Connections, a[2] <= gen, NEW n \in Nodes,
           a # GetConnectionByNodeId(n), a[1] = GetConnectionByNodeId(n)[1]
    PROVE  a # Nil /\ a[2] < gen
<1>v. peers \subseteq Nodes /\ gen \in Nat \ {0} /\ NoNode \notin Nodes
  BY ClusterCommandsAssumption DEF IInv, Types, VarTypes
<1>. DEFINE old == GetConnectionByNodeId(n)
<1>1. old = Nil \/ old = <<n, gen>>
  BY <1>v, ConnectionTypes DEF GetConnectionByNodeId
<1>2. CASE old = Nil
  <2>1. a[1] = NoNode /\ a # Nil
    BY <1>2 DEF Nil
  <2>2. a \in Nodes \X (Nat \ {0})
    BY <2>1 DEF Connections
  <2>3. QED
    BY <1>v, <2>1, <2>2
<1>3. CASE old = <<n, gen>>
  <2>1. a[1] = n /\ a # <<n, gen>>
    BY <1>3
  <2>2. a \in Nodes \X (Nat \ {0})
    BY <2>1, <1>v DEF Connections, Nil
  <2>3. a # Nil
    BY <2>2, <1>v DEF Nil
  <2>4. a[2] # gen /\ a[2] \in Nat
    BY <2>1, <2>2
  <2>5. QED
    BY <2>3, <2>4, <1>v
<1>4. QED
  BY <1>1, <1>2, <1>3

LEMMA LookUpOldStep ==
    ASSUME IInv, NEW c \in Commands, LookUpOld(c)
    PROVE  IInv'
<1>. USE DEF configVars, peerVars, dataVars, linkVars
<1>l. /\ VarTypes /\ cmd \in [Commands -> LocalType] /\ cmd[c] \in LocalType
      /\ Good(c, cmd[c], gen) /\ gen \in Nat \ {0}
      /\ cmd[c].looking \subseteq [node : Nodes, key : Keys, new : Connections]
      /\ cmd[c].puts \subseteq Connections \X Keys /\ cmd[c].moves \subseteq MoveType
  BY LocalTypes
<1>1. PICK l \in cmd[c].looking :
         cmd' = [cmd EXCEPT
                   ![c].looking = {},
                   ![c].puts  = @ \cup IF l.new # GetConnectionByNodeId(l.node) THEN {<<l.new, l.key>>} ELSE {},
                   ![c].moves = @ \cup IF l.new # GetConnectionByNodeId(l.node)
                                       THEN {[key |-> l.key, new |-> l.new, old |-> GetConnectionByNodeId(l.node)]}
                                       ELSE {}]
  BY DEF LookUpOld
<1>. DEFINE old   == GetConnectionByNodeId(l.node)
            move  == [key |-> l.key, new |-> l.new, old |-> old]
            puts  == cmd[c].puts \cup IF l.new # old THEN {<<l.new, l.key>>} ELSE {}
            moves == cmd[c].moves \cup IF l.new # old THEN {move} ELSE {}
            new   == [cmd[c] EXCEPT !.looking = {}, !.puts = puts, !.moves = moves]
<1>2. cmd' = [cmd EXCEPT ![c].looking = {}, ![c].puts = puts, ![c].moves = moves]
  BY <1>1, <1>l DEF LocalType
<1>3. l.node \in Nodes /\ l.key \in Keys /\ l.new \in Connections /\ l.new[2] <= gen
  BY <1>l DEF Good, Overtaken
<1>4. old \in Connections
  BY <1>l, ConnectionTypes DEF VarTypes
<1>5. l.new # old /\ l.new[1] = old[1] => l.new # Nil /\ l.new[2] < gen
  BY <1>3, Older
<1>6. cmd[c].pc = "dump"
  BY <1>l DEF Good, Stages
<1>7. VarTypes' /\ gen' = gen /\ deletedData' = deletedData
  BY <1>l DEF LookUpOld, VarTypes
<1>. HIDE DEF old
<1>8. move \in MoveType /\ <<l.new, l.key>> \in Connections \X Keys
  BY <1>3, <1>4 DEF MoveType
<1>9. puts \in SUBSET (Connections \X Keys) /\ moves \in SUBSET MoveType
  <2>. HIDE DEF move
  <2>. QED
    BY <1>8, <1>l
<1>10. \A m \in moves : m.new[1] = m.old[1] =>
          m.new # Nil /\ m.new[2] < gen /\ <<m.new, m.key>> \in puts
  <2>1. ASSUME NEW m \in cmd[c].moves, m.new[1] = m.old[1]
        PROVE  m.new # Nil /\ m.new[2] < gen /\ <<m.new, m.key>> \in puts
    BY <2>1, <1>6, <1>l DEF Good, Overtaken
  <2>2. ASSUME l.new # old, move.new[1] = move.old[1]
        PROVE  move.new # Nil /\ move.new[2] < gen /\ <<move.new, move.key>> \in puts
    BY <2>2, <1>5
  <2>3. QED
    <3>1. \A m \in moves : m \in cmd[c].moves \/ (m = move /\ l.new # old)
      OBVIOUS
    <3>. HIDE DEF moves, move, puts
    <3>2. QED
      BY <2>1, <2>2, <3>1
<1>. HIDE DEF puts, moves
<1>11. new \in LocalType
  BY <1>9, <1>l DEF LocalType
<1>12. Good(c, new, gen)
  <2>1. Stages(new)
    BY <1>6, <1>l DEF Good, Stages, LocalType
  <2>2. Overtaken(c, new, gen)
    BY <1>6, <1>10, <1>l DEF Overtaken, LocalType
  <2>3. QED
    BY <2>1, <2>2 DEF Good
<1>13. cmd' = [cmd EXCEPT ![c] = new]
  BY <1>2, <1>l DEF LocalType
<1>14. new.auto = cmd[c].auto /\ new.kind = cmd[c].kind /\ new.pc = "dump"
  BY <1>6, <1>l DEF LocalType
<1>15. QED
  <2>. HIDE DEF new
  <2>. QED
    BY <1>6, <1>7, <1>11, <1>12, <1>13, <1>14, InHandPast, FrameStill

\* The puts wait for their answers, those for older connections among them.
LEMMA StartPutsStep ==
    ASSUME IInv, NEW c \in Commands, StartPuts(c)
    PROVE  IInv'
<1>. USE DEF configVars, peerVars, dataVars, linkVars
<1>l. /\ VarTypes /\ cmd \in [Commands -> LocalType] /\ cmd[c] \in LocalType
      /\ Good(c, cmd[c], gen) /\ gen \in Nat \ {0}
      /\ cmd[c].puts \in SUBSET (Connections \X Keys) /\ cmd[c].moves \subseteq MoveType
  BY LocalTypes
<1>. DEFINE puts == Requests(c, "put", cmd[c].puts)
            new  == [cmd[c] EXCEPT !.pc = "put", !.wait = puts]
<1>1. /\ cmd' = [cmd EXCEPT ![c].pc = "put", ![c].wait = puts]
      /\ sent' = sent \cup {r \in puts : Live(r.to)}
      /\ UNCHANGED <<configVars, peerVars, dataVars, claimed, mixed, spilled>>
      /\ Planned(c)
  BY DEF StartPuts
<1>2. puts \in SUBSET RequestType
  BY <1>l, RequestsType
<1>3. \A m \in cmd[c].moves : <<m.new, m.key>> \in cmd[c].puts =>
         [cmd |-> c, kind |-> "put", to |-> m.new, key |-> m.key] \in puts
  BY DEF Requests
<1>. HIDE DEF puts
<1>4. \A r \in puts : Live(r.to) => r.to # Nil
  BY DEF Live
<1>5. VarTypes' /\ gen' = gen /\ deletedData' = deletedData
  BY <1>1, <1>2, <1>4, <1>l DEF VarTypes
<1>6. new \in LocalType
  BY <1>2, <1>l DEF LocalType, Pcs
<1>7. Good(c, new, gen)
  <2>1. Stages(new)
    BY <1>1, <1>l DEF Good, Stages, LocalType, Planned
  <2>2. Overtaken(c, new, gen)
    BY <1>1, <1>3, <1>l DEF Good, Overtaken, LocalType, Planned
  <2>3. QED
    BY <2>1, <2>2 DEF Good
<1>8. cmd' = [cmd EXCEPT ![c] = new]
  BY <1>1, <1>l DEF LocalType
<1>9. /\ new.auto = cmd[c].auto /\ new.kind = cmd[c].kind /\ new.pc = "put"
      /\ cmd[c].pc = "dump"
  BY <1>1, <1>l DEF LocalType, Planned
<1>10. QED
  <2>. HIDE DEF new
  <2>. QED
    BY <1>5, <1>6, <1>7, <1>8, <1>9, InHandPast, FrameStill

\* When they are all answered, there is none for an older connection.
LEMMA StartDeletesStep ==
    ASSUME IInv, NEW c \in Commands, StartDeletes(c)
    PROVE  IInv'
<1>. USE DEF configVars, peerVars, dataVars, linkVars
<1>l. /\ VarTypes /\ cmd \in [Commands -> LocalType] /\ cmd[c] \in LocalType
      /\ Good(c, cmd[c], gen) /\ gen \in Nat \ {0} /\ cmd[c].moves \subseteq MoveType
  BY LocalTypes
<1>. DEFINE targets == {<<m.old, m.key>> : m \in cmd[c].moves}
            deletes == Requests(c, "delete", targets)
            new     == [cmd[c] EXCEPT !.pc = "delete", !.base = Nothing, !.puts = {}, !.wait = deletes]
<1>1. /\ cmd' = [cmd EXCEPT ![c].pc = "delete", ![c].base = Nothing, ![c].puts = {}, ![c].wait = deletes]
      /\ sent' = sent \cup {r \in deletes : Live(r.to)}
      /\ UNCHANGED <<configVars, peerVars, dataVars, claimed, mixed, spilled>>
      /\ cmd[c].pc = "put" /\ cmd[c].wait = {}
  BY DEF StartDeletes
<1>2. deletes \in SUBSET RequestType
  <2>1. targets \in SUBSET (Connections \X Keys)
    BY <1>l DEF MoveType
  <2>. HIDE DEF targets
  <2>2. QED
    BY <2>1, RequestsType
<1>. HIDE DEF deletes
<1>3. \A r \in deletes : Live(r.to) => r.to # Nil
  BY DEF Live
<1>4. VarTypes' /\ gen' = gen /\ deletedData' = deletedData
  BY <1>1, <1>2, <1>3, <1>l DEF VarTypes
<1>5. new \in LocalType
  BY <1>2, <1>l, StampTypes DEF LocalType, Pcs
<1>6. \A m \in cmd[c].moves : m.new[1] # m.old[1]
  BY <1>1, <1>l DEF Good, Overtaken
<1>7. Good(c, new, gen)
  <2>1. Stages(new)
    BY <1>1, <1>l DEF Good, Stages, LocalType
  <2>2. Overtaken(c, new, gen)
    BY <1>6, <1>l DEF Good, Overtaken, LocalType
  <2>3. QED
    BY <2>1, <2>2 DEF Good
<1>8. cmd' = [cmd EXCEPT ![c] = new]
  BY <1>1, <1>l DEF LocalType
<1>9. new.auto = cmd[c].auto /\ new.kind = cmd[c].kind /\ new.pc = "delete"
  BY <1>l DEF LocalType
<1>10. QED
  <2>. HIDE DEF new
  <2>. QED
    BY <1>1, <1>4, <1>5, <1>7, <1>8, <1>9, InHandPast, FrameStill

LEMMA EndStep ==
    ASSUME IInv, NEW c \in Commands, Finish(c) \/ Fail(c)
    PROVE  IInv'
<1>. USE DEF configVars, peerVars, dataVars, linkVars
<1>l. /\ VarTypes /\ cmd \in [Commands -> LocalType] /\ cmd[c] \in LocalType
      /\ Good(c, cmd[c], gen) /\ InHand(c, cmd[c], deletedData)
      /\ {"ok", "err"} \subseteq Pcs
  BY LocalTypes DEF Pcs
<1>1. PICK outcome \in {"ok", "err"} : End(c, outcome)
  BY DEF Finish, Fail
<1>. DEFINE new == [Idle EXCEPT !.kind = cmd[c].kind, !.auto = cmd[c].auto, !.pc = outcome]
<1>2. VarTypes' /\ gen' = gen /\ deletedData' = deletedData
  <2>1. CASE Finish(c)
    BY <2>1, <1>l DEF Finish, VarTypes
  <2>2. CASE Fail(c)
    <3>1. Held(cmd[c].base) \subseteq Keys
      BY DEF Held
    <3>2. spilled' \subseteq Keys
      BY <2>2, <3>1, <1>l DEF Fail, VarTypes
    <3>3. QED
      BY <2>2, <3>2, <1>l DEF Fail, VarTypes
  <2>3. QED
    BY <2>1, <2>2
<1>3. new \in LocalType
  BY <1>l, IdleType DEF LocalType
<1>4. Good(c, new, gen)
  BY <1>l DEF Good, Stages, Overtaken, Idle
<1>5. cmd[c].pc \in {"victim", "dump", "put", "delete"}
  BY <1>l DEF Finish, Fail, Good, Stages
<1>6. InHand(c, new, deletedData)
  <2>1. new.auto = cmd[c].auto /\ new.kind = cmd[c].kind /\ new.pc = outcome
    BY DEF Idle
  <2>. HIDE DEF new
  <2>2. CASE cmd[c].pc = "victim"
    BY <2>1, <2>2, <1>l, NotBegun DEF InHand
  <2>3. CASE cmd[c].pc # "victim"
    BY <2>1, <2>3, <1>5, InHandPast
  <2>4. QED
    BY <2>2, <2>3
<1>7. cmd' = [cmd EXCEPT ![c] = new]
  BY <1>1 DEF End
<1>8. QED
  <2>. HIDE DEF new
  <2>. QED
    BY <1>2, <1>3, <1>4, <1>6, <1>7, FrameStill

\* An answer comes back on the connections of the day only.
LEMMA AnsweredStep ==
    ASSUME IInv, NEW c \in Commands, NEW r \in cmd[c].wait, Answered(r)
    PROVE  IInv'
<1>. USE DEF configVars, peerVars, dataVars, linkVars
<1>r. r \in RequestType
  BY LocalTypes
<1>. DEFINE d == r.cmd
<1>c. d \in Commands /\ r.to \in Connections
  BY <1>r DEF RequestType
<1>l. /\ VarTypes /\ cmd \in [Commands -> LocalType] /\ cmd[d] \in LocalType
      /\ Good(d, cmd[d], gen) /\ gen \in Nat \ {0} /\ cmd[d].wait \subseteq RequestType
  BY <1>c, LocalTypes
<1>. DEFINE wait == cmd[d].wait \ {r}
            new  == [cmd[d] EXCEPT !.wait = wait]
<1>1. /\ cmd' = [cmd EXCEPT ![d].wait = wait] /\ r \in cmd[d].wait /\ Live(r.to)
      /\ VarTypes' /\ gen' = gen /\ deletedData' = deletedData
  BY <1>l, <1>c DEF Answered, LocalType, VarTypes
<1>2. wait \in SUBSET RequestType
  BY <1>l
<1>3. \A q \in cmd[d].wait : q.to[2] < gen => q \in wait
  BY <1>1, <1>c, <1>l, ConnectionTypes DEF VarTypes
<1>4. \A m \in cmd[d].moves : m.new[2] < gen =>
         LET q == [cmd |-> d, kind |-> "put", to |-> m.new, key |-> m.key]
         IN  q \in cmd[d].wait => q \in wait
  BY <1>3
<1>. HIDE DEF wait
<1>5. cmd[d].pc \in {"put", "delete"}
  BY <1>1, <1>l DEF Good, Stages
<1>6. new \in LocalType
  BY <1>2, <1>l DEF LocalType
<1>7. Good(d, new, gen)
  <2>1. Stages(new)
    BY <1>5, <1>l DEF Good, Stages, LocalType
  <2>2. Overtaken(d, new, gen)
    BY <1>4, <1>l DEF Good, Overtaken, LocalType
  <2>3. QED
    BY <2>1, <2>2 DEF Good
<1>8. cmd' = [cmd EXCEPT ![d] = new]
  BY <1>1, <1>l, <1>c DEF LocalType
<1>9. new.auto = cmd[d].auto /\ new.kind = cmd[d].kind /\ new.pc = cmd[d].pc
  BY <1>l DEF LocalType
<1>10. QED
  <2>. HIDE DEF new, d
  <2>. QED
    BY <1>c, <1>1, <1>5, <1>6, <1>7, <1>8, <1>9, InHandPast, FrameStill

\* The shards change no handler.
LEMMA ShardStep ==
    ASSUME IInv, (\E r \in sent : Claim(r)) \/ (\E r \in claimed : Perform(r))
    PROVE  IInv' /\ UNCHANGED <<configVars, peerVars, deletedData, cmd, mixed, spilled>>
<1>. USE DEF configVars, peerVars, dataVars, linkVars
<1>v. VarTypes /\ NoNode \notin Nodes
  BY ClusterCommandsAssumption DEF IInv, Types
<1>1. UNCHANGED <<configVars, peerVars, deletedData, cmd, mixed, spilled>>
  BY DEF Claim, Perform
<1>2. VarTypes'
  <2>1. ASSUME NEW r \in sent, Claim(r) PROVE VarTypes'
    BY <2>1, <1>v DEF Claim, VarTypes
  <2>2. ASSUME NEW r \in claimed, Perform(r) PROVE VarTypes'
    <3>1. r \in RequestType /\ r.to # Nil
      BY <1>v DEF VarTypes
    <3>2. r.to[1] \in Nodes /\ r.key \in Keys
      BY <3>1 DEF RequestType, Connections
    <3>3. storage' \in [Nodes -> SUBSET Keys]
      BY <2>2, <3>2, <1>v DEF Perform, VarTypes
    <3>4. QED
      BY <2>2, <3>3, <1>v DEF Perform, VarTypes
  <2>3. QED
    BY <2>1, <2>2
<1>3. QED
  BY <1>1, <1>2 DEF IInv, Types

LEMMA InvInit == Init => IInv
<1>. SUFFICES ASSUME Init PROVE IInv
  OBVIOUS
<1>1. PICK homes \in [Keys -> SUBSET nodes] :
          storage = [n \in Nodes |-> {k \in Keys : n \in homes[k]}]
  BY DEF Init
<1>2. storage \in [Nodes -> SUBSET Keys]
  BY <1>1
<1>d. deletedData \in [Keys -> {Absent, Earlier}]
  BY DEF Init
<1>3. VarTypes
  <2>1. nodes \subseteq Nodes /\ nodes # {} /\ routing \in Routings
    BY DEF Init
  <2>2. undialled \subseteq Nodes /\ peers \subseteq Nodes /\ gen \in Nat \ {0}
    BY <2>1 DEF Init
  <2>3. deletedData \in [Keys -> Stamps]
    BY <1>d, StampTypes
  <2>4. sent = {} /\ claimed = {} /\ mixed \in BOOLEAN /\ spilled \subseteq Keys
    BY DEF Init
  <2>5. QED
    BY <1>2, <2>1, <2>2, <2>3, <2>4 DEF VarTypes
<1>4. cmd = [c \in Commands |-> Idle]
  BY DEF Init
<1>5. \A c \in Commands : Good(c, Idle, gen) /\ InHand(c, Idle, deletedData)
  <2>1. \A c \in Commands, k \in Keys : deletedData[k] # c
    BY <1>d, StampTypes
  <2>2. QED
    BY <2>1 DEF Good, Stages, Overtaken, InHand, Idle
<1>6. QED
  BY <1>3, <1>4, <1>5, IdleType DEF IInv, Types

LEMMA InvNext == IInv /\ [Next]_vars => IInv'
<1>. SUFFICES ASSUME IInv, [Next]_vars PROVE IInv'
  OBVIOUS
<1>1. ASSUME NEW c \in Commands, Command(c) PROVE IInv'
  BY <1>1, StartStep, RemoveNodeStep, MigrateDataStep, VictimDumpStep, StoreDeletedStep, ApplyStep,
     DecideStep, CollectStep, CollectedStep, ForgetStep, PlanStep, PlaceStep, AskStep, TakeDumpStep,
     LookUpNewStep, LookUpOldStep, StartPutsStep, StartDeletesStep, EndStep, AnsweredStep
     DEF Command
<1>2. CASE UNCHANGED vars
  BY <1>2 DEF vars, configVars, peerVars, dataVars, linkVars, IInv, Types, VarTypes
<1>3. QED
  BY <1>1, <1>2, ShardStep DEF Next

LEMMA PeersNext == IInv /\ PeersFollowConfig /\ [Next]_vars => PeersFollowConfig'
<1>. SUFFICES ASSUME IInv, PeersFollowConfig, [Next]_vars, \A c \in Commands : cmd'[c].pc # "apply"
              PROVE  peers' = nodes' \ undialled'
  BY DEF PeersFollowConfig
<1>. USE DEF configVars, peerVars, dataVars, linkVars
<1>t. cmd \in [Commands -> LocalType]
  BY DEF IInv, Types
<1>s. ASSUME NEW c \in Commands PROVE Stages(cmd[c])
  BY DEF IInv, Good
\* A step that changes neither, and moves no command on from "apply".
<1>u. ASSUME UNCHANGED <<peers, nodes, undialled>>,
             \A c \in Commands : cmd[c].pc = "apply" => cmd'[c].pc = "apply"
      PROVE  peers' = nodes' \ undialled'
  BY <1>u DEF PeersFollowConfig
<1>o. ASSUME NEW c \in Commands, UNCHANGED <<peers, nodes, undialled>>, cmd[c].pc # "apply",
             \A d \in Commands \ {c} : cmd'[d] = cmd[d]
      PROVE  peers' = nodes' \ undialled'
  BY <1>o, <1>u
<1>1. ASSUME NEW c \in Commands, NEW n \in Nodes, AddNode(c, n) PROVE FALSE
  BY <1>1, <1>t DEF AddNode, LocalType, Idle
<1>2. ASSUME NEW c \in Commands, DropVictim(c) PROVE FALSE
  BY <1>2, <1>t DEF DropVictim, Goto, LocalType
<1>3. ASSUME NEW c \in Commands, Apply(c) PROVE peers' = nodes' \ undialled'
  BY <1>3 DEF Apply
<1>4. ASSUME NEW c \in Commands,
             \/ \E n \in Nodes : RemoveNode(c, n)
             \/ \E r \in Routings : SetRouting(c, r) \/ Retune(c, r)
             \/ MigrateData(c)
      PROVE  peers' = nodes' \ undialled'
  <2>1. UNCHANGED <<peers, nodes, undialled>> /\ cmd[c].pc = "idle"
    BY <1>4 DEF RemoveNode, SetRouting, Retune, MigrateData, Start
  <2>2. \A d \in Commands \ {c} : cmd'[d] = cmd[d]
    BY <1>4, <1>t DEF RemoveNode, SetRouting, Retune, MigrateData
  <2>3. QED
    BY <2>1, <2>2, <1>o
<1>5. ASSUME NEW c \in Commands,
             \/ VictimDump(c) \/ Decide(c)
             \/ \E k \in cmd[c].todo : StoreDeleted(c, k) \/ Collect(c, k) \/ Forget(c, k)
             \/ Collected(c) \/ Plan(c)
      PROVE  peers' = nodes' \ undialled'
  <2>1. UNCHANGED <<peers, nodes, undialled>> /\ cmd[c].pc # "apply"
    BY <1>5 DEF VictimDump, Decide, StoreDeleted, Collect, Forget, Collected, Plan
  <2>2. \A d \in Commands \ {c} : cmd'[d] = cmd[d]
    BY <1>5, <1>t DEF VictimDump, Decide, StoreDeleted, Collect, Forget, Collected, Plan
  <2>3. QED
    BY <2>1, <2>2, <1>o
<1>6. ASSUME NEW c \in Commands,
             \/ \E k \in cmd[c].todo : Place(c, k)
             \/ \E n \in cmd[c].ask : Ask(c, n)
             \/ \E x \in cmd[c].asked : TakeDump(c, x)
             \/ \E d \in cmd[c].dumps : LookUpNew(c, d)
             \/ LookUpOld(c)
      PROVE  peers' = nodes' \ undialled'
  <2>1. UNCHANGED <<peers, nodes, undialled>> /\ cmd[c].pc # "apply"
    BY <1>6, <1>s DEF Place, Ask, TakeDump, LookUpNew, LookUpOld, Stages
  <2>2. \A d \in Commands \ {c} : cmd'[d] = cmd[d]
    BY <1>6, <1>t DEF Place, Ask, TakeDump, LookUpNew, LookUpOld
  <2>3. QED
    BY <2>1, <2>2, <1>o
<1>7. ASSUME NEW c \in Commands, StartPuts(c) \/ StartDeletes(c) \/ Finish(c) \/ Fail(c)
      PROVE  peers' = nodes' \ undialled'
  <2>1. UNCHANGED <<peers, nodes, undialled>> /\ cmd[c].pc # "apply"
    BY <1>7, <1>s DEF StartPuts, Planned, StartDeletes, Finish, Fail, Stages
  <2>2. \A d \in Commands \ {c} : cmd'[d] = cmd[d]
    BY <1>7, <1>t DEF StartPuts, StartDeletes, Finish, Fail, End
  <2>3. QED
    BY <2>1, <2>2, <1>o
<1>8. ASSUME NEW c \in Commands, NEW r \in cmd[c].wait, Answered(r) PROVE peers' = nodes' \ undialled'
  <2>1. UNCHANGED <<peers, nodes, undialled>> /\ \A d \in Commands : cmd'[d].pc = cmd[d].pc
    BY <1>8, <1>t DEF Answered, LocalType
  <2>2. QED
    BY <2>1, <1>u
<1>9. CASE (\E r \in sent : Claim(r)) \/ (\E r \in claimed : Perform(r))
  BY <1>9, <1>u DEF Claim, Perform
<1>10. CASE UNCHANGED vars
  BY <1>10, <1>u DEF vars
<1>11. QED
  BY <1>1, <1>2, <1>3, <1>4, <1>5, <1>6, <1>7, <1>8, <1>9, <1>10 DEF Next, Command

----------------------------------------------------------------------------
(* What follows. *)

\* TypeOK for every number of nodes, keys, routings and commands at once.
THEOREM TypeCorrect == Spec => []TypeOK
<1>1. IInv => TypeOK
  <2>. SUFFICES ASSUME IInv PROVE TypeOK
    OBVIOUS
  <2>1. DOMAIN cmd = Commands
    BY DEF IInv, Types
  <2>2. ASSUME NEW c \in Commands
        PROVE  /\ DOMAIN cmd[c] = DOMAIN Idle
               /\ cmd[c].kind \in Kinds /\ cmd[c].pc \in Pcs
               /\ cmd[c].node \in Nodes \cup {NoNode} /\ cmd[c].auto \in BOOLEAN
               /\ cmd[c].base \in [Keys -> Stamps] /\ cmd[c].todo \subseteq Keys
               /\ cmd[c].ask \subseteq Nodes /\ cmd[c].asked \subseteq Connections
               /\ cmd[c].dumps \subseteq Nodes \X Keys
               /\ cmd[c].looking \subseteq [node : Nodes, key : Keys, new : Connections]
               /\ cmd[c].puts \subseteq Connections \X Keys /\ cmd[c].moves \subseteq MoveType
               /\ cmd[c].wait \subseteq RequestType
    BY DEF IInv, Types, LocalType, Idle
  <2>3. VarTypes
    BY DEF IInv, Types
  <2>4. QED
    BY <2>1, <2>2, <2>3 DEF VarTypes, TypeOK, Kinds, Pcs, Stamps
<1>2. QED
  BY <1>1, InvInit, InvNext, PTL DEF Spec

\* NoMoveOntoItself, however many commands replace the connections meanwhile.
THEOREM MovesBetweenNodes == Spec => []NoMoveOntoItself
<1>1. IInv => NoMoveOntoItself
  BY DEF IInv, Good, Overtaken, NoMoveOntoItself
<1>2. QED
  BY <1>1, InvInit, InvNext, PTL DEF Spec

\* DeletedDataHandedOver: of what the Delete of a key takes away, only the value
\* that a removeNode without migration stored after Range is in no base.
THEOREM HandsOver == Spec => DeletedDataHandedOver
<1>1. IInv /\ [Next]_vars =>
         [\A k \in Keys : deletedData[k] # Absent /\ deletedData'[k] = Absent =>
             \/ \E c \in Commands : cmd[c].base[k] = deletedData[k] /\ cmd'[c].base[k] = deletedData[k]
             \/ deletedData[k] \in Commands /\ ~cmd[deletedData[k]].auto]_vars
  <2>. SUFFICES ASSUME IInv, Next, NEW k \in Keys,
                       deletedData[k] # Absent, deletedData'[k] = Absent,
                       ~(deletedData[k] \in Commands /\ ~cmd[deletedData[k]].auto)
                PROVE  \E c \in Commands :
                          cmd[c].base[k] = deletedData[k] /\ cmd'[c].base[k] = deletedData[k]
    OBVIOUS
  <2>t. cmd \in [Commands -> LocalType] /\ deletedData \in [Keys -> Stamps]
    BY DEF IInv, Types, VarTypes
  <2>1. PICK c \in Commands : \E j \in cmd[c].todo : Forget(c, j)
    <3>1. ~ ((\E r \in sent : Claim(r)) \/ (\E r \in claimed : Perform(r)))
      BY DEF Claim, Perform, dataVars
    <3>2. PICK c \in Commands : Command(c)
      BY <3>1 DEF Next
    <3>3. ASSUME NEW j \in cmd[c].todo, StoreDeleted(c, j) PROVE FALSE
      BY <3>3, <2>t, StampTypes DEF StoreDeleted
    <3>4. \E j \in cmd[c].todo : Forget(c, j)
      BY <3>2, <3>3 DEF Command, AddNode, RemoveNode, SetRouting, Retune, MigrateData, VictimDump,
         DropVictim, Apply, Decide, Collect, Collected, Plan, Place, Ask, TakeDump, LookUpNew,
         LookUpOld, StartPuts, StartDeletes, Finish, Fail, Answered, dataVars
    <3>5. QED
      BY <3>4
  <2>2. PICK j \in cmd[c].todo : Forget(c, j)
    BY <2>1
  <2>3. j = k /\ cmd[c].pc = "forget"
    BY <2>2, <2>t DEF Forget
  <2>4. \A d \in Commands : cmd'[d].base = cmd[d].base
    BY <2>2, <2>t DEF Forget, LocalType
  <2>5. CASE deletedData[k] \in Commands
    <3>1. cmd[deletedData[k]].base[k] = deletedData[k]
      BY <2>5 DEF IInv, InHand
    <3>2. QED
      BY <3>1, <2>4, <2>5
  <2>6. CASE deletedData[k] = Earlier
    <3>1. cmd[c].base[k] = Earlier
      BY <2>6, <2>3 DEF IInv, InHand
    <3>2. QED
      BY <3>1, <2>4, <2>6
  <2>7. QED
    BY <2>5, <2>6, <2>t DEF Stamps, Tags
<1>2. QED
  BY <1>1, InvInit, InvNext, PTL DEF Spec, DeletedDataHandedOver

\* PeersFollowConfig, whatever commands change the nodes at the same time and
\* whatever nodes an update cannot dial.
THEOREM PeersFollow == Spec => []PeersFollowConfig
<1>1. Init => PeersFollowConfig
  BY DEF Init, PeersFollowConfig
<1>2. QED
  BY <1>1, PeersNext, InvInit, InvNext, PTL DEF Spec

----------------------------------------------------------------------------
(* Migrations that overlap: the invariant behind OverlapLosesNothing and     *)
(* LastMigrationPlaces.                                                      *)

Own(k) == OwnerOf(nodes, routing, k)
AtHome(k) == k \in storage[Own(k)] \/ Pending(Own(k), k)
InBase(l, k) == l.base[k] # Absent
Stored(k) == deletedData[k] # Absent
Safe(k) == AtHome(k) \/ \E d \in Commands : InBase(cmd[d], k)

\* Commands start one after the other, and what a handler has at its places.
Order ==
    \A c \in Commands :
        /\ cmd[c].pc # "idle" => \A d \in Commands : d < c => cmd[d].pc # "idle"
        /\ cmd[c].pc \in {"idle", "victim", "ok", "err", "delete"} =>
              \A k \in Keys : ~InBase(cmd[c], k)
        /\ cmd[c].kind = "migrateData" => cmd[c].pc \notin {"victim", "store", "apply", "decide"}
        /\ cmd[c].kind = "retune" => cmd[c].pc \notin {"victim", "store", "apply"}
        /\ cmd[c].pc = "victim" => \A x \in cmd[c].asked : x # Nil => x[1] = cmd[c].node

\* A command that changes the configuration is alone, and nothing is in flight
\* before it sends its puts.  Until it has decided, what it has for base is in
\* deletedData too.
Alone(c) ==
    c \in Active /\ cmd[c].kind # "migrateData" =>
        /\ Active = {c} /\ \A d \in Commands : d > c => cmd[d].pc = "idle"
        /\ cmd[c].pc \notin {"put", "delete"} => sent = {} /\ claimed = {}
        /\ cmd[c].pc \in {"store", "apply", "decide"} =>
              \A k \in Keys : InBase(cmd[c], k) => Stored(k) \/ k \in cmd[c].todo
        /\ cmd[c].pc = "store" => \A k \in storage[cmd[c].node] : InBase(cmd[c], k)
        /\ cmd[c].pc = "decide" /\ cmd[c].kind = "retune" => routing \in Ring

\* The plan of a migration, with what its handler has in the local variables l,
\* made with the configuration of the day.
Plans(l) ==
    /\ l.pc \in {"dump", "put"} =>
          /\ \A p \in l.puts : p[1] = FindShard(p[2])
          /\ \A k \in Keys : InBase(l, k) => k \in l.todo \/ \E p \in l.puts : p[2] = k
          /\ \A m \in l.moves : <<m.new, m.key>> \in l.puts /\ m.old # FindShard(m.key)
    /\ l.pc = "dump" =>
          /\ l.ask \subseteq nodes /\ l.asked \subseteq {Peer(n) : n \in nodes}
          /\ \A d \in l.dumps : /\ d[1] \in nodes /\ Peer(d[1]) # Nil
                                /\ d[1] = Own(d[2]) => AtHome(d[2])
          /\ \A f \in l.looking : /\ f.node \in nodes /\ Peer(f.node) # Nil
                                  /\ f.new = FindShard(f.key)
                                  /\ f.node = Own(f.key) => AtHome(f.key)
          /\ \A f, g \in l.looking : f = g
    /\ l.pc = "put" =>
          /\ \A p \in l.puts : AtHome(p[2]) \/ \E r \in l.wait : r.key = p[2]
          /\ \A r \in l.wait : Live(r.to) => r \in sent \/ AtHome(r.key)

\* Puts go to the owner, deletes to others when the key is at home.
Flights ==
    \A r \in sent \cup claimed :
        /\ r.kind = "put" => r.to[1] = Own(r.key)
        /\ r.kind = "delete" => r.to[1] # Own(r.key) /\ AtHome(r.key)

\* A migration at its dumps has found a key, or will.
Found(l, k) ==
    \/ \E n \in nodes : k \in storage[n] /\ (n \in l.ask \/ Peer(n) \in l.asked)
    \/ \E d \in l.dumps : d[2] = k
    \/ \E f \in l.looking : f.key = k
    \/ \E p \in l.puts : p[2] = k

\* The last command, and it migrated and answered OK.
Through(c) ==
    /\ cmd[c].pc = "ok" /\ Migrates(c)
    /\ \A d \in Commands : d > c => cmd[d].pc = "idle"

\* A migration that is past Range and Delete of a key has it in its base; when it
\* has emptied deletedData it misses only keys that are at home or in the base of
\* another one; then it knows where to put them all; and when it has put them, all
\* are safe, until another command starts.
Gathered(c) ==
    /\ cmd[c].pc = "range" => \A k \in Keys : Stored(k) => k \in cmd[c].todo \/ InBase(cmd[c], k)
    /\ cmd[c].pc = "forget" => \A k \in Keys : /\ Stored(k) => k \in cmd[c].todo
                                               /\ k \in cmd[c].todo => InBase(cmd[c], k)
    /\ cmd[c].pc \in {"dump", "put", "delete"} => \A k \in Keys : ~Stored(k)
    /\ cmd[c].pc = "dump" => \A k \in Keys \ spilled : Safe(k) \/ Found(cmd[c], k)
    /\ cmd[c].pc = "put" => \A k \in Keys \ spilled : Safe(k) \/ \E p \in cmd[c].puts : p[2] = k
    /\ cmd[c].pc = "delete" \/ Through(c) => \A k \in Keys \ spilled : Safe(k)

Overlap ==
    /\ \A c \in Commands : Alone(c) /\ Plans(cmd[c]) /\ Gathered(c)
    /\ Flights
    /\ \A k \in Keys \ spilled : Kept(k)

OInv == IInv /\ Order /\ (~mixed => Overlap)

\* A step of a command is one of its own record.
Others(c) == \A d \in Commands \ {c} : cmd'[d] = cmd[d]

----------------------------------------------------------------------------
(* What a step leaves in the local variables of its handler.                *)

LEMMA AfterStart ==
    ASSUME IInv, NEW c \in Commands,
           \/ \E n \in Nodes : AddNode(c, n) \/ RemoveNode(c, n)
           \/ \E r \in Routings : SetRouting(c, r) \/ Retune(c, r)
           \/ MigrateData(c)
    PROVE  /\ Others(c) /\ cmd[c].pc = "idle" /\ \A d \in Commands : d < c => cmd[d].pc # "idle"
           /\ cmd'[c].pc \in {"apply", "victim", "ok", "decide", "range"}
           /\ \A k \in Keys : ~InBase(cmd'[c], k)
           /\ cmd'[c].kind = "migrateData" <=> cmd'[c].pc = "range"
           /\ cmd'[c].kind = "retune" <=> cmd'[c].pc = "decide"
           /\ cmd'[c].pc = "ok" => cmd'[c].kind = "setRouting"
           /\ cmd'[c].pc = "decide" => routing' \in Ring
           /\ cmd'[c].pc = "range" => UNCHANGED <<nodes, routing, peers, gen>> /\ cmd'[c].todo = Keys
           /\ nodes \subseteq nodes'
           /\ cmd'[c].pc = "victim" => \A x \in cmd'[c].asked : x # Nil => x[1] = cmd'[c].node
           /\ mixed' = \/ mixed
                       \/ cmd'[c].kind # "migrateData" /\ (Active # {} \/ sent \cup claimed # {})
                       \/ \E d \in Active : cmd[d].kind # "migrateData"
           /\ UNCHANGED <<storage, deletedData, sent, claimed, spilled>>
<1>. USE DEF configVars, peerVars, dataVars, linkVars, Others
<1>t. cmd \in [Commands -> LocalType] /\ peers \subseteq Nodes /\ gen \in Nat \ {0}
  BY DEF IInv, Types, VarTypes
<1>i. \A k \in Keys : Nothing[k] = Absent
  BY DEF Nothing
<1>s. ASSUME NEW kind, Start(c, kind)
      PROVE  /\ cmd[c].pc = "idle" /\ \A d \in Commands : d < c => cmd[d].pc # "idle"
             /\ mixed' = \/ mixed
                         \/ kind # "migrateData" /\ (Active # {} \/ sent \cup claimed # {})
                         \/ \E d \in Active : cmd[d].kind # "migrateData"
  BY <1>s DEF Start, Commands
<1>1. ASSUME NEW n \in Nodes, AddNode(c, n)
      PROVE  /\ Others(c) /\ cmd'[c].pc = "apply" /\ cmd'[c].kind = "addNode" /\ cmd'[c].base = Nothing
             /\ UNCHANGED <<storage, deletedData, sent, claimed, spilled>> /\ Start(c, "addNode")
             /\ nodes \subseteq nodes'
  BY <1>1, <1>t DEF AddNode, Idle
<1>2. ASSUME NEW n \in Nodes, RemoveNode(c, n)
      PROVE  /\ Others(c) /\ cmd'[c].pc = "victim" /\ cmd'[c].kind = "removeNode" /\ cmd'[c].base = Nothing
             /\ \A x \in cmd'[c].asked : x # Nil => x[1] = cmd'[c].node
             /\ UNCHANGED <<nodes, routing, peers, gen>>
             /\ UNCHANGED <<storage, deletedData, sent, claimed, spilled>> /\ Start(c, "removeNode")
  <2>1. GetConnectionByNodeId(n) # Nil => GetConnectionByNodeId(n)[1] = n
    BY <1>t, ConnectionTypes DEF GetConnectionByNodeId
  <2>2. cmd'[c].asked = {GetConnectionByNodeId(n)} /\ cmd'[c].node = n
    BY <1>2, <1>t DEF RemoveNode, Idle
  <2>3. /\ Others(c) /\ cmd'[c].pc = "victim" /\ cmd'[c].kind = "removeNode" /\ cmd'[c].base = Nothing
        /\ UNCHANGED <<nodes, routing, peers, gen>>
        /\ UNCHANGED <<storage, deletedData, sent, claimed, spilled>> /\ Start(c, "removeNode")
    BY <1>2, <1>t DEF RemoveNode, Idle
  <2>4. QED
    BY <2>1, <2>2, <2>3
<1>3. ASSUME NEW r \in Routings, SetRouting(c, r)
      PROVE  /\ Others(c) /\ cmd'[c].pc = "ok" /\ cmd'[c].kind = "setRouting" /\ cmd'[c].base = Nothing
             /\ UNCHANGED <<nodes, storage, deletedData, sent, claimed, spilled>> /\ Start(c, "setRouting")
  BY <1>3, <1>t DEF SetRouting, Idle
<1>4. ASSUME NEW r \in Routings, Retune(c, r)
      PROVE  /\ Others(c) /\ cmd'[c].pc = "decide" /\ cmd'[c].kind = "retune" /\ cmd'[c].base = Nothing
             /\ UNCHANGED <<nodes, storage, deletedData, sent, claimed, spilled>> /\ Start(c, "retune")
             /\ routing' \in Ring
  BY <1>4, <1>t DEF Retune, Idle
<1>5. ASSUME MigrateData(c)
      PROVE  /\ Others(c) /\ cmd'[c].pc = "range" /\ cmd'[c].kind = "migrateData" /\ cmd'[c].base = Nothing
             /\ cmd'[c].todo = Keys
             /\ UNCHANGED <<nodes, routing, peers, gen>>
             /\ UNCHANGED <<storage, deletedData, sent, claimed, spilled>> /\ Start(c, "migrateData")
  BY <1>5, <1>t DEF MigrateData, Idle
<1>6. cmd'[c].base = Nothing => \A k \in Keys : ~InBase(cmd'[c], k)
  BY <1>i DEF InBase
<1>. HIDE DEF Others
<1>7. QED
  BY <1>1, <1>2, <1>3, <1>4, <1>5, <1>6, <1>s

\* Steps of a command that is on its way to migrate.
LEMMA AfterEarly ==
    ASSUME IInv, NEW c \in Commands
    PROVE  /\ VictimDump(c) =>
                \E x \in cmd[c].asked :
                   /\ Live(x) /\ Others(c) /\ cmd'[c].pc = "store" /\ cmd'[c].todo = storage[x[1]]
                   /\ \A k \in Keys : InBase(cmd'[c], k) <=> k \in storage[x[1]]
                   /\ cmd'[c].kind = cmd[c].kind /\ cmd'[c].node = cmd[c].node
           /\ \A k : StoreDeleted(c, k) =>
                /\ Others(c) /\ cmd'[c].pc = "store" /\ cmd'[c].base = cmd[c].base
                /\ cmd'[c].todo = cmd[c].todo \ {k}
                /\ cmd'[c].kind = cmd[c].kind /\ cmd'[c].node = cmd[c].node
                /\ \A j \in Keys : Stored(j)' <=> Stored(j) \/ j = k
           /\ DropVictim(c) =>
                /\ Others(c) /\ cmd'[c].pc = "apply" /\ cmd'[c].base = cmd[c].base
                /\ cmd'[c].kind = cmd[c].kind /\ cmd'[c].todo = {}
           /\ Apply(c) =>
                /\ Others(c) /\ cmd'[c].pc = "decide" /\ cmd'[c].base = cmd[c].base
                /\ cmd'[c].kind = cmd[c].kind /\ cmd'[c].todo = cmd[c].todo
           /\ Decide(c) =>
                /\ Others(c) /\ cmd'[c].kind = cmd[c].kind
                /\ NeedMigrate(c) => cmd'[c].pc = "range" /\ cmd'[c].base = cmd[c].base /\ cmd'[c].todo = Keys
                /\ ~NeedMigrate(c) => cmd'[c].pc = "ok" /\ \A k \in Keys : ~InBase(cmd'[c], k)
<1>t. cmd \in [Commands -> LocalType] /\ cmd[c] \in LocalType
  BY DEF IInv, Types
<1>1. ASSUME VictimDump(c)
      PROVE  \E x \in cmd[c].asked :
                /\ Live(x) /\ Others(c) /\ cmd'[c].pc = "store" /\ cmd'[c].todo = storage[x[1]]
                /\ \A k \in Keys : InBase(cmd'[c], k) <=> k \in storage[x[1]]
                /\ cmd'[c].kind = cmd[c].kind /\ cmd'[c].node = cmd[c].node
  <2>1. PICK x \in cmd[c].asked :
          /\ Live(x)
          /\ cmd' = [cmd EXCEPT ![c].pc = "store", ![c].asked = {}, ![c].todo = storage[x[1]],
                                ![c].base = [k \in Keys |-> IF k \in storage[x[1]] THEN c ELSE Absent]]
    BY <1>1 DEF VictimDump
  <2>. DEFINE base == [k \in Keys |-> IF k \in storage[x[1]] THEN c ELSE Absent]
  <2>2. \A k \in Keys : base[k] # Absent <=> k \in storage[x[1]]
    BY StampTypes
  <2>3. cmd' = [cmd EXCEPT ![c].pc = "store", ![c].asked = {}, ![c].todo = storage[x[1]], ![c].base = base]
    BY <2>1
  <2>. HIDE DEF base
  <2>4. /\ Others(c) /\ cmd'[c].pc = "store" /\ cmd'[c].base = base /\ cmd'[c].todo = storage[x[1]]
        /\ cmd'[c].kind = cmd[c].kind /\ cmd'[c].node = cmd[c].node
    BY <2>3, <1>t DEF LocalType, Others
  <2>5. QED
    BY <2>1, <2>2, <2>4 DEF InBase
<1>2. ASSUME NEW k, StoreDeleted(c, k)
      PROVE  /\ Others(c) /\ cmd'[c].pc = "store" /\ cmd'[c].base = cmd[c].base
             /\ cmd'[c].todo = cmd[c].todo \ {k}
             /\ cmd'[c].kind = cmd[c].kind /\ cmd'[c].node = cmd[c].node
             /\ \A j \in Keys : Stored(j)' <=> Stored(j) \/ j = k
  <2>1. /\ Others(c) /\ cmd'[c].pc = "store" /\ cmd'[c].base = cmd[c].base
        /\ cmd'[c].todo = cmd[c].todo \ {k}
        /\ cmd'[c].kind = cmd[c].kind /\ cmd'[c].node = cmd[c].node
    BY <1>2, <1>t DEF StoreDeleted, LocalType, Others
  <2>2. deletedData \in [Keys -> Stamps] /\ deletedData' = [deletedData EXCEPT ![k] = c] /\ c # Absent
    BY <1>2, StampTypes DEF StoreDeleted, IInv, Types, VarTypes
  <2>3. \A j \in Keys : Stored(j)' <=> Stored(j) \/ j = k
    BY <2>2 DEF Stored
  <2>4. QED
    BY <2>1, <2>3
<1>3. ASSUME DropVictim(c)
      PROVE  /\ Others(c) /\ cmd'[c].pc = "apply" /\ cmd'[c].base = cmd[c].base
             /\ cmd'[c].kind = cmd[c].kind /\ cmd'[c].todo = {}
  BY <1>3, <1>t DEF DropVictim, Goto, LocalType, Others
<1>4. ASSUME Apply(c)
      PROVE  /\ Others(c) /\ cmd'[c].pc = "decide" /\ cmd'[c].base = cmd[c].base
             /\ cmd'[c].kind = cmd[c].kind /\ cmd'[c].todo = cmd[c].todo
  BY <1>4, <1>t DEF Apply, Goto, LocalType, Others
<1>5. ASSUME Decide(c)
      PROVE  /\ Others(c) /\ cmd'[c].kind = cmd[c].kind
             /\ NeedMigrate(c) => cmd'[c].pc = "range" /\ cmd'[c].base = cmd[c].base /\ cmd'[c].todo = Keys
             /\ ~NeedMigrate(c) => cmd'[c].pc = "ok" /\ \A k \in Keys : ~InBase(cmd'[c], k)
  <2>1. /\ Others(c) /\ cmd'[c].kind = cmd[c].kind
        /\ NeedMigrate(c) => cmd'[c].pc = "range" /\ cmd'[c].base = cmd[c].base /\ cmd'[c].todo = Keys
        /\ ~NeedMigrate(c) => cmd'[c].pc = "ok" /\ cmd'[c].base = Nothing
    BY <1>5, <1>t DEF Decide, LocalType, Others
  <2>2. QED
    BY <2>1, StampTypes DEF InBase
<1>6. QED
  BY <1>1, <1>2, <1>3, <1>4, <1>5

LEMMA AfterRange ==
    ASSUME IInv, NEW c \in Commands
    PROVE  /\ \A k \in Keys : Collect(c, k) =>
                /\ Others(c) /\ cmd'[c].pc = "range" /\ cmd'[c].todo = cmd[c].todo \ {k}
                /\ cmd'[c].kind = cmd[c].kind
                /\ \A j \in Keys : InBase(cmd'[c], j) <=> InBase(cmd[c], j) \/ (j = k /\ Stored(k))
           /\ Collected(c) =>
                /\ Others(c) /\ cmd'[c].pc = "forget" /\ cmd'[c].base = cmd[c].base
                /\ cmd'[c].kind = cmd[c].kind
                /\ \A k \in Keys : k \in cmd'[c].todo <=> InBase(cmd[c], k)
           /\ \A k : Forget(c, k) =>
                /\ Others(c) /\ cmd'[c].pc = "forget" /\ cmd'[c].base = cmd[c].base
                /\ cmd'[c].kind = cmd[c].kind /\ cmd'[c].todo = cmd[c].todo \ {k}
                /\ \A j \in Keys : Stored(j)' <=> Stored(j) /\ j # k
           /\ Plan(c) =>
                /\ Others(c) /\ cmd'[c].pc = "dump" /\ cmd'[c].base = cmd[c].base
                /\ cmd'[c].kind = cmd[c].kind /\ cmd'[c].ask = nodes /\ cmd'[c].asked = {}
                /\ \A k \in Keys : k \in cmd'[c].todo <=> InBase(cmd[c], k)
                /\ cmd'[c].dumps = {} /\ cmd'[c].looking = {} /\ cmd'[c].moves = {}
                /\ cmd'[c].puts = {}
<1>t. cmd \in [Commands -> LocalType] /\ cmd[c] \in LocalType /\ Stages(cmd[c])
  BY DEF IInv, Types, Good
<1>d. deletedData \in [Keys -> Stamps] /\ cmd[c].base \in [Keys -> Stamps]
  BY <1>t DEF IInv, Types, VarTypes, LocalType
<1>1. ASSUME NEW k \in Keys, Collect(c, k)
      PROVE  /\ Others(c) /\ cmd'[c].pc = "range" /\ cmd'[c].todo = cmd[c].todo \ {k}
             /\ cmd'[c].kind = cmd[c].kind
             /\ \A j \in Keys : InBase(cmd'[c], j) <=> InBase(cmd[c], j) \/ (j = k /\ Stored(k))
  <2>. DEFINE at   == IF deletedData[k] # Absent THEN deletedData[k] ELSE cmd[c].base[k]
              base == [cmd[c].base EXCEPT ![k] = at]
  <2>1. /\ Others(c) /\ cmd'[c].pc = "range" /\ cmd'[c].todo = cmd[c].todo \ {k}
        /\ cmd'[c].kind = cmd[c].kind /\ cmd'[c].base = base
    BY <1>1, <1>t DEF Collect, LocalType, Others
  <2>2. \A j \in Keys : base[j] # Absent <=> cmd[c].base[j] # Absent \/ (j = k /\ deletedData[k] # Absent)
    BY <1>d
  <2>. HIDE DEF base
  <2>3. QED
    BY <2>1, <2>2 DEF InBase, Stored
<1>2. ASSUME Collected(c)
      PROVE  /\ Others(c) /\ cmd'[c].pc = "forget" /\ cmd'[c].base = cmd[c].base
             /\ cmd'[c].kind = cmd[c].kind
             /\ \A k \in Keys : k \in cmd'[c].todo <=> InBase(cmd[c], k)
  BY <1>2, <1>t DEF Collected, LocalType, Others, Held, InBase
<1>3. ASSUME NEW k, Forget(c, k)
      PROVE  /\ Others(c) /\ cmd'[c].pc = "forget" /\ cmd'[c].base = cmd[c].base
             /\ cmd'[c].kind = cmd[c].kind /\ cmd'[c].todo = cmd[c].todo \ {k}
             /\ \A j \in Keys : Stored(j)' <=> Stored(j) /\ j # k
  <2>1. /\ Others(c) /\ cmd'[c].pc = "forget" /\ cmd'[c].base = cmd[c].base
        /\ cmd'[c].kind = cmd[c].kind /\ cmd'[c].todo = cmd[c].todo \ {k}
    BY <1>3, <1>t DEF Forget, LocalType, Others
  <2>2. deletedData' = [deletedData EXCEPT ![k] = Absent]
    BY <1>3 DEF Forget
  <2>3. \A j \in Keys : Stored(j)' <=> Stored(j) /\ j # k
    BY <2>2, <1>d DEF Stored
  <2>4. QED
    BY <2>1, <2>3
<1>4. ASSUME Plan(c)
      PROVE  /\ Others(c) /\ cmd'[c].pc = "dump" /\ cmd'[c].base = cmd[c].base
             /\ cmd'[c].kind = cmd[c].kind /\ cmd'[c].ask = nodes /\ cmd'[c].asked = {}
             /\ \A k \in Keys : k \in cmd'[c].todo <=> InBase(cmd[c], k)
             /\ cmd'[c].dumps = {} /\ cmd'[c].looking = {} /\ cmd'[c].moves = {}
             /\ cmd'[c].puts = {}
  <2>1. /\ cmd[c].dumps = {} /\ cmd[c].looking = {} /\ cmd[c].moves = {} /\ cmd[c].asked = {}
        /\ cmd[c].puts = {}
    BY <1>4, <1>t DEF Plan, Stages
  <2>2. /\ Others(c) /\ cmd'[c].pc = "dump" /\ cmd'[c].base = cmd[c].base
        /\ cmd'[c].kind = cmd[c].kind /\ cmd'[c].ask = nodes /\ cmd'[c].asked = {}
        /\ cmd'[c].todo = Held(cmd[c].base)
        /\ cmd'[c].dumps = {} /\ cmd'[c].looking = {} /\ cmd'[c].moves = {}
        /\ cmd'[c].puts = {}
    BY <1>4, <2>1, <1>t DEF Plan, LocalType, Others
  <2>3. QED
    BY <2>2 DEF Held, InBase
<1>5. QED
  BY <1>1, <1>2, <1>3, <1>4

LEMMA AfterDump ==
    ASSUME IInv, NEW c \in Commands
    PROVE  /\ \A k : Place(c, k) =>
                /\ Others(c) /\ cmd'[c].pc = "dump" /\ cmd'[c].base = cmd[c].base
                /\ cmd'[c].kind = cmd[c].kind /\ cmd'[c].todo = cmd[c].todo \ {k}
                /\ cmd'[c].puts = cmd[c].puts \cup {<<FindShard(k), k>>}
                /\ cmd'[c].ask = cmd[c].ask /\ cmd'[c].asked = cmd[c].asked /\ cmd'[c].dumps = cmd[c].dumps
                /\ cmd'[c].looking = cmd[c].looking /\ cmd'[c].moves = cmd[c].moves
           /\ \A n : Ask(c, n) =>
                /\ Others(c) /\ cmd'[c].pc = "dump" /\ cmd'[c].base = cmd[c].base
                /\ cmd'[c].kind = cmd[c].kind /\ cmd'[c].todo = cmd[c].todo
                /\ cmd'[c].ask = cmd[c].ask \ {n}
                /\ cmd'[c].asked = cmd[c].asked \cup {GetConnectionByNodeId(n)}
                /\ cmd'[c].dumps = cmd[c].dumps /\ cmd'[c].looking = cmd[c].looking
                /\ cmd'[c].puts = cmd[c].puts /\ cmd'[c].moves = cmd[c].moves
           /\ \A x : TakeDump(c, x) =>
                /\ Others(c) /\ cmd'[c].pc = "dump" /\ cmd'[c].base = cmd[c].base
                /\ cmd'[c].kind = cmd[c].kind /\ cmd'[c].todo = cmd[c].todo
                /\ cmd'[c].ask = cmd[c].ask /\ cmd'[c].asked = cmd[c].asked \ {x}
                /\ cmd'[c].dumps = cmd[c].dumps \cup ({x[1]} \X storage[x[1]])
                /\ cmd'[c].puts = cmd[c].puts /\ cmd'[c].moves = cmd[c].moves
                /\ cmd'[c].looking = cmd[c].looking
           /\ \A d : LookUpNew(c, d) /\ d \in cmd[c].dumps =>
                /\ Others(c) /\ cmd'[c].pc = "dump" /\ cmd[c].pc = "dump" /\ cmd'[c].base = cmd[c].base
                /\ cmd'[c].kind = cmd[c].kind /\ cmd'[c].todo = cmd[c].todo
                /\ cmd'[c].ask = cmd[c].ask /\ cmd'[c].asked = cmd[c].asked
                /\ cmd'[c].dumps = cmd[c].dumps \ {d}
                /\ cmd'[c].puts = cmd[c].puts /\ cmd'[c].moves = cmd[c].moves
                /\ cmd'[c].looking = {[node |-> d[1], key |-> d[2], new |-> FindShard(d[2])]}
<1>t. cmd \in [Commands -> LocalType] /\ cmd[c] \in LocalType /\ Stages(cmd[c])
  BY DEF IInv, Types, Good
<1>1. ASSUME NEW k, Place(c, k)
      PROVE  /\ Others(c) /\ cmd'[c].pc = "dump" /\ cmd'[c].base = cmd[c].base
             /\ cmd'[c].kind = cmd[c].kind /\ cmd'[c].todo = cmd[c].todo \ {k}
             /\ cmd'[c].puts = cmd[c].puts \cup {<<FindShard(k), k>>}
             /\ cmd'[c].ask = cmd[c].ask /\ cmd'[c].asked = cmd[c].asked /\ cmd'[c].dumps = cmd[c].dumps
             /\ cmd'[c].looking = cmd[c].looking /\ cmd'[c].moves = cmd[c].moves
  BY <1>1, <1>t DEF Place, LocalType, Others
<1>2. ASSUME NEW n, Ask(c, n)
      PROVE  /\ Others(c) /\ cmd'[c].pc = "dump" /\ cmd'[c].base = cmd[c].base
             /\ cmd'[c].kind = cmd[c].kind /\ cmd'[c].todo = cmd[c].todo
             /\ cmd'[c].ask = cmd[c].ask \ {n}
             /\ cmd'[c].asked = cmd[c].asked \cup {GetConnectionByNodeId(n)}
             /\ cmd'[c].dumps = cmd[c].dumps /\ cmd'[c].looking = cmd[c].looking
             /\ cmd'[c].puts = cmd[c].puts /\ cmd'[c].moves = cmd[c].moves
  BY <1>2, <1>t DEF Ask, LocalType, Others
<1>3. ASSUME NEW x, TakeDump(c, x)
      PROVE  /\ Others(c) /\ cmd'[c].pc = "dump" /\ cmd'[c].base = cmd[c].base
             /\ cmd'[c].kind = cmd[c].kind /\ cmd'[c].todo = cmd[c].todo
             /\ cmd'[c].ask = cmd[c].ask /\ cmd'[c].asked = cmd[c].asked \ {x}
             /\ cmd'[c].dumps = cmd[c].dumps \cup ({x[1]} \X storage[x[1]])
             /\ cmd'[c].puts = cmd[c].puts /\ cmd'[c].moves = cmd[c].moves
             /\ cmd'[c].looking = cmd[c].looking
  <2>. DEFINE taken == {x[1]} \X storage[x[1]]
  <2>1. cmd' = [cmd EXCEPT ![c].asked = @ \ {x}, ![c].dumps = @ \cup taken] /\ cmd[c].pc = "dump"
    BY <1>3 DEF TakeDump
  <2>. HIDE DEF taken
  <2>2. /\ Others(c) /\ cmd'[c].pc = "dump" /\ cmd'[c].base = cmd[c].base
        /\ cmd'[c].kind = cmd[c].kind /\ cmd'[c].todo = cmd[c].todo
        /\ cmd'[c].ask = cmd[c].ask /\ cmd'[c].asked = cmd[c].asked \ {x}
        /\ cmd'[c].dumps = cmd[c].dumps \cup taken
        /\ cmd'[c].puts = cmd[c].puts /\ cmd'[c].moves = cmd[c].moves
        /\ cmd'[c].looking = cmd[c].looking
    BY <2>1, <1>t DEF LocalType, Others
  <2>3. QED
    BY <2>2 DEF taken
<1>4. ASSUME NEW d, LookUpNew(c, d) /\ d \in cmd[c].dumps
      PROVE  /\ Others(c) /\ cmd'[c].pc = "dump" /\ cmd[c].pc = "dump" /\ cmd'[c].base = cmd[c].base
             /\ cmd'[c].kind = cmd[c].kind /\ cmd'[c].todo = cmd[c].todo
             /\ cmd'[c].ask = cmd[c].ask /\ cmd'[c].asked = cmd[c].asked
             /\ cmd'[c].dumps = cmd[c].dumps \ {d}
             /\ cmd'[c].puts = cmd[c].puts /\ cmd'[c].moves = cmd[c].moves
             /\ cmd'[c].looking = {[node |-> d[1], key |-> d[2], new |-> FindShard(d[2])]}
  <2>. DEFINE looking == {[node |-> d[1], key |-> d[2], new |-> FindShard(d[2])]}
  <2>1. cmd' = [cmd EXCEPT ![c].dumps = @ \ {d}, ![c].looking = looking] /\ cmd[c].pc = "dump"
    BY <1>4, <1>t DEF LookUpNew, Stages
  <2>. HIDE DEF looking
  <2>2. /\ Others(c) /\ cmd'[c].pc = "dump" /\ cmd'[c].base = cmd[c].base
        /\ cmd'[c].kind = cmd[c].kind /\ cmd'[c].todo = cmd[c].todo
        /\ cmd'[c].ask = cmd[c].ask /\ cmd'[c].asked = cmd[c].asked
        /\ cmd'[c].dumps = cmd[c].dumps \ {d}
        /\ cmd'[c].puts = cmd[c].puts /\ cmd'[c].moves = cmd[c].moves /\ cmd'[c].looking = looking
    BY <2>1, <1>t DEF LocalType, Others
  <2>3. QED
    BY <2>1, <2>2 DEF looking
<1>5. QED
  BY <1>1, <1>2, <1>3, <1>4

LEMMA AfterLookUpOld ==
    ASSUME IInv, NEW c \in Commands, LookUpOld(c)
    PROVE  \E f \in cmd[c].looking :
              LET old == GetConnectionByNodeId(f.node)
              IN  /\ Others(c) /\ cmd'[c].pc = "dump" /\ cmd[c].pc = "dump"
                  /\ cmd'[c].base = cmd[c].base /\ cmd'[c].kind = cmd[c].kind
                  /\ cmd'[c].todo = cmd[c].todo /\ cmd'[c].ask = cmd[c].ask
                  /\ cmd'[c].asked = cmd[c].asked /\ cmd'[c].dumps = cmd[c].dumps
                  /\ cmd'[c].looking = {}
                  /\ cmd'[c].puts = cmd[c].puts \cup IF f.new # old THEN {<<f.new, f.key>>} ELSE {}
                  /\ cmd'[c].moves = cmd[c].moves \cup
                        IF f.new # old THEN {[key |-> f.key, new |-> f.new, old |-> old]} ELSE {}
<1>t. cmd \in [Commands -> LocalType] /\ cmd[c] \in LocalType /\ Stages(cmd[c])
  BY DEF IInv, Types, Good
<1>1. PICK f \in cmd[c].looking :
         LET old == GetConnectionByNodeId(f.node)
         IN  cmd' = [cmd EXCEPT
                       ![c].looking = {},
                       ![c].puts  = @ \cup IF f.new # old THEN {<<f.new, f.key>>} ELSE {},
                       ![c].moves = @ \cup IF f.new # old
                                           THEN {[key |-> f.key, new |-> f.new, old |-> old]}
                                           ELSE {}]
  BY DEF LookUpOld
<1>. DEFINE old   == GetConnectionByNodeId(f.node)
            put   == IF f.new # old THEN {<<f.new, f.key>>} ELSE {}
            move  == IF f.new # old THEN {[key |-> f.key, new |-> f.new, old |-> old]} ELSE {}
<1>2. cmd' = [cmd EXCEPT ![c].looking = {}, ![c].puts = @ \cup put, ![c].moves = @ \cup move]
  BY <1>1
<1>3. cmd[c].pc = "dump"
  BY <1>t DEF Stages
<1>. HIDE DEF put, move
<1>4. /\ Others(c) /\ cmd'[c].pc = "dump" /\ cmd'[c].base = cmd[c].base /\ cmd'[c].kind = cmd[c].kind
      /\ cmd'[c].todo = cmd[c].todo /\ cmd'[c].ask = cmd[c].ask
      /\ cmd'[c].asked = cmd[c].asked /\ cmd'[c].dumps = cmd[c].dumps /\ cmd'[c].looking = {}
      /\ cmd'[c].puts = cmd[c].puts \cup put /\ cmd'[c].moves = cmd[c].moves \cup move
  BY <1>2, <1>3, <1>t DEF LocalType, Others
<1>5. QED
  BY <1>3, <1>4 DEF put, move

LEMMA AfterRequests ==
    ASSUME IInv, NEW c \in Commands
    PROVE  /\ StartPuts(c) =>
                /\ Others(c) /\ cmd'[c].pc = "put" /\ cmd'[c].base = cmd[c].base
                /\ cmd'[c].kind = cmd[c].kind /\ cmd'[c].todo = cmd[c].todo
                /\ cmd'[c].puts = cmd[c].puts /\ cmd'[c].moves = cmd[c].moves
                /\ cmd'[c].wait = Requests(c, "put", cmd[c].puts)
           /\ StartDeletes(c) =>
                /\ Others(c) /\ cmd'[c].pc = "delete" /\ cmd'[c].kind = cmd[c].kind
                /\ \A k \in Keys : ~InBase(cmd'[c], k)
           /\ Finish(c) \/ Fail(c) =>
                /\ Others(c) /\ cmd'[c].pc = (IF cmd[c].pc = "delete" /\ Finish(c) THEN "ok" ELSE "err")
                /\ cmd'[c].kind = cmd[c].kind /\ \A k \in Keys : ~InBase(cmd'[c], k)
                /\ cmd[c].pc \in {"victim", "dump", "put", "delete"}
<1>t. cmd \in [Commands -> LocalType] /\ cmd[c] \in LocalType /\ Stages(cmd[c])
  BY DEF IInv, Types, Good
<1>1. ASSUME StartPuts(c)
      PROVE  /\ Others(c) /\ cmd'[c].pc = "put" /\ cmd'[c].base = cmd[c].base
             /\ cmd'[c].kind = cmd[c].kind /\ cmd'[c].todo = cmd[c].todo
             /\ cmd'[c].puts = cmd[c].puts /\ cmd'[c].moves = cmd[c].moves
             /\ cmd'[c].wait = Requests(c, "put", cmd[c].puts)
  BY <1>1, <1>t DEF StartPuts, LocalType, Others
<1>2. ASSUME StartDeletes(c)
      PROVE  /\ Others(c) /\ cmd'[c].pc = "delete" /\ cmd'[c].kind = cmd[c].kind
             /\ \A k \in Keys : ~InBase(cmd'[c], k)
  <2>. DEFINE deletes == Requests(c, "delete", {<<m.old, m.key>> : m \in cmd[c].moves})
  <2>1. cmd' = [cmd EXCEPT ![c].pc = "delete", ![c].base = Nothing, ![c].puts = {}, ![c].wait = deletes]
    BY <1>2 DEF StartDeletes
  <2>. HIDE DEF deletes
  <2>2. Others(c) /\ cmd'[c].pc = "delete" /\ cmd'[c].kind = cmd[c].kind /\ cmd'[c].base = Nothing
    BY <2>1, <1>t DEF LocalType, Others
  <2>3. QED
    BY <2>2, StampTypes DEF InBase
<1>3. ASSUME NEW outcome, End(c, outcome)
      PROVE  /\ Others(c) /\ cmd'[c].pc = outcome /\ cmd'[c].kind = cmd[c].kind
             /\ \A k \in Keys : ~InBase(cmd'[c], k)
  <2>1. /\ Others(c) /\ cmd'[c].pc = outcome /\ cmd'[c].kind = cmd[c].kind
        /\ cmd'[c].base = Nothing
    BY <1>3, <1>t DEF End, Idle, Others
  <2>2. QED
    BY <2>1, StampTypes DEF InBase
<1>4. ASSUME Finish(c)
      PROVE  /\ Others(c) /\ cmd'[c].pc = "ok" /\ cmd'[c].kind = cmd[c].kind
             /\ \A k \in Keys : ~InBase(cmd'[c], k)
             /\ cmd[c].pc = "delete"
  BY <1>3, <1>4 DEF Finish
<1>5. ASSUME Fail(c)
      PROVE  /\ Others(c) /\ cmd'[c].pc = "err" /\ cmd'[c].kind = cmd[c].kind
             /\ \A k \in Keys : ~InBase(cmd'[c], k)
             /\ cmd[c].pc \in {"victim", "dump", "put", "delete"}
  BY <1>3, <1>5, <1>t DEF Fail, Stages
<1>6. QED
  BY <1>1, <1>2, <1>4, <1>5

LEMMA AfterAnswered ==
    ASSUME IInv, NEW c \in Commands, NEW r \in cmd[c].wait, Answered(r)
    PROVE  /\ r.cmd \in Commands /\ r \in cmd[r.cmd].wait /\ r \notin sent /\ Live(r.to)
           /\ cmd[r.cmd].pc \in {"put", "delete"}
           /\ Others(r.cmd) /\ cmd'[r.cmd].wait = cmd[r.cmd].wait \ {r}
           /\ LET l == cmd[r.cmd]
                  m == cmd'[r.cmd]
              IN  /\ m.pc = l.pc /\ m.kind = l.kind /\ m.base = l.base /\ m.todo = l.todo
                  /\ m.puts = l.puts /\ m.moves = l.moves
<1>1. r.cmd \in Commands
  BY LocalTypes DEF RequestType
<1>2. cmd \in [Commands -> LocalType] /\ Stages(cmd[r.cmd])
  BY <1>1 DEF IInv, Types, Good
<1>3. r \in cmd[r.cmd].wait /\ r \notin sent /\ Live(r.to)
  BY DEF Answered
<1>4. cmd[r.cmd].pc \in {"put", "delete"}
  BY <1>2, <1>3 DEF Stages
<1>5. QED
  BY <1>1, <1>2, <1>3, <1>4 DEF Answered, LocalType, Others

----------------------------------------------------------------------------
(* Order. *)

\* A command moves on, and has nothing for base where Order says so.
LEMMA OrderMoves ==
    ASSUME Order, NEW c \in Commands, Others(c), cmd[c].pc # "idle", cmd'[c].pc # "idle",
           cmd'[c].pc \in {"ok", "err", "delete"} => \A k \in Keys : ~InBase(cmd'[c], k),
           cmd'[c].kind = "migrateData" => cmd'[c].pc \notin {"store", "apply", "decide"},
           cmd'[c].kind = "retune" => cmd'[c].pc \notin {"store", "apply"},
           cmd'[c].pc # "victim"
    PROVE  Order'
BY DEF Order, Others

LEMMA OrderNext == ASSUME IInv, Order, [Next]_vars PROVE Order'
<1>1. ASSUME NEW c \in Commands,
             \/ \E n \in Nodes : AddNode(c, n) \/ RemoveNode(c, n)
             \/ \E r \in Routings : SetRouting(c, r) \/ Retune(c, r)
             \/ MigrateData(c)
      PROVE  Order'
  <2>1. /\ Others(c) /\ cmd[c].pc = "idle" /\ \A d \in Commands : d < c => cmd[d].pc # "idle"
        /\ cmd'[c].pc \in {"apply", "victim", "ok", "decide", "range"}
        /\ \A k \in Keys : ~InBase(cmd'[c], k)
        /\ cmd'[c].kind = "migrateData" <=> cmd'[c].pc = "range"
        /\ cmd'[c].kind = "retune" <=> cmd'[c].pc = "decide"
        /\ cmd'[c].pc = "victim" => \A x \in cmd'[c].asked : x # Nil => x[1] = cmd'[c].node
    BY <1>1, AfterStart
  <2>2. QED
    BY <2>1 DEF Order, Others
<1>2. ASSUME NEW c \in Commands,
             \/ VictimDump(c) \/ DropVictim(c) \/ Apply(c) \/ Decide(c)
             \/ \E k \in cmd[c].todo : StoreDeleted(c, k)
      PROVE  Order'
  <2>1. /\ Others(c) /\ cmd'[c].pc \in {"store", "apply", "decide", "range", "ok"}
        /\ cmd'[c].kind = cmd[c].kind
        /\ cmd'[c].pc = "ok" => \A k \in Keys : ~InBase(cmd'[c], k)
    BY <1>2, AfterEarly
  <2>2. cmd[c].pc \in {"victim", "store", "apply", "decide"}
    BY <1>2 DEF VictimDump, StoreDeleted, DropVictim, Apply, Decide
  <2>3. cmd[c].kind # "migrateData" /\ (cmd[c].kind = "retune" => cmd'[c].pc \notin {"store", "apply"})
    <3>1. Decide(c) \/ cmd[c].pc \in {"victim", "store", "apply"}
      BY <1>2 DEF VictimDump, StoreDeleted, DropVictim, Apply
    <3>2. Decide(c) => cmd'[c].pc \notin {"store", "apply"}
      BY AfterEarly
    <3>3. QED
      BY <2>2, <3>1, <3>2 DEF Order
  <2>4. QED
    BY <2>1, <2>2, <2>3, OrderMoves
<1>3. ASSUME NEW c \in Commands,
             \/ \E k \in cmd[c].todo : Collect(c, k) \/ Forget(c, k) \/ Place(c, k)
             \/ Collected(c) \/ Plan(c)
             \/ \E n \in cmd[c].ask : Ask(c, n)
             \/ \E x \in cmd[c].asked : TakeDump(c, x)
             \/ \E d \in cmd[c].dumps : LookUpNew(c, d)
             \/ LookUpOld(c) \/ StartPuts(c)
      PROVE  Order'
  <2>1. cmd[c].todo \subseteq Keys
    BY LocalTypes
  <2>2. Others(c) /\ cmd'[c].pc \in {"range", "forget", "dump", "put"}
    BY <1>3, <2>1, AfterRange, AfterDump, AfterLookUpOld, AfterRequests
  <2>3. cmd[c].pc # "idle"
    BY <1>3, AfterDump, AfterLookUpOld
       DEF Collect, Forget, Place, Collected, Plan, Ask, TakeDump, StartPuts, Planned
  <2>4. QED
    BY <2>2, <2>3, OrderMoves
<1>4. ASSUME NEW c \in Commands, StartDeletes(c) \/ Finish(c) \/ Fail(c) PROVE Order'
  <2>1. Others(c) /\ cmd'[c].pc \in {"delete", "ok", "err"} /\ \A k \in Keys : ~InBase(cmd'[c], k)
    BY <1>4, AfterRequests
  <2>2. cmd[c].pc # "idle"
    BY <1>4, AfterRequests DEF StartDeletes
  <2>3. QED
    BY <2>1, <2>2, OrderMoves
<1>5. ASSUME NEW c \in Commands, NEW r \in cmd[c].wait, Answered(r) PROVE Order'
  <2>. DEFINE d == r.cmd
  <2>1. /\ d \in Commands /\ Others(d) /\ cmd[d].pc \in {"put", "delete"}
        /\ cmd'[d].pc = cmd[d].pc /\ cmd'[d].kind = cmd[d].kind /\ cmd'[d].base = cmd[d].base
    BY <1>5, AfterAnswered
  <2>2. cmd'[d].pc = "delete" => \A k \in Keys : ~InBase(cmd'[d], k)
    BY <2>1 DEF Order, InBase
  <2>. HIDE DEF d
  <2>3. QED
    BY <2>1, <2>2, OrderMoves
<1>6. CASE (\E r \in sent : Claim(r)) \/ (\E r \in claimed : Perform(r))
  BY <1>6 DEF Claim, Perform, Order
<1>7. CASE UNCHANGED vars
  BY <1>7 DEF vars, Order
<1>8. QED
  BY <1>1, <1>2, <1>3, <1>4, <1>5, <1>6, <1>7 DEF Next, Command

----------------------------------------------------------------------------
(* The configuration while a migration runs. *)

LEMMA OwnIn == ASSUME IInv, NEW k \in Keys PROVE Own(k) \in nodes /\ Own(k) \in Nodes
BY ClusterCommandsAssumption DEF IInv, Types, VarTypes, Own

LEMMA HomeIsKept == ASSUME IInv, NEW k \in Keys, AtHome(k) PROVE Kept(k)
BY OwnIn DEF AtHome, Kept

LEMMA SameConfig ==
    ASSUME UNCHANGED <<nodes, routing, peers, gen>>
    PROVE  /\ \A k : Own(k)' = Own(k) /\ FindShard(k)' = FindShard(k)
           /\ \A n : Peer(n)' = Peer(n)
           /\ \A x : Live(x)' = Live(x)
           /\ {Peer(n) : n \in nodes}' = {Peer(n) : n \in nodes}
BY DEF Own, FindShard, Peer, Live

LEMMA SameHomes ==
    ASSUME UNCHANGED <<nodes, routing, storage, claimed>>
    PROVE  \A k : AtHome(k)' = AtHome(k)
BY DEF Own, AtHome, Pending

\* Without a put in flight, keys are kept where they are.
LEMMA KeptStill ==
    ASSUME NEW k \in Keys, Kept(k), claimed = {}, storage' = storage, nodes \subseteq nodes',
           Stored(k) => Stored(k)',
           \A d \in Commands : InBase(cmd[d], k) => InBase(cmd'[d], k) \/ Stored(k)'
    PROVE  Kept(k)'
BY DEF Kept, Pending, InBase, Stored

----------------------------------------------------------------------------
(* Steps of a command that changes the configuration. *)

\* It is alone before and after the step, and nothing is in flight.
LEMMA AloneStep ==
    ASSUME NEW c \in Commands, Others(c),
           \A d \in Commands \ {c} : cmd[d].pc \in {"idle", "ok", "err"},
           \A d \in Commands : d > c => cmd[d].pc = "idle",
           sent' = {}, claimed' = {}, cmd'[c].kind # "migrateData",
           cmd'[c].pc \in {"victim", "store", "apply", "decide", "range", "ok"},
           cmd'[c].pc = "ok" => cmd'[c].kind # "retune",
           cmd'[c].pc = "range" => cmd'[c].todo = Keys,
           cmd'[c].pc \in {"store", "apply", "decide"} =>
              \A k \in Keys : InBase(cmd'[c], k) => Stored(k)' \/ k \in cmd'[c].todo,
           cmd'[c].pc = "store" => \A k \in storage'[cmd'[c].node] : InBase(cmd'[c], k),
           cmd'[c].pc = "decide" /\ cmd'[c].kind = "retune" => routing' \in Ring,
           \A k \in Keys \ spilled' : Kept(k)'
    PROVE  Overlap'
<1>1. \A d \in Commands : d \in Active' => d = c
  BY DEF Active, Others
<1>2. ASSUME NEW d \in Commands PROVE Alone(d)'
  <2>1. CASE d = c
    <3>1. c \in Active' => Active' = {c}
      BY <1>1 DEF Active
    <3>2. \A e \in Commands : e > c => cmd'[e].pc = "idle"
      <4>1. c \in Nat
        BY DEF Commands
      <4>2. \A e \in Commands : e > c => e # c
        BY <4>1
      <4>3. QED
        BY <4>2 DEF Others
    <3>3. QED
      BY <2>1, <3>1, <3>2 DEF Alone
  <2>2. CASE d # c
    BY <1>1, <2>2 DEF Alone
  <2>3. QED
    BY <2>1, <2>2
<1>3. ASSUME NEW d \in Commands PROVE Plans(cmd[d])'
  BY DEF Plans, Others
<1>4. ASSUME NEW d \in Commands PROVE Gathered(d)'
  <2>1. cmd'[d].pc \notin {"forget", "dump", "put", "delete"}
    BY DEF Others
  <2>2. ~Through(d)'
    <3>1. CASE d = c
      BY <3>1 DEF Through, Migrates
    <3>2. CASE d # c
      <4>1. d \in Nat /\ c \in Nat
        BY DEF Commands
      <4>2. CASE d > c
        BY <3>2, <4>2 DEF Through, Others
      <4>3. CASE c > d /\ cmd'[c].pc # "idle"
        BY <4>3 DEF Through
      <4>4. QED
        BY <3>2, <4>1, <4>2, <4>3
    <3>3. QED
      BY <3>1, <3>2
  <2>3. cmd'[d].pc = "range" => d = c
    BY DEF Others
  <2>4. QED
    BY <2>1, <2>2, <2>3 DEF Gathered
<1>5. Flights'
  BY DEF Flights
<1>6. QED
  BY <1>2, <1>3, <1>4, <1>5 DEF Overlap

\* A command that changes the configuration starts.
LEMMA AloneStart ==
    ASSUME OInv, ~mixed', NEW c \in Commands,
           \/ \E n \in Nodes : AddNode(c, n) \/ RemoveNode(c, n)
           \/ \E r \in Routings : SetRouting(c, r) \/ Retune(c, r)
           \/ MigrateData(c),
           cmd'[c].kind # "migrateData"
    PROVE  Overlap'
<1>1. /\ Others(c) /\ cmd[c].pc = "idle"
      /\ cmd'[c].pc \in {"apply", "victim", "ok", "decide", "range"}
      /\ \A k \in Keys : ~InBase(cmd'[c], k)
      /\ cmd'[c].kind = "migrateData" <=> cmd'[c].pc = "range"
      /\ cmd'[c].kind = "retune" <=> cmd'[c].pc = "decide"
      /\ cmd'[c].pc = "decide" => routing' \in Ring
      /\ nodes \subseteq nodes'
      /\ mixed' = \/ mixed
                  \/ cmd'[c].kind # "migrateData" /\ (Active # {} \/ sent \cup claimed # {})
                  \/ \E d \in Active : cmd[d].kind # "migrateData"
      /\ UNCHANGED <<storage, deletedData, sent, claimed, spilled>>
  BY AfterStart DEF OInv
<1>2. ~mixed /\ Active = {} /\ sent = {} /\ claimed = {}
  BY <1>1
<1>3. \A d \in Commands : cmd[d].pc \in {"idle", "ok", "err"}
  BY <1>2 DEF Active
<1>4. \A d \in Commands : d > c => cmd[d].pc = "idle"
  BY <1>1 DEF OInv, Order, Commands
<1>5. ASSUME NEW k \in Keys \ spilled' PROVE Kept(k)'
  <2>1. Kept(k)
    BY <1>1, <1>2 DEF OInv, Overlap
  <2>2. ~InBase(cmd[c], k)
    BY <1>1 DEF OInv, Order
  <2>3. \A d \in Commands : InBase(cmd[d], k) => InBase(cmd'[d], k)
    BY <1>1, <2>2 DEF Others
  <2>4. Stored(k)' = Stored(k)
    BY <1>1 DEF Stored
  <2>5. QED
    BY <1>1, <1>2, <2>1, <2>3, <2>4, KeptStill
<1>6. \A d \in Commands \ {c} : cmd[d].pc \in {"idle", "ok", "err"}
  BY <1>3
<1>7. QED
  BY <1>1, <1>2, <1>4, <1>5, <1>6, AloneStep

\* It is on its way to migrate.
LEMMA AloneEarly ==
    ASSUME OInv, ~mixed', NEW c \in Commands,
           \/ VictimDump(c) \/ DropVictim(c) \/ Apply(c) \/ Decide(c)
           \/ \E k \in cmd[c].todo : StoreDeleted(c, k)
    PROVE  Overlap'
<1>1. /\ ~mixed /\ UNCHANGED <<spilled, sent, claimed, storage>>
      /\ cmd[c].pc \in {"victim", "store", "apply", "decide"}
  <2>1. CASE VictimDump(c)
    BY <2>1 DEF VictimDump, dataVars, linkVars
  <2>2. CASE DropVictim(c)
    BY <2>2 DEF DropVictim, dataVars, linkVars
  <2>3. CASE Apply(c) \/ Decide(c)
    BY <2>3 DEF Apply, Decide, dataVars, linkVars
  <2>4. ASSUME NEW k, StoreDeleted(c, k)
        PROVE  /\ ~mixed /\ UNCHANGED <<spilled, sent, claimed, storage>> /\ cmd[c].pc = "store"
    BY <2>4 DEF StoreDeleted, linkVars
  <2>5. QED
    BY <2>1, <2>2, <2>3, <2>4
<1>2. cmd[c].kind # "migrateData" /\ c \in Active
  BY <1>1 DEF OInv, Order, Active
<1>3. /\ Active = {c} /\ \A d \in Commands : d > c => cmd[d].pc = "idle"
      /\ sent = {} /\ claimed = {}
      /\ cmd[c].pc \in {"store", "apply", "decide"} =>
            \A k \in Keys : InBase(cmd[c], k) => Stored(k) \/ k \in cmd[c].todo
      /\ cmd[c].pc = "store" => \A k \in storage[cmd[c].node] : InBase(cmd[c], k)
      /\ cmd[c].pc = "decide" /\ cmd[c].kind = "retune" => routing \in Ring
  BY <1>1, <1>2 DEF OInv, Overlap, Alone
<1>4. \A d \in Commands \ {c} : cmd[d].pc \in {"idle", "ok", "err"}
  BY <1>3 DEF Active
<1>5. IInv /\ \A k \in Keys \ spilled : Kept(k)
  BY <1>1 DEF OInv, Overlap
<1>s. Stages(cmd[c])
  BY <1>5 DEF IInv, Good
<1>6. CASE VictimDump(c)
  <2>1. PICK x \in cmd[c].asked :
          /\ Live(x) /\ Others(c) /\ cmd'[c].pc = "store" /\ cmd'[c].todo = storage[x[1]]
          /\ \A k \in Keys : InBase(cmd'[c], k) <=> k \in storage[x[1]]
          /\ cmd'[c].kind = cmd[c].kind /\ cmd'[c].node = cmd[c].node
    BY <1>5, <1>6, AfterEarly
  <2>2. cmd[c].pc = "victim" /\ nodes' = nodes /\ deletedData' = deletedData
    BY <1>6 DEF VictimDump, configVars, dataVars
  <2>3. x[1] = cmd[c].node
    BY <2>1, <2>2 DEF OInv, Order, Live
  <2>4. storage[x[1]] \subseteq Keys
    <3>1. x[1] \in Nodes
      BY <1>5, <2>1, LocalTypes, ConnectionTypes DEF IInv, Types, VarTypes
    <3>2. QED
      BY <1>5, <3>1 DEF IInv, Types, VarTypes
  <2>5. \A k \in storage'[cmd'[c].node] : InBase(cmd'[c], k)
    BY <1>1, <2>1, <2>3, <2>4
  <2>6. ASSUME NEW k \in Keys \ spilled' PROVE Kept(k)'
    <3>1. Kept(k) /\ ~InBase(cmd[c], k) /\ Stored(k)' = Stored(k)
      BY <1>1, <1>5, <2>2 DEF OInv, Order, Stored
    <3>2. \A d \in Commands : InBase(cmd[d], k) => InBase(cmd'[d], k)
      BY <2>1, <3>1 DEF Others
    <3>3. QED
      BY <1>1, <1>3, <2>2, <3>1, <3>2, KeptStill
  <2>7. QED
    BY <1>1, <1>2, <1>3, <1>4, <2>1, <2>5, <2>6, AloneStep
<1>7. ASSUME NEW j \in cmd[c].todo, StoreDeleted(c, j) PROVE Overlap'
  <2>1. /\ Others(c) /\ cmd'[c].pc = "store" /\ cmd'[c].base = cmd[c].base
        /\ cmd'[c].todo = cmd[c].todo \ {j}
        /\ cmd'[c].kind = cmd[c].kind /\ cmd'[c].node = cmd[c].node
        /\ \A k \in Keys : Stored(k)' <=> Stored(k) \/ k = j
    BY <1>5, <1>7, AfterEarly
  <2>2. cmd[c].pc = "store" /\ nodes' = nodes
    BY <1>7 DEF StoreDeleted, configVars
  <2>3. \A k : InBase(cmd'[c], k) <=> InBase(cmd[c], k)
    BY <2>1 DEF InBase
  <2>4. \A k \in Keys : InBase(cmd'[c], k) => Stored(k)' \/ k \in cmd'[c].todo
    BY <1>3, <2>1, <2>2, <2>3
  <2>5. \A k \in storage'[cmd'[c].node] : InBase(cmd'[c], k)
    BY <1>1, <1>3, <2>1, <2>2, <2>3
  <2>6. ASSUME NEW k \in Keys \ spilled' PROVE Kept(k)'
    <3>1. Kept(k) /\ \A d \in Commands : InBase(cmd[d], k) => InBase(cmd'[d], k)
      BY <1>1, <1>5, <2>1, <2>3 DEF Others
    <3>2. QED
      BY <1>1, <1>3, <2>1, <2>2, <3>1, KeptStill
  <2>7. QED
    BY <1>1, <1>2, <1>3, <1>4, <2>1, <2>4, <2>5, <2>6, AloneStep
<1>8. CASE DropVictim(c)
  <2>1. /\ Others(c) /\ cmd'[c].pc = "apply" /\ cmd'[c].base = cmd[c].base /\ cmd'[c].kind = cmd[c].kind
        /\ cmd'[c].todo = {}
    BY <1>5, <1>8, AfterEarly
  <2>2. /\ cmd[c].pc = "store" /\ cmd[c].todo = {} /\ nodes' = nodes \ {cmd[c].node}
        /\ deletedData' = deletedData
    BY <1>8 DEF DropVictim, dataVars
  <2>3. /\ \A k \in Keys : InBase(cmd'[c], k) <=> InBase(cmd[c], k)
        /\ \A k \in Keys : Stored(k)' <=> Stored(k)
    BY <2>1, <2>2 DEF InBase, Stored
  <2>4. \A k \in Keys : InBase(cmd'[c], k) => Stored(k)'
    BY <1>3, <2>2, <2>3
  <2>5. ASSUME NEW k \in Keys \ spilled' PROVE Kept(k)'
    <3>1. Stored(k) \/ (\E n \in nodes : k \in storage[n]) \/ \E d \in Commands : InBase(cmd[d], k)
      BY <1>1, <1>3, <1>5 DEF Kept, Pending, Stored, InBase
    <3>2. \A d \in Commands : InBase(cmd[d], k) => InBase(cmd'[d], k)
      BY <2>1, <2>3 DEF Others
    <3>3. \A n \in nodes : k \in storage[n] => n \in nodes' \/ InBase(cmd[c], k)
      BY <1>3, <2>2
    <3>4. Stored(k)' \/ (\E n \in nodes' : k \in storage'[n]) \/ \E d \in Commands : InBase(cmd'[d], k)
      BY <1>1, <2>3, <3>1, <3>2, <3>3
    <3>5. QED
      BY <3>4 DEF Kept, Stored, InBase
  <2>6. QED
    BY <1>1, <1>2, <1>3, <1>4, <2>1, <2>4, <2>5, AloneStep
<1>9. CASE Apply(c)
  <2>1. /\ Others(c) /\ cmd'[c].pc = "decide" /\ cmd'[c].base = cmd[c].base /\ cmd'[c].kind = cmd[c].kind
    BY <1>5, <1>9, AfterEarly
  <2>2. cmd[c].pc = "apply" /\ nodes' = nodes /\ deletedData' = deletedData /\ cmd[c].todo = {}
    BY <1>9, <1>s DEF Apply, configVars, dataVars, Stages
  <2>3. /\ \A k : InBase(cmd'[c], k) <=> InBase(cmd[c], k)
        /\ \A k : Stored(k)' <=> Stored(k)
    BY <2>1, <2>2 DEF InBase, Stored
  <2>4. \A k \in Keys : InBase(cmd'[c], k) => Stored(k)'
    BY <1>3, <2>2, <2>3
  <2>5. ASSUME NEW k \in Keys \ spilled' PROVE Kept(k)'
    <3>1. Kept(k) /\ \A d \in Commands : InBase(cmd[d], k) => InBase(cmd'[d], k)
      BY <1>1, <1>5, <2>1, <2>3 DEF Others
    <3>2. QED
      BY <1>1, <1>3, <2>2, <2>3, <3>1, KeptStill
  <2>6. cmd'[c].kind # "retune"
    BY <2>1, <2>2 DEF OInv, Order
  <2>7. QED
    BY <1>1, <1>2, <1>3, <1>4, <2>1, <2>4, <2>5, <2>6, AloneStep
<1>10. CASE Decide(c)
  <2>1. /\ Others(c) /\ cmd'[c].kind = cmd[c].kind
        /\ NeedMigrate(c) => cmd'[c].pc = "range" /\ cmd'[c].base = cmd[c].base /\ cmd'[c].todo = Keys
        /\ ~NeedMigrate(c) => cmd'[c].pc = "ok" /\ \A k \in Keys : ~InBase(cmd'[c], k)
    BY <1>5, <1>10, AfterEarly
  <2>2. cmd[c].pc = "decide" /\ nodes' = nodes /\ deletedData' = deletedData /\ cmd[c].todo = {}
    BY <1>10, <1>s DEF Decide, configVars, dataVars, Stages
  <2>3. ~NeedMigrate(c) => cmd'[c].kind # "retune"
    BY <1>3, <2>1, <2>2 DEF NeedMigrate
  <2>4. \A k \in Keys : InBase(cmd[c], k) => Stored(k)'
    BY <1>3, <2>2 DEF Stored
  <2>5. ASSUME NEW k \in Keys \ spilled' PROVE Kept(k)'
    <3>1. Kept(k) /\ (Stored(k) => Stored(k)')
      BY <1>1, <1>5, <2>2 DEF Stored
    <3>2. \A d \in Commands : InBase(cmd[d], k) => InBase(cmd'[d], k) \/ Stored(k)'
      BY <2>1, <2>4 DEF Others
    <3>3. QED
      BY <1>1, <1>3, <2>2, <3>1, <3>2, KeptStill
  <2>6. cmd'[c].pc \in {"range", "ok"} /\ (cmd'[c].pc = "range" => cmd'[c].todo = Keys)
        /\ (cmd'[c].pc = "ok" => cmd'[c].kind # "retune")
    BY <2>1, <2>3
  <2>7. QED
    BY <1>1, <1>2, <1>3, <1>4, <2>1, <2>5, <2>6, AloneStep
<1>11. QED
  BY <1>6, <1>7, <1>8, <1>9, <1>10


----------------------------------------------------------------------------
(* What all steps have in common while only migrations run. *)

\* The configuration stays, no key that is at home or safe ceases to be, and
\* nothing is put into deletedData.
Onward ==
    /\ UNCHANGED <<nodes, routing, peers, gen>> /\ spilled \subseteq spilled'
    /\ \A k \in Keys : AtHome(k) => AtHome(k)'
    /\ \A k \in Keys : Stored(k)' => Stored(k)
    /\ \A k \in Keys \ spilled' : Safe(k) => Safe(k)'
    /\ \A k \in Keys, n \in nodes : k \in storage[n] => k \in storage'[n] \/ AtHome(k)'
    /\ \A r \in sent : r \in sent' \/ AtHome(r.key)'

LEMMA OnwardStill ==
    ASSUME NEW c \in Commands, Others(c),
           UNCHANGED <<nodes, routing, peers, gen, storage, claimed>>,
           sent \subseteq sent', spilled \subseteq spilled',
           \A k \in Keys : Stored(k)' => Stored(k),
           \A k \in Keys \ spilled' : InBase(cmd[c], k) => InBase(cmd'[c], k) \/ AtHome(k)
    PROVE  Onward
<1>1. \A k : AtHome(k)' = AtHome(k)
  BY SameHomes
<1>2. ASSUME NEW k \in Keys \ spilled', Safe(k) PROVE Safe(k)'
  <2>1. \A d \in Commands : InBase(cmd[d], k) => InBase(cmd'[d], k) \/ AtHome(k)
    BY DEF Others
  <2>2. QED
    BY <1>1, <1>2, <2>1 DEF Safe
<1>3. QED
  BY <1>1, <1>2 DEF Onward

\* A record that a step does not touch goes on to say what it said.
LEMMA RecordStays ==
    ASSUME IInv, NEW d \in Commands, cmd'[d] = cmd[d], Plans(cmd[d]), Gathered(d),
           Through(d)' => Through(d), Onward
    PROVE  Plans(cmd[d])' /\ Gathered(d)'
<1>1. /\ \A k : Own(k)' = Own(k) /\ FindShard(k)' = FindShard(k)
      /\ \A n : Peer(n)' = Peer(n)
      /\ \A x : Live(x)' = Live(x)
      /\ {Peer(n) : n \in nodes}' = {Peer(n) : n \in nodes} /\ nodes' = nodes
  BY SameConfig DEF Onward
<1>2. /\ \A k \in Keys : AtHome(k) => AtHome(k)'
      /\ \A k \in Keys : Stored(k)' => Stored(k)
      /\ \A k \in Keys \ spilled' : Safe(k) => Safe(k)'
      /\ \A k \in Keys, n \in nodes : k \in storage[n] => k \in storage'[n] \/ AtHome(k)'
      /\ \A r \in sent : r \in sent' \/ AtHome(r.key)'
      /\ spilled \subseteq spilled'
  BY DEF Onward
<1>3. /\ \A p \in cmd[d].puts : p[2] \in Keys
      /\ \A e \in cmd[d].dumps : e[2] \in Keys
      /\ \A f \in cmd[d].looking : f.key \in Keys
      /\ \A r \in cmd[d].wait : r.key \in Keys
  BY LocalTypes DEF RequestType
<1>4. Plans(cmd[d])'
  <2>1. cmd[d].pc \in {"dump", "put"} =>
          /\ \A p \in cmd'[d].puts : p[1] = FindShard(p[2])'
          /\ \A k \in Keys : InBase(cmd'[d], k) => k \in cmd'[d].todo \/ \E p \in cmd'[d].puts : p[2] = k
          /\ \A m \in cmd'[d].moves : <<m.new, m.key>> \in cmd'[d].puts /\ m.old # FindShard(m.key)'
    BY <1>1 DEF Plans
  <2>2. cmd[d].pc = "dump" =>
          /\ cmd'[d].ask \subseteq nodes' /\ cmd'[d].asked \subseteq {Peer(n) : n \in nodes}'
          /\ \A e \in cmd'[d].dumps : /\ e[1] \in nodes' /\ Peer(e[1])' # Nil
                                      /\ e[1] = Own(e[2])' => AtHome(e[2])'
    BY <1>1, <1>2, <1>3 DEF Plans
  <2>3. cmd[d].pc = "dump" =>
          /\ \A f \in cmd'[d].looking : /\ f.node \in nodes' /\ Peer(f.node)' # Nil
                                        /\ f.new = FindShard(f.key)'
                                        /\ f.node = Own(f.key)' => AtHome(f.key)'
          /\ \A f, g \in cmd'[d].looking : f = g
    BY <1>1, <1>2, <1>3 DEF Plans
  <2>4. cmd[d].pc = "put" =>
          /\ \A p \in cmd'[d].puts : AtHome(p[2])' \/ \E r \in cmd'[d].wait : r.key = p[2]
          /\ \A r \in cmd'[d].wait : Live(r.to)' => r \in sent' \/ AtHome(r.key)'
    BY <1>1, <1>2, <1>3 DEF Plans
  <2>5. QED
    BY <2>1, <2>2, <2>3, <2>4 DEF Plans
<1>5. Gathered(d)'
  <2>1. \A k \in Keys : AtHome(k)' => Safe(k)'
    BY DEF Safe
  <2>2. \A k \in Keys : Found(cmd[d], k) => Found(cmd[d], k)' \/ AtHome(k)'
    BY <1>1, <1>2 DEF Found
  <2>3. cmd[d].pc = "dump" => \A k \in Keys \ spilled' : Safe(k)' \/ Found(cmd[d], k)'
    BY <1>2, <2>1, <2>2 DEF Gathered
  <2>4. \A k : InBase(cmd'[d], k) = InBase(cmd[d], k)
    OBVIOUS
  <2>5. /\ cmd[d].pc = "range" => \A k \in Keys : Stored(k)' => k \in cmd'[d].todo \/ InBase(cmd'[d], k)
        /\ cmd[d].pc = "forget" => \A k \in Keys : /\ Stored(k)' => k \in cmd'[d].todo
                                                   /\ k \in cmd'[d].todo => InBase(cmd'[d], k)
        /\ cmd[d].pc \in {"dump", "put", "delete"} => \A k \in Keys : ~Stored(k)'
    BY <1>2, <2>4 DEF Gathered
  <2>6. /\ cmd[d].pc = "put" => \A k \in Keys \ spilled' : Safe(k)' \/ \E p \in cmd'[d].puts : p[2] = k
        /\ cmd[d].pc = "delete" \/ Through(d)' => \A k \in Keys \ spilled' : Safe(k)'
    BY <1>2 DEF Gathered
  <2>7. QED
    BY <2>3, <2>5, <2>6 DEF Gathered
<1>6. QED
  BY <1>4, <1>5

\* What the others know stays true.
LEMMA OthersGoOn ==
    ASSUME OInv, ~mixed, NEW c \in Commands, c \in Active, Others(c), cmd'[c].pc # "idle", Onward,
           NEW d \in Commands \ {c}
    PROVE  Alone(d)' /\ Plans(cmd[d])' /\ Gathered(d)'
<1>1. cmd'[d] = cmd[d] /\ Alone(d) /\ Plans(cmd[d]) /\ Gathered(d) /\ IInv
  BY DEF Others, OInv, Overlap
<1>2. Alone(d)'
  <2>1. d \in Active' <=> d \in Active
    BY <1>1 DEF Active
  <2>2. ~(d \in Active /\ cmd[d].kind # "migrateData")
    BY <1>1 DEF Alone
  <2>3. QED
    BY <1>1, <2>1, <2>2 DEF Alone
<1>3. Through(d)' => Through(d)
  BY <1>1 DEF Through, Migrates, Others, Active
<1>4. QED
  BY <1>1, <1>2, <1>3, RecordStays

\* A command that goes on migrating is alone if it was.
LEMMA AloneGoesOn ==
    ASSUME OInv, ~mixed, NEW c \in Commands, c \in Active, Others(c), cmd'[c].kind = cmd[c].kind,
           cmd'[c].pc \in {"range", "forget", "dump", "put", "delete"},
           cmd'[c].pc \in {"range", "forget", "dump"} =>
              UNCHANGED <<sent, claimed>> /\ cmd[c].pc \notin {"put", "delete"}
    PROVE  Alone(c)'
<1>1. Alone(c)
  BY DEF OInv, Overlap
<1>2. ASSUME cmd[c].kind # "migrateData"
      PROVE  /\ Active' = {c} /\ \A d \in Commands : d > c => cmd'[d].pc = "idle"
             /\ cmd'[c].pc \notin {"put", "delete"} => sent' = {} /\ claimed' = {}
  <2>1. /\ Active = {c} /\ \A d \in Commands : d > c => cmd[d].pc = "idle"
        /\ cmd[c].pc \notin {"put", "delete"} => sent = {} /\ claimed = {}
    BY <1>1, <1>2 DEF Alone
  <2>2. Active' = {c}
    BY <2>1 DEF Active, Others
  <2>3. \A d \in Commands : d > c => d # c
    BY DEF Commands
  <2>4. QED
    BY <2>1, <2>2, <2>3 DEF Others
<1>3. QED
  BY <1>2 DEF Alone

LEMMA FlightsStay ==
    ASSUME OInv, ~mixed, UNCHANGED <<nodes, routing, peers, gen, storage, sent, claimed>>
    PROVE  Flights'
BY SameConfig, SameHomes DEF OInv, Overlap, Flights

LEMMA KeptGoesOn ==
    ASSUME OInv, ~mixed, IInv', Onward, NEW k \in Keys \ spilled', Stored(k) => Stored(k)' \/ Safe(k)
    PROVE  Kept(k)'
<1>1. Kept(k) /\ IInv /\ Flights /\ nodes' = nodes
  BY DEF OInv, Overlap, Onward
<1>2. AtHome(k)' => Kept(k)'
  <2>1. Own(k)' \in nodes'
    BY OwnIn, <1>1 DEF Onward, Own
  <2>2. QED
    BY <2>1 DEF AtHome, Kept
<1>3. Safe(k)' => Kept(k)'
  BY <1>2 DEF Safe, Kept, InBase
<1>4. Safe(k) => Kept(k)'
  BY <1>3 DEF Onward
<1>5. CASE Stored(k)
  BY <1>4, <1>5 DEF Stored, Kept
<1>6. ASSUME NEW n \in nodes, k \in storage[n] PROVE Kept(k)'
  BY <1>1, <1>2, <1>6 DEF Onward, Kept
<1>7. ASSUME NEW n \in nodes, Pending(n, k) PROVE Kept(k)'
  <2>1. n = Own(k)
    BY <1>1, <1>7 DEF Pending, Flights
  <2>2. QED
    BY <1>4, <1>7, <2>1 DEF AtHome, Safe
<1>8. ASSUME NEW d \in Commands, InBase(cmd[d], k) PROVE Kept(k)'
  BY <1>4, <1>8 DEF Safe
<1>9. QED
  BY <1>1, <1>5, <1>6, <1>7, <1>8 DEF Kept, Stored, InBase

\* A step of a migration, when its own part is done.
LEMMA GoesOn ==
    ASSUME OInv, ~mixed, IInv', NEW c \in Commands, c \in Active, Others(c), cmd'[c].pc # "idle", Onward,
           Alone(c)', Plans(cmd[c])', Gathered(c)', Flights',
           \A k \in Keys \ spilled' : Stored(k) => Stored(k)' \/ Safe(k)
    PROVE  Overlap'
<1>1. \A d \in Commands \ {c} : Alone(d)' /\ Plans(cmd[d])' /\ Gathered(d)'
  BY OthersGoOn
<1>2. \A k \in Keys \ spilled' : Kept(k)'
  BY KeptGoesOn
<1>3. QED
  BY <1>1, <1>2 DEF Overlap

----------------------------------------------------------------------------
(* Steps of a migration, up to its dumps. *)

\* migrateData starts while others migrate.
LEMMA MigrateDataOverlaps ==
    ASSUME OInv, IInv', ~mixed', NEW c \in Commands,
           \/ \E n \in Nodes : AddNode(c, n) \/ RemoveNode(c, n)
           \/ \E r \in Routings : SetRouting(c, r) \/ Retune(c, r)
           \/ MigrateData(c),
           cmd'[c].kind = "migrateData"
    PROVE  Overlap'
<1>1. /\ Others(c) /\ cmd[c].pc = "idle" /\ cmd'[c].pc = "range" /\ cmd'[c].todo = Keys
      /\ mixed' = \/ mixed
                  \/ cmd'[c].kind # "migrateData" /\ (Active # {} \/ sent \cup claimed # {})
                  \/ \E d \in Active : cmd[d].kind # "migrateData"
      /\ UNCHANGED <<nodes, routing, peers, gen>>
      /\ UNCHANGED <<storage, deletedData, sent, claimed, spilled>>
  BY AfterStart DEF OInv
<1>2. ~mixed /\ IInv /\ \A d \in Active : cmd[d].kind = "migrateData"
  BY <1>1 DEF OInv
<1>3. \A k \in Keys : ~InBase(cmd[c], k)
  BY <1>1 DEF OInv, Order
<1>4. \A k : Stored(k)' = Stored(k)
  BY <1>1 DEF Stored
<1>5. Onward
  BY <1>1, <1>3, <1>4, OnwardStill
<1>6. ASSUME NEW d \in Commands PROVE Alone(d)'
  BY <1>1, <1>2 DEF Alone, Active, Others
<1>7. ASSUME NEW d \in Commands PROVE Plans(cmd[d])' /\ Gathered(d)'
  <2>1. CASE d = c
    BY <1>1, <2>1 DEF Plans, Gathered, Through
  <2>2. CASE d # c
    <3>1. cmd'[d] = cmd[d] /\ Plans(cmd[d]) /\ Gathered(d)
      BY <1>1, <1>2, <2>2 DEF Others, OInv, Overlap
    <3>2. Through(d)' => Through(d)
      BY <1>1, <3>1 DEF Through, Migrates, Others
    <3>3. QED
      BY <1>2, <1>5, <3>1, <3>2, RecordStays
  <2>3. QED
    BY <2>1, <2>2
<1>8. Flights'
  BY <1>1, <1>2, FlightsStay
<1>9. \A k \in Keys \ spilled' : Kept(k)'
  BY <1>2, <1>4, <1>5, KeptGoesOn
<1>10. QED
  BY <1>6, <1>7, <1>8, <1>9 DEF Overlap

LEMMA CollectKeeps ==
    ASSUME OInv, ~mixed, IInv', NEW c \in Commands, NEW k \in Keys, Collect(c, k)
    PROVE  Overlap'
<1>1. /\ Others(c) /\ cmd'[c].pc = "range" /\ cmd'[c].todo = cmd[c].todo \ {k}
      /\ cmd'[c].kind = cmd[c].kind
      /\ \A j \in Keys : InBase(cmd'[c], j) <=> InBase(cmd[c], j) \/ (j = k /\ Stored(k))
  BY AfterRange DEF OInv
<1>2. /\ UNCHANGED <<nodes, routing, peers, gen, storage, claimed>> /\ cmd[c].pc = "range"
      /\ UNCHANGED <<deletedData, sent, spilled>> /\ c \in Active
  BY DEF Collect, configVars, peerVars, dataVars, linkVars, Active
<1>3. \A j : Stored(j)' = Stored(j)
  BY <1>2 DEF Stored
<1>4. Onward
  BY <1>1, <1>2, <1>3, OnwardStill
<1>5. Gathered(c)'
  <2>1. \A j \in Keys : Stored(j) => j \in cmd[c].todo \/ InBase(cmd[c], j)
    BY <1>2 DEF OInv, Overlap, Gathered
  <2>2. \A j \in Keys : Stored(j)' => j \in cmd'[c].todo \/ InBase(cmd'[c], j)
    BY <1>1, <1>3, <2>1
  <2>3. QED
    BY <1>1, <2>2 DEF Gathered, Through
<1>6. Alone(c)' /\ Plans(cmd[c])'
  BY <1>1, <1>2, AloneGoesOn DEF Plans
<1>7. QED
  BY <1>1, <1>2, <1>3, <1>4, <1>5, <1>6, FlightsStay, GoesOn

LEMMA CollectedKeeps ==
    ASSUME OInv, ~mixed, IInv', NEW c \in Commands, Collected(c)
    PROVE  Overlap'
<1>1. /\ Others(c) /\ cmd'[c].pc = "forget" /\ cmd'[c].base = cmd[c].base
      /\ cmd'[c].kind = cmd[c].kind
      /\ \A k \in Keys : k \in cmd'[c].todo <=> InBase(cmd[c], k)
  BY AfterRange DEF OInv
<1>2. /\ UNCHANGED <<nodes, routing, peers, gen, storage, claimed>>
      /\ UNCHANGED <<deletedData, sent, spilled>> /\ c \in Active
      /\ cmd[c].pc = "range" /\ cmd[c].todo = {}
  BY DEF Collected, configVars, peerVars, dataVars, linkVars, Active
<1>3. \A k : (Stored(k)' = Stored(k)) /\ (InBase(cmd'[c], k) <=> InBase(cmd[c], k))
  BY <1>1, <1>2 DEF Stored, InBase
<1>4. Onward
  BY <1>1, <1>2, <1>3, OnwardStill
<1>5. Gathered(c)'
  <2>1. \A k \in Keys : Stored(k) => InBase(cmd[c], k)
    BY <1>2 DEF OInv, Overlap, Gathered
  <2>2. \A k \in Keys : (Stored(k)' => k \in cmd'[c].todo) /\ (k \in cmd'[c].todo => InBase(cmd'[c], k))
    BY <1>1, <1>3, <2>1
  <2>3. QED
    BY <1>1, <2>2 DEF Gathered, Through
<1>6. Alone(c)' /\ Plans(cmd[c])'
  BY <1>1, <1>2, AloneGoesOn DEF Plans
<1>7. QED
  BY <1>1, <1>2, <1>3, <1>4, <1>5, <1>6, FlightsStay, GoesOn

\* What is taken from deletedData is in the base.
LEMMA ForgetKeeps ==
    ASSUME OInv, ~mixed, IInv', NEW c \in Commands, NEW k \in cmd[c].todo, Forget(c, k)
    PROVE  Overlap'
<1>1. /\ Others(c) /\ cmd'[c].pc = "forget" /\ cmd'[c].base = cmd[c].base
      /\ cmd'[c].kind = cmd[c].kind /\ cmd'[c].todo = cmd[c].todo \ {k}
      /\ \A j \in Keys : Stored(j)' <=> Stored(j) /\ j # k
  BY AfterRange DEF OInv
<1>2. /\ UNCHANGED <<nodes, routing, peers, gen, storage, claimed>>
      /\ UNCHANGED <<sent, spilled>> /\ c \in Active /\ cmd[c].pc = "forget"
  BY DEF Forget, configVars, peerVars, linkVars, Active
<1>3. \A j : InBase(cmd'[c], j) <=> InBase(cmd[c], j)
  BY <1>1 DEF InBase
<1>4. Onward
  BY <1>1, <1>2, <1>3, OnwardStill
<1>5. \A j \in Keys : (Stored(j) => j \in cmd[c].todo) /\ (j \in cmd[c].todo => InBase(cmd[c], j))
  BY <1>2 DEF OInv, Overlap, Gathered
<1>6. Gathered(c)'
  <2>1. \A j \in Keys : (Stored(j)' => j \in cmd'[c].todo) /\ (j \in cmd'[c].todo => InBase(cmd'[c], j))
    BY <1>1, <1>3, <1>5
  <2>2. QED
    BY <1>1, <2>1 DEF Gathered, Through
<1>7. Alone(c)' /\ Plans(cmd[c])'
  BY <1>1, <1>2, AloneGoesOn DEF Plans
<1>8. \A j \in Keys : Stored(j) => Stored(j)' \/ Safe(j)
  BY <1>1, <1>5 DEF Safe
<1>9. QED
  BY <1>1, <1>2, <1>4, <1>6, <1>7, <1>8, FlightsStay, GoesOn

\* When deletedData is emptied, what is not safe is on a node that is about to
\* be asked.
LEMMA PlanKeeps ==
    ASSUME OInv, ~mixed, IInv', NEW c \in Commands, Plan(c)
    PROVE  Overlap'
<1>1. /\ Others(c) /\ cmd'[c].pc = "dump" /\ cmd'[c].base = cmd[c].base
      /\ cmd'[c].kind = cmd[c].kind /\ cmd'[c].ask = nodes /\ cmd'[c].asked = {}
      /\ \A k \in Keys : k \in cmd'[c].todo <=> InBase(cmd[c], k)
      /\ cmd'[c].dumps = {} /\ cmd'[c].looking = {} /\ cmd'[c].moves = {} /\ cmd'[c].puts = {}
  BY AfterRange DEF OInv
<1>2. /\ UNCHANGED <<nodes, routing, peers, gen, storage, claimed>>
      /\ UNCHANGED <<deletedData, sent, spilled>> /\ c \in Active
      /\ cmd[c].pc = "forget" /\ cmd[c].todo = {}
  BY DEF Plan, configVars, peerVars, dataVars, linkVars, Active
<1>3. \A k : (Stored(k)' = Stored(k)) /\ (InBase(cmd'[c], k) <=> InBase(cmd[c], k))
  BY <1>1, <1>2 DEF Stored, InBase
<1>4. Onward
  BY <1>1, <1>2, <1>3, OnwardStill
<1>5. \A k \in Keys : ~Stored(k)
  BY <1>2 DEF OInv, Overlap, Gathered
<1>6. ASSUME NEW k \in Keys \ spilled' PROVE Safe(k)' \/ Found(cmd[c], k)'
  <2>1. Kept(k) /\ Flights
    BY <1>2 DEF OInv, Overlap
  <2>2. Safe(k) => Safe(k)'
    BY <1>4 DEF Onward
  <2>3. ASSUME NEW n \in nodes, k \in storage[n] PROVE Found(cmd[c], k)'
    BY <1>1, <1>2, <2>3 DEF Found
  <2>4. ASSUME NEW n \in nodes, Pending(n, k) PROVE Safe(k)
    <3>1. n = Own(k)
      BY <2>1, <2>4 DEF Pending, Flights
    <3>2. QED
      BY <2>4, <3>1 DEF AtHome, Safe
  <2>5. ASSUME NEW d \in Commands, InBase(cmd[d], k) PROVE Safe(k)
    BY <2>5 DEF Safe
  <2>6. QED
    BY <1>5, <2>1, <2>2, <2>3, <2>4, <2>5 DEF Kept, Stored, InBase
<1>7. Gathered(c)'
  BY <1>1, <1>3, <1>5, <1>6 DEF Gathered, Through
<1>8. Plans(cmd[c])'
  BY <1>1, <1>2, <1>3 DEF Plans
<1>9. Alone(c)'
  BY <1>1, <1>2, AloneGoesOn
<1>10. QED
  BY <1>1, <1>2, <1>3, <1>4, <1>7, <1>8, <1>9, FlightsStay, GoesOn

\* A step of a migration at its dumps: it goes on to know of every key it knew
\* of, or the key is safe.
LEMMA DumpGoesOn ==
    ASSUME OInv, ~mixed, IInv', NEW c \in Commands, Others(c), cmd[c].pc = "dump", cmd'[c].pc = "dump",
           cmd'[c].base = cmd[c].base, cmd'[c].kind = cmd[c].kind,
           UNCHANGED <<nodes, routing, peers, gen, storage, claimed>>,
           UNCHANGED <<deletedData, sent, spilled>>, Plans(cmd[c])',
           \A k \in Keys : Found(cmd[c], k) => Found(cmd[c], k)' \/ Safe(k)
    PROVE  Overlap'
<1>1. c \in Active
  BY DEF Active
<1>2. \A k : (Stored(k)' = Stored(k)) /\ (InBase(cmd'[c], k) <=> InBase(cmd[c], k))
  BY DEF Stored, InBase
<1>3. Onward
  BY <1>2, OnwardStill
<1>4. Alone(c)'
  BY <1>1, AloneGoesOn
<1>5. Gathered(c)'
  <2>1. \A k \in Keys : ~Stored(k)
    BY DEF OInv, Overlap, Gathered
  <2>2. \A k \in Keys \ spilled : Safe(k) \/ Found(cmd[c], k)
    BY DEF OInv, Overlap, Gathered
  <2>3. \A k \in Keys \ spilled' : Safe(k) => Safe(k)'
    BY <1>3 DEF Onward
  <2>4. QED
    BY <1>2, <2>1, <2>2, <2>3 DEF Gathered, Through
<1>6. QED
  BY <1>1, <1>2, <1>3, <1>4, <1>5, FlightsStay, GoesOn

LEMMA PlaceKeeps ==
    ASSUME OInv, ~mixed, IInv', NEW c \in Commands, NEW k \in Keys, Place(c, k)
    PROVE  Overlap'
<1>1. /\ Others(c) /\ cmd'[c].pc = "dump" /\ cmd'[c].base = cmd[c].base
      /\ cmd'[c].kind = cmd[c].kind /\ cmd'[c].todo = cmd[c].todo \ {k}
      /\ cmd'[c].puts = cmd[c].puts \cup {<<FindShard(k), k>>}
      /\ cmd'[c].ask = cmd[c].ask /\ cmd'[c].asked = cmd[c].asked /\ cmd'[c].dumps = cmd[c].dumps
      /\ cmd'[c].looking = cmd[c].looking /\ cmd'[c].moves = cmd[c].moves
  BY AfterDump DEF OInv
<1>2. /\ UNCHANGED <<nodes, routing, peers, gen, storage, claimed>> /\ cmd[c].pc = "dump"
      /\ UNCHANGED <<deletedData, sent, spilled>>
  BY DEF Place, configVars, peerVars, dataVars, linkVars
<1>3. Plans(cmd[c])
  BY DEF OInv, Overlap
<1>4. /\ \A j : Own(j)' = Own(j) /\ FindShard(j)' = FindShard(j) /\ AtHome(j)' = AtHome(j)
      /\ \A n : Peer(n)' = Peer(n)
      /\ {Peer(n) : n \in nodes}' = {Peer(n) : n \in nodes}
  BY <1>2, SameConfig, SameHomes
<1>5. Plans(cmd[c])'
  <2>1. \A p \in cmd'[c].puts : p[1] = FindShard(p[2])'
    BY <1>1, <1>2, <1>3, <1>4 DEF Plans
  <2>2. ASSUME NEW j \in Keys, InBase(cmd'[c], j)
        PROVE  j \in cmd'[c].todo \/ \E p \in cmd'[c].puts : p[2] = j
    <3>1. CASE j = k
      <4>1. <<FindShard(k), k>> \in cmd'[c].puts
        BY <1>1
      <4>2. QED
        BY <3>1, <4>1
    <3>2. CASE j # k
      BY <1>1, <1>2, <1>3, <2>2, <3>2 DEF Plans, InBase
    <3>3. QED
      BY <3>1, <3>2
  <2>3. \A m \in cmd'[c].moves : <<m.new, m.key>> \in cmd'[c].puts /\ m.old # FindShard(m.key)'
    BY <1>1, <1>2, <1>3, <1>4 DEF Plans
  <2>4. /\ cmd'[c].ask \subseteq nodes' /\ cmd'[c].asked \subseteq {Peer(n) : n \in nodes}'
        /\ \A d \in cmd'[c].dumps : /\ d[1] \in nodes' /\ Peer(d[1])' # Nil
                                    /\ d[1] = Own(d[2])' => AtHome(d[2])'
    BY <1>1, <1>2, <1>3, <1>4 DEF Plans
  <2>5. /\ \A f \in cmd'[c].looking : /\ f.node \in nodes' /\ Peer(f.node)' # Nil
                                      /\ f.new = FindShard(f.key)'
                                      /\ f.node = Own(f.key)' => AtHome(f.key)'
        /\ \A f, g \in cmd'[c].looking : f = g
    BY <1>1, <1>2, <1>3, <1>4 DEF Plans
  <2>6. QED
    BY <1>1, <2>1, <2>2, <2>3, <2>4, <2>5 DEF Plans
<1>6. \A j \in Keys : Found(cmd[c], j) => Found(cmd[c], j)'
  BY <1>1, <1>2, <1>4 DEF Found
<1>7. QED
  BY <1>1, <1>2, <1>5, <1>6, DumpGoesOn

LEMMA AskKeeps ==
    ASSUME OInv, ~mixed, IInv', NEW c \in Commands, NEW n \in cmd[c].ask, Ask(c, n)
    PROVE  Overlap'
<1>1. /\ Others(c) /\ cmd'[c].pc = "dump" /\ cmd'[c].base = cmd[c].base
      /\ cmd'[c].kind = cmd[c].kind /\ cmd'[c].todo = cmd[c].todo
      /\ cmd'[c].ask = cmd[c].ask \ {n}
      /\ cmd'[c].asked = cmd[c].asked \cup {GetConnectionByNodeId(n)}
      /\ cmd'[c].dumps = cmd[c].dumps /\ cmd'[c].looking = cmd[c].looking
      /\ cmd'[c].puts = cmd[c].puts /\ cmd'[c].moves = cmd[c].moves
  BY AfterDump DEF OInv
<1>2. /\ UNCHANGED <<nodes, routing, peers, gen, storage, claimed>> /\ cmd[c].pc = "dump"
      /\ UNCHANGED <<deletedData, sent, spilled>>
  BY DEF Ask, configVars, peerVars, dataVars, linkVars
<1>3. Plans(cmd[c])
  BY DEF OInv, Overlap
<1>4. /\ \A k : Own(k)' = Own(k) /\ FindShard(k)' = FindShard(k) /\ AtHome(k)' = AtHome(k)
      /\ \A m : Peer(m)' = Peer(m)
      /\ {Peer(m) : m \in nodes}' = {Peer(m) : m \in nodes}
  BY <1>2, SameConfig, SameHomes
<1>5. n \in nodes /\ GetConnectionByNodeId(n) = Peer(n)
  BY <1>2, <1>3 DEF Plans, GetConnectionByNodeId
<1>6. Plans(cmd[c])'
  <2>1. cmd'[c].ask \subseteq nodes' /\ cmd'[c].asked \subseteq {Peer(m) : m \in nodes}'
    BY <1>1, <1>2, <1>3, <1>4, <1>5 DEF Plans
  <2>2. /\ \A p \in cmd'[c].puts : p[1] = FindShard(p[2])'
        /\ \A k \in Keys : InBase(cmd'[c], k) => k \in cmd'[c].todo \/ \E p \in cmd'[c].puts : p[2] = k
        /\ \A m \in cmd'[c].moves : <<m.new, m.key>> \in cmd'[c].puts /\ m.old # FindShard(m.key)'
    BY <1>1, <1>2, <1>3, <1>4 DEF Plans, InBase
  <2>3. \A d \in cmd'[c].dumps : /\ d[1] \in nodes' /\ Peer(d[1])' # Nil
                                 /\ d[1] = Own(d[2])' => AtHome(d[2])'
    BY <1>1, <1>2, <1>3, <1>4 DEF Plans
  <2>4. /\ \A f \in cmd'[c].looking : /\ f.node \in nodes' /\ Peer(f.node)' # Nil
                                      /\ f.new = FindShard(f.key)'
                                      /\ f.node = Own(f.key)' => AtHome(f.key)'
        /\ \A f, g \in cmd'[c].looking : f = g
    BY <1>1, <1>2, <1>3, <1>4 DEF Plans
  <2>5. QED
    BY <1>1, <2>1, <2>2, <2>3, <2>4 DEF Plans
<1>7. ASSUME NEW k \in Keys, Found(cmd[c], k) PROVE Found(cmd[c], k)'
  <2>1. ASSUME NEW m \in nodes, k \in storage[m], m \in cmd[c].ask \/ Peer(m) \in cmd[c].asked
        PROVE  m \in cmd'[c].ask \/ Peer(m)' \in cmd'[c].asked
    BY <1>1, <1>4, <1>5, <2>1
  <2>2. QED
    BY <1>1, <1>2, <1>7, <2>1 DEF Found
<1>8. QED
  BY <1>1, <1>2, <1>6, <1>7, DumpGoesOn

\* Connections of nodes that are dialled are different.
LEMMA PeersDiffer ==
    ASSUME NEW m, NEW n, Peer(m) # Nil, Peer(m) = Peer(n)
    PROVE  m = n /\ Peer(m)[1] = m
BY DEF Peer

LEMMA TakeDumpKeeps ==
    ASSUME OInv, ~mixed, IInv', NEW c \in Commands, NEW x \in cmd[c].asked, TakeDump(c, x)
    PROVE  Overlap'
<1>1. /\ Others(c) /\ cmd'[c].pc = "dump" /\ cmd'[c].base = cmd[c].base
      /\ cmd'[c].kind = cmd[c].kind /\ cmd'[c].todo = cmd[c].todo
      /\ cmd'[c].ask = cmd[c].ask /\ cmd'[c].asked = cmd[c].asked \ {x}
      /\ cmd'[c].dumps = cmd[c].dumps \cup ({x[1]} \X storage[x[1]])
      /\ cmd'[c].puts = cmd[c].puts /\ cmd'[c].moves = cmd[c].moves
      /\ cmd'[c].looking = cmd[c].looking
  BY AfterDump DEF OInv
<1>2. /\ UNCHANGED <<nodes, routing, peers, gen, storage, claimed>> /\ cmd[c].pc = "dump"
      /\ UNCHANGED <<deletedData, sent, spilled>> /\ Live(x)
  BY DEF TakeDump, configVars, peerVars, dataVars, linkVars
<1>3. Plans(cmd[c])
  BY DEF OInv, Overlap
<1>4. /\ \A k : Own(k)' = Own(k) /\ FindShard(k)' = FindShard(k) /\ AtHome(k)' = AtHome(k)
      /\ \A n : Peer(n)' = Peer(n)
      /\ {Peer(n) : n \in nodes}' = {Peer(n) : n \in nodes}
  BY <1>2, SameConfig, SameHomes
<1>5. PICK m \in nodes : x = Peer(m)
  BY <1>2, <1>3 DEF Plans
<1>6. Peer(m) # Nil /\ x[1] = m
  BY <1>2, <1>5, PeersDiffer DEF Live
<1>7. \A d \in {x[1]} \X storage[x[1]] : d[1] = m /\ d[2] \in storage[m]
  BY <1>6
<1>8. Plans(cmd[c])'
  <2>1. ASSUME NEW d \in cmd'[c].dumps
        PROVE  d[1] \in nodes /\ Peer(d[1]) # Nil /\ (d[1] = Own(d[2]) => AtHome(d[2]))
    <3>1. CASE d \in cmd[c].dumps
      BY <1>2, <1>3, <3>1 DEF Plans
    <3>2. CASE d \in {x[1]} \X storage[x[1]]
      BY <1>6, <1>7, <3>2 DEF AtHome
    <3>3. QED
      BY <1>1, <3>1, <3>2
  <2>2. /\ \A p \in cmd'[c].puts : p[1] = FindShard(p[2])'
        /\ \A k \in Keys : InBase(cmd'[c], k) => k \in cmd'[c].todo \/ \E p \in cmd'[c].puts : p[2] = k
        /\ \A k \in cmd'[c].moves : <<k.new, k.key>> \in cmd'[c].puts /\ k.old # FindShard(k.key)'
    BY <1>1, <1>2, <1>3, <1>4 DEF Plans, InBase
  <2>3. cmd'[c].ask \subseteq nodes' /\ cmd'[c].asked \subseteq {Peer(n) : n \in nodes}'
    BY <1>1, <1>2, <1>3, <1>4 DEF Plans
  <2>4. /\ \A f \in cmd'[c].looking : /\ f.node \in nodes' /\ Peer(f.node)' # Nil
                                      /\ f.new = FindShard(f.key)'
                                      /\ f.node = Own(f.key)' => AtHome(f.key)'
        /\ \A f, g \in cmd'[c].looking : f = g
    BY <1>1, <1>2, <1>3, <1>4 DEF Plans
  <2>5. \A d \in cmd'[c].dumps : /\ d[1] \in nodes' /\ Peer(d[1])' # Nil
                                 /\ d[1] = Own(d[2])' => AtHome(d[2])'
    BY <1>2, <1>4, <2>1
  <2>6. QED
    BY <1>1, <2>2, <2>3, <2>4, <2>5 DEF Plans
<1>9. ASSUME NEW k \in Keys, Found(cmd[c], k) PROVE Found(cmd[c], k)'
  <2>1. ASSUME NEW n \in nodes, k \in storage[n], n \in cmd[c].ask \/ Peer(n) \in cmd[c].asked
        PROVE  Found(cmd[c], k)'
    <3>1. CASE n = m
      <4>1. <<m, k>> \in cmd'[c].dumps
        BY <1>1, <1>6, <2>1, <3>1
      <4>2. QED
        BY <4>1 DEF Found
    <3>2. CASE n # m
      <4>1. Peer(n) # x
        BY <1>5, <1>6, <3>2, PeersDiffer
      <4>2. n \in cmd'[c].ask \/ Peer(n)' \in cmd'[c].asked
        BY <1>1, <1>4, <2>1, <4>1
      <4>3. QED
        BY <1>2, <2>1, <4>2 DEF Found
    <3>3. QED
      BY <3>1, <3>2
  <2>2. QED
    BY <1>1, <1>9, <2>1 DEF Found
<1>10. QED
  BY <1>1, <1>2, <1>8, <1>9, DumpGoesOn

LEMMA LookUpNewKeeps ==
    ASSUME OInv, ~mixed, IInv', NEW c \in Commands, NEW d \in cmd[c].dumps, LookUpNew(c, d)
    PROVE  Overlap'
<1>1. /\ Others(c) /\ cmd'[c].pc = "dump" /\ cmd[c].pc = "dump" /\ cmd'[c].base = cmd[c].base
      /\ cmd'[c].kind = cmd[c].kind /\ cmd'[c].todo = cmd[c].todo
      /\ cmd'[c].ask = cmd[c].ask /\ cmd'[c].asked = cmd[c].asked
      /\ cmd'[c].dumps = cmd[c].dumps \ {d}
      /\ cmd'[c].puts = cmd[c].puts /\ cmd'[c].moves = cmd[c].moves
      /\ cmd'[c].looking = {[node |-> d[1], key |-> d[2], new |-> FindShard(d[2])]}
  BY AfterDump DEF OInv
<1>2. /\ UNCHANGED <<nodes, routing, peers, gen, storage, claimed>>
      /\ UNCHANGED <<deletedData, sent, spilled>> /\ cmd[c].looking = {}
  BY DEF LookUpNew, configVars, peerVars, dataVars, linkVars
<1>3. Plans(cmd[c])
  BY DEF OInv, Overlap
<1>4. /\ \A k : Own(k)' = Own(k) /\ FindShard(k)' = FindShard(k) /\ AtHome(k)' = AtHome(k)
      /\ \A n : Peer(n)' = Peer(n)
      /\ {Peer(n) : n \in nodes}' = {Peer(n) : n \in nodes}
  BY <1>2, SameConfig, SameHomes
<1>5. Plans(cmd[c])'
  <2>1. d[1] \in nodes /\ Peer(d[1]) # Nil /\ (d[1] = Own(d[2]) => AtHome(d[2]))
    BY <1>1, <1>3 DEF Plans
  <2>2. ASSUME NEW f \in cmd'[c].looking
        PROVE  /\ f.node \in nodes /\ Peer(f.node) # Nil /\ f.new = FindShard(f.key)
               /\ f.node = Own(f.key) => AtHome(f.key)
    BY <1>1, <2>1
  <2>3. \A f, g \in cmd'[c].looking : f = g
    BY <1>1
  <2>4. /\ \A p \in cmd'[c].puts : p[1] = FindShard(p[2])'
        /\ \A k \in Keys : InBase(cmd'[c], k) => k \in cmd'[c].todo \/ \E p \in cmd'[c].puts : p[2] = k
        /\ \A m \in cmd'[c].moves : <<m.new, m.key>> \in cmd'[c].puts /\ m.old # FindShard(m.key)'
    BY <1>1, <1>3, <1>4 DEF Plans, InBase
  <2>5. /\ cmd'[c].ask \subseteq nodes' /\ cmd'[c].asked \subseteq {Peer(n) : n \in nodes}'
        /\ \A e \in cmd'[c].dumps : /\ e[1] \in nodes' /\ Peer(e[1])' # Nil
                                    /\ e[1] = Own(e[2])' => AtHome(e[2])'
    BY <1>1, <1>2, <1>3, <1>4 DEF Plans
  <2>6. QED
    BY <1>1, <1>2, <1>4, <2>2, <2>3, <2>4, <2>5 DEF Plans
<1>6. ASSUME NEW k \in Keys, Found(cmd[c], k) PROVE Found(cmd[c], k)'
  <2>1. CASE d[2] = k
    <3>1. \E f \in cmd'[c].looking : f.key = k
      BY <1>1, <2>1
    <3>2. QED
      BY <3>1 DEF Found
  <2>2. CASE d[2] # k
    BY <1>1, <1>2, <1>4, <1>6, <2>2 DEF Found
  <2>3. QED
    BY <2>1, <2>2
<1>7. QED
  BY <1>1, <1>2, <1>5, <1>6, DumpGoesOn

\* The two connections are equal when the key is at home only.
LEMMA LookUpOldKeeps ==
    ASSUME OInv, ~mixed, IInv', NEW c \in Commands, LookUpOld(c)
    PROVE  Overlap'
<1>1. PICK f \in cmd[c].looking :
         LET old == GetConnectionByNodeId(f.node)
         IN  /\ Others(c) /\ cmd'[c].pc = "dump" /\ cmd[c].pc = "dump"
             /\ cmd'[c].base = cmd[c].base /\ cmd'[c].kind = cmd[c].kind
             /\ cmd'[c].todo = cmd[c].todo /\ cmd'[c].ask = cmd[c].ask
             /\ cmd'[c].asked = cmd[c].asked /\ cmd'[c].dumps = cmd[c].dumps
             /\ cmd'[c].looking = {}
             /\ cmd'[c].puts = cmd[c].puts \cup IF f.new # old THEN {<<f.new, f.key>>} ELSE {}
             /\ cmd'[c].moves = cmd[c].moves \cup
                   IF f.new # old THEN {[key |-> f.key, new |-> f.new, old |-> old]} ELSE {}
  BY AfterLookUpOld DEF OInv
<1>2. /\ UNCHANGED <<nodes, routing, peers, gen, storage, claimed>>
      /\ UNCHANGED <<deletedData, sent, spilled>>
  BY DEF LookUpOld, configVars, peerVars, dataVars, linkVars
<1>3. Plans(cmd[c])
  BY DEF OInv, Overlap
<1>4. /\ \A k : Own(k)' = Own(k) /\ FindShard(k)' = FindShard(k) /\ AtHome(k)' = AtHome(k)
      /\ \A n : Peer(n)' = Peer(n)
      /\ {Peer(n) : n \in nodes}' = {Peer(n) : n \in nodes}
  BY <1>2, SameConfig, SameHomes
<1>5. /\ f.node \in nodes /\ Peer(f.node) # Nil /\ f.new = FindShard(f.key)
      /\ f.node = Own(f.key) => AtHome(f.key)
      /\ \A g \in cmd[c].looking : g = f
  BY <1>1, <1>3 DEF Plans
<1>. DEFINE old == GetConnectionByNodeId(f.node)
<1>6. old = Peer(f.node) /\ f.new = Peer(Own(f.key))
  BY <1>5 DEF GetConnectionByNodeId, FindShard, Own
<1>. HIDE DEF old
<1>7. /\ Others(c) /\ cmd'[c].pc = "dump" /\ cmd[c].pc = "dump"
      /\ cmd'[c].base = cmd[c].base /\ cmd'[c].kind = cmd[c].kind
      /\ cmd'[c].todo = cmd[c].todo /\ cmd'[c].ask = cmd[c].ask
      /\ cmd'[c].asked = cmd[c].asked /\ cmd'[c].dumps = cmd[c].dumps
      /\ cmd'[c].looking = {}
      /\ cmd'[c].puts = cmd[c].puts \cup IF f.new # old THEN {<<f.new, f.key>>} ELSE {}
      /\ cmd'[c].moves = cmd[c].moves \cup
            IF f.new # old THEN {[key |-> f.key, new |-> f.new, old |-> old]} ELSE {}
  BY <1>1 DEF old
<1>8. f.new = old => Safe(f.key)
  BY <1>5, <1>6, PeersDiffer DEF Safe
<1>9. f.new # old => <<f.new, f.key>> \in cmd'[c].puts
  BY <1>7
<1>10. Plans(cmd[c])'
  <2>1. \A p \in cmd'[c].puts : p[1] = FindShard(p[2])'
    <3>1. ASSUME NEW p \in cmd'[c].puts PROVE p[1] = FindShard(p[2])
      <4>1. CASE p \in cmd[c].puts
        BY <1>3, <1>7, <4>1 DEF Plans
      <4>2. CASE p = <<f.new, f.key>>
        BY <1>5, <4>2
      <4>3. QED
        BY <1>7, <4>1, <4>2
    <3>2. QED
      BY <1>4, <3>1
  <2>2. \A k \in Keys : InBase(cmd'[c], k) => k \in cmd'[c].todo \/ \E p \in cmd'[c].puts : p[2] = k
    BY <1>3, <1>7 DEF Plans, InBase
  <2>3. ASSUME NEW m \in cmd'[c].moves
        PROVE  <<m.new, m.key>> \in cmd'[c].puts /\ m.old # FindShard(m.key)'
    <3>1. CASE m \in cmd[c].moves
      BY <1>3, <1>4, <1>7, <3>1 DEF Plans
    <3>2. CASE f.new # old /\ m = [key |-> f.key, new |-> f.new, old |-> old]
      BY <1>4, <1>5, <1>9, <3>2
    <3>3. QED
      BY <1>7, <3>1, <3>2
  <2>4. /\ cmd'[c].ask \subseteq nodes' /\ cmd'[c].asked \subseteq {Peer(n) : n \in nodes}'
        /\ \A e \in cmd'[c].dumps : /\ e[1] \in nodes' /\ Peer(e[1])' # Nil
                                    /\ e[1] = Own(e[2])' => AtHome(e[2])'
    BY <1>2, <1>3, <1>4, <1>7 DEF Plans
  <2>5. QED
    BY <1>7, <2>1, <2>2, <2>3, <2>4 DEF Plans
<1>11. ASSUME NEW k \in Keys, Found(cmd[c], k) PROVE Found(cmd[c], k)' \/ Safe(k)
  <2>1. CASE k = f.key /\ f.new = old
    BY <1>8, <2>1
  <2>2. CASE k = f.key /\ f.new # old
    <3>1. \E p \in cmd'[c].puts : p[2] = k
      BY <1>9, <2>2
    <3>2. QED
      BY <3>1 DEF Found
  <2>3. CASE k # f.key
    <3>1. ~\E g \in cmd[c].looking : g.key = k
      BY <1>5, <2>3
    <3>2. QED
      BY <1>2, <1>4, <1>7, <1>11, <3>1 DEF Found
  <2>4. QED
    BY <2>1, <2>2, <2>3
<1>12. QED
  BY <1>2, <1>7, <1>10, <1>11, DumpGoesOn

----------------------------------------------------------------------------
(* Steps of a migration with its puts and deletes. *)

LEMMA StartPutsKeeps ==
    ASSUME OInv, ~mixed, IInv', NEW c \in Commands, StartPuts(c)
    PROVE  Overlap'
<1>. DEFINE puts == Requests(c, "put", cmd[c].puts)
<1>1. /\ Others(c) /\ cmd'[c].pc = "put" /\ cmd'[c].base = cmd[c].base
      /\ cmd'[c].kind = cmd[c].kind /\ cmd'[c].todo = cmd[c].todo
      /\ cmd'[c].puts = cmd[c].puts /\ cmd'[c].moves = cmd[c].moves /\ cmd'[c].wait = puts
  BY AfterRequests DEF OInv
<1>2. /\ UNCHANGED <<nodes, routing, peers, gen, storage, claimed>>
      /\ UNCHANGED <<deletedData, spilled>> /\ c \in Active
      /\ cmd[c].pc = "dump" /\ cmd[c].ask = {} /\ cmd[c].asked = {}
      /\ cmd[c].dumps = {} /\ cmd[c].looking = {}
      /\ sent' = sent \cup {r \in puts : Live(r.to)}
  BY DEF StartPuts, Planned, configVars, peerVars, dataVars, Active
<1>3. Plans(cmd[c]) /\ Gathered(c) /\ Flights
  BY DEF OInv, Overlap
<1>4. /\ \A k : Own(k)' = Own(k) /\ FindShard(k)' = FindShard(k) /\ AtHome(k)' = AtHome(k)
      /\ \A x : Live(x)' = Live(x)
      /\ \A k : (Stored(k)' = Stored(k)) /\ (InBase(cmd'[c], k) <=> InBase(cmd[c], k))
  BY <1>1, <1>2, SameConfig, SameHomes DEF Stored, InBase
<1>5. ASSUME NEW r \in puts
      PROVE  r.kind = "put" /\ <<r.to, r.key>> \in cmd[c].puts /\ r.to = FindShard(r.key)
  <2>1. PICK p \in cmd[c].puts : r = [cmd |-> c, kind |-> "put", to |-> p[1], key |-> p[2]]
    BY DEF Requests
  <2>2. p = <<p[1], p[2]>> /\ p[1] = FindShard(p[2])
    BY <1>2, <1>3, LocalTypes DEF Plans, OInv
  <2>3. QED
    BY <2>1, <2>2
<1>6. ASSUME NEW p \in cmd[c].puts PROVE \E r \in puts : r.key = p[2]
  <2>1. [cmd |-> c, kind |-> "put", to |-> p[1], key |-> p[2]] \in puts
    BY DEF Requests
  <2>2. QED
    BY <2>1
<1>. HIDE DEF puts
<1>7. Onward
  BY <1>1, <1>2, <1>4, OnwardStill
<1>8. Plans(cmd[c])'
  <2>1. \A p \in cmd'[c].puts : p[1] = FindShard(p[2])'
    BY <1>1, <1>2, <1>3, <1>4 DEF Plans
  <2>2. \A k \in Keys : InBase(cmd'[c], k) => k \in cmd'[c].todo \/ \E p \in cmd'[c].puts : p[2] = k
    BY <1>1, <1>2, <1>3 DEF Plans, InBase
  <2>3. \A m \in cmd'[c].moves : <<m.new, m.key>> \in cmd'[c].puts /\ m.old # FindShard(m.key)'
    BY <1>1, <1>2, <1>3, <1>4 DEF Plans
  <2>4. \A p \in cmd'[c].puts : \E r \in cmd'[c].wait : r.key = p[2]
    BY <1>1, <1>6
  <2>5. \A r \in cmd'[c].wait : Live(r.to)' => r \in sent'
    BY <1>1, <1>2, <1>4
  <2>6. QED
    BY <1>1, <2>1, <2>2, <2>3, <2>4, <2>5 DEF Plans
<1>9. Gathered(c)'
  <2>1. \A k \in Keys \ spilled' : Safe(k) \/ \E p \in cmd[c].puts : p[2] = k
    BY <1>2, <1>3 DEF Gathered, Found
  <2>2. \A k \in Keys : ~Stored(k)
    BY <1>2, <1>3 DEF Gathered
  <2>3. \A k \in Keys \ spilled' : Safe(k) => Safe(k)'
    BY <1>7 DEF Onward
  <2>4. QED
    BY <1>1, <1>4, <2>1, <2>2, <2>3 DEF Gathered, Through
<1>10. Flights'
  <2>1. ASSUME NEW r \in puts, Live(r.to) PROVE r.kind = "put" /\ r.to[1] = Own(r.key)
    <3>1. r.to = Peer(Own(r.key)) /\ r.to # Nil
      BY <1>5, <2>1 DEF FindShard, Own, Live
    <3>2. QED
      BY <1>5, <3>1, PeersDiffer
  <2>2. ASSUME NEW r \in sent' \cup claimed'
        PROVE  r \in sent \cup claimed \/ (r \in puts /\ Live(r.to))
    <3>1. r \in sent' \/ r \in claimed
      BY <1>2
    <3>2. CASE r \in sent'
      BY <1>2, <3>2
    <3>3. QED
      BY <3>1, <3>2
  <2>3. QED
    BY <1>3, <1>4, <2>1, <2>2 DEF Flights
<1>11. Alone(c)'
  BY <1>1, <1>2, AloneGoesOn
<1>12. QED
  BY <1>1, <1>2, <1>4, <1>7, <1>8, <1>9, <1>10, <1>11, GoesOn

\* The deletes go to other nodes, when all keys are at home.
LEMMA StartDeletesKeeps ==
    ASSUME OInv, ~mixed, IInv', NEW c \in Commands, StartDeletes(c)
    PROVE  Overlap'
<1>. DEFINE deletes == Requests(c, "delete", {<<m.old, m.key>> : m \in cmd[c].moves})
<1>1. /\ Others(c) /\ cmd'[c].pc = "delete" /\ cmd'[c].kind = cmd[c].kind
  BY AfterRequests DEF OInv
<1>2. /\ UNCHANGED <<nodes, routing, peers, gen, storage, claimed>>
      /\ UNCHANGED <<deletedData, spilled>>
      /\ cmd[c].pc = "put" /\ c \in Active /\ cmd[c].wait = {}
      /\ sent' = sent \cup {r \in deletes : Live(r.to)}
  BY DEF StartDeletes, configVars, peerVars, dataVars, Active
<1>3. /\ Plans(cmd[c]) /\ Gathered(c) /\ Flights /\ IInv
      /\ cmd[c].moves \subseteq MoveType /\ cmd[c].todo = {}
  <2>1. IInv /\ Plans(cmd[c]) /\ Gathered(c) /\ Flights
    BY DEF OInv, Overlap
  <2>2. Stages(cmd[c])
    BY <2>1 DEF IInv, Good
  <2>3. QED
    BY <1>2, <2>1, <2>2, LocalTypes DEF Stages
<1>4. \A p \in cmd[c].puts : AtHome(p[2])
  BY <1>2, <1>3 DEF Plans
<1>5. \A k \in Keys : InBase(cmd[c], k) => AtHome(k)
  BY <1>2, <1>3, <1>4 DEF Plans
<1>6. /\ \A k : Own(k)' = Own(k) /\ AtHome(k)' = AtHome(k)
      /\ \A k : Stored(k)' = Stored(k)
  BY <1>2, SameConfig, SameHomes DEF Stored
<1>7. Onward
  BY <1>1, <1>2, <1>5, <1>6, OnwardStill
<1>8. Alone(c)' /\ Plans(cmd[c])'
  BY <1>1, <1>2, AloneGoesOn DEF Plans
<1>9. Gathered(c)'
  <2>1. \A k \in Keys \ spilled' : Safe(k)'
    <3>1. \A k \in Keys \ spilled' : Safe(k)
      BY <1>2, <1>3, <1>4 DEF Gathered, Safe
    <3>2. QED
      BY <1>7, <3>1 DEF Onward
  <2>2. \A k \in Keys : ~Stored(k)'
    BY <1>2, <1>3, <1>6 DEF Gathered
  <2>3. QED
    BY <1>1, <2>1, <2>2 DEF Gathered
<1>10. Flights'
  <2>1. ASSUME NEW r \in deletes, Live(r.to)
        PROVE  r.kind = "delete" /\ r.to[1] # Own(r.key) /\ AtHome(r.key)
    <3>1. PICK m \in cmd[c].moves : r = [cmd |-> c, kind |-> "delete", to |-> m.old, key |-> m.key]
      BY DEF Requests
    <3>2. <<m.new, m.key>> \in cmd[c].puts /\ m.old # FindShard(m.key)
      BY <1>2, <1>3 DEF Plans
    <3>3. m.old = Peer(m.old[1]) /\ FindShard(m.key) = Peer(Own(m.key))
      BY <2>1, <3>1 DEF Live, FindShard, Own
    <3>4. AtHome(m.key)
      BY <1>4, <3>2
    <3>5. QED
      BY <3>1, <3>2, <3>3, <3>4
  <2>. HIDE DEF deletes
  <2>2. ASSUME NEW r \in sent' \cup claimed'
        PROVE  r \in sent \cup claimed \/ (r \in deletes /\ Live(r.to))
    <3>1. r \in sent' \/ r \in claimed
      BY <1>2
    <3>2. CASE r \in sent'
      BY <1>2, <3>2
    <3>3. QED
      BY <3>1, <3>2
  <2>3. QED
    BY <1>3, <1>6, <2>1, <2>2 DEF Flights
<1>11. QED
  BY <1>1, <1>2, <1>6, <1>7, <1>8, <1>9, <1>10, GoesOn

\* The end of a command: what it leaves of its base is at home or spilled.
LEMMA EndKeeps ==
    ASSUME OInv, ~mixed, IInv', NEW c \in Commands, Finish(c) \/ Fail(c)
    PROVE  Overlap'
<1>1. /\ Others(c) /\ cmd'[c].pc \in {"ok", "err"} /\ \A k \in Keys : ~InBase(cmd'[c], k)
      /\ cmd[c].pc \in {"victim", "dump", "put", "delete"}
      /\ cmd'[c].pc = "ok" => cmd[c].pc = "delete"
  BY AfterRequests DEF OInv
<1>2. /\ UNCHANGED <<nodes, routing, peers, gen, storage, claimed>>
      /\ UNCHANGED <<deletedData, sent>> /\ spilled \subseteq spilled' /\ c \in Active
  <2>1. CASE Finish(c)
    BY <1>1, <2>1 DEF Finish, configVars, peerVars, dataVars, linkVars, Active
  <2>2. CASE Fail(c)
    BY <1>1, <2>2 DEF Fail, configVars, peerVars, dataVars, linkVars, Active
  <2>3. QED
    BY <2>1, <2>2
<1>3. Plans(cmd[c]) /\ Gathered(c)
  BY DEF OInv, Overlap
<1>4. ASSUME NEW k \in Keys \ spilled', InBase(cmd[c], k) PROVE AtHome(k)
  <2>1. cmd[c].pc \in {"dump", "put"}
    BY <1>1, <1>4 DEF OInv, Order
  <2>2. Fail(c)
    BY <2>1 DEF Finish
  <2>3. cmd[c].pc = "put" /\ cmd[c].todo = {} /\ ~\E r \in cmd[c].wait : r.key = k
    BY <1>4, <2>1, <2>2 DEF Fail, Held, InBase
  <2>4. PICK p \in cmd[c].puts : p[2] = k
    BY <1>3, <1>4, <2>3 DEF Plans
  <2>5. QED
    BY <1>3, <2>3, <2>4 DEF Plans
<1>5. \A k : Stored(k)' = Stored(k)
  BY <1>2 DEF Stored
<1>6. Onward
  BY <1>1, <1>2, <1>4, <1>5, OnwardStill
<1>7. Alone(c)' /\ Plans(cmd[c])'
  BY <1>1 DEF Alone, Active, Plans
<1>8. Gathered(c)'
  <2>1. Through(c)' => \A k \in Keys \ spilled' : Safe(k)
    BY <1>1, <1>2, <1>3 DEF Through, Gathered
  <2>2. \A k \in Keys \ spilled' : Safe(k) => Safe(k)'
    BY <1>6 DEF Onward
  <2>3. QED
    BY <1>1, <2>1, <2>2 DEF Gathered
<1>9. QED
  BY <1>1, <1>2, <1>5, <1>6, <1>7, <1>8, FlightsStay, GoesOn

\* A put that is answered has been claimed.
LEMMA AnsweredKeeps ==
    ASSUME OInv, ~mixed, IInv', NEW c \in Commands, NEW r \in cmd[c].wait, Answered(r)
    PROVE  Overlap'
<1>. DEFINE d == r.cmd
<1>1. /\ d \in Commands /\ r \in cmd[d].wait /\ r \notin sent /\ Live(r.to)
      /\ cmd[d].pc \in {"put", "delete"}
      /\ Others(d) /\ cmd'[d].wait = cmd[d].wait \ {r}
      /\ cmd'[d].pc = cmd[d].pc /\ cmd'[d].kind = cmd[d].kind /\ cmd'[d].base = cmd[d].base
      /\ cmd'[d].todo = cmd[d].todo /\ cmd'[d].puts = cmd[d].puts /\ cmd'[d].moves = cmd[d].moves
  BY AfterAnswered DEF OInv
<1>. HIDE DEF d
<1>2. /\ UNCHANGED <<nodes, routing, peers, gen, storage, claimed>>
      /\ UNCHANGED <<deletedData, sent, spilled>> /\ d \in Active
  BY <1>1 DEF Answered, configVars, peerVars, dataVars, linkVars, Active
<1>3. Plans(cmd[d]) /\ Gathered(d)
  BY <1>1 DEF OInv, Overlap
<1>4. /\ \A k : Own(k)' = Own(k) /\ FindShard(k)' = FindShard(k) /\ AtHome(k)' = AtHome(k)
      /\ \A x : Live(x)' = Live(x)
      /\ \A k : (Stored(k)' = Stored(k)) /\ (InBase(cmd'[d], k) <=> InBase(cmd[d], k))
  BY <1>1, <1>2, SameConfig, SameHomes DEF Stored, InBase
<1>5. Onward
  BY <1>1, <1>2, <1>4, OnwardStill
<1>6. Plans(cmd[d])'
  <2>1. CASE cmd[d].pc = "put"
    <3>1. AtHome(r.key)
      BY <1>1, <1>3, <2>1 DEF Plans
    <3>2. \A p \in cmd'[d].puts : AtHome(p[2])' \/ \E q \in cmd'[d].wait : q.key = p[2]
      BY <1>1, <1>3, <1>4, <2>1, <3>1 DEF Plans
    <3>3. \A q \in cmd'[d].wait : Live(q.to)' => q \in sent' \/ AtHome(q.key)'
      BY <1>1, <1>2, <1>3, <1>4, <2>1 DEF Plans
    <3>4. /\ \A p \in cmd'[d].puts : p[1] = FindShard(p[2])'
          /\ \A k \in Keys : InBase(cmd'[d], k) => k \in cmd'[d].todo \/ \E p \in cmd'[d].puts : p[2] = k
          /\ \A m \in cmd'[d].moves : <<m.new, m.key>> \in cmd'[d].puts /\ m.old # FindShard(m.key)'
      BY <1>1, <1>3, <1>4, <2>1 DEF Plans
    <3>5. QED
      BY <1>1, <2>1, <3>2, <3>3, <3>4 DEF Plans
  <2>2. CASE cmd[d].pc = "delete"
    BY <1>1, <2>2 DEF Plans
  <2>3. QED
    BY <1>1, <2>1, <2>2
<1>7. Gathered(d)'
  <2>1. \A k \in Keys \ spilled' : Safe(k) => Safe(k)'
    BY <1>5 DEF Onward
  <2>2. QED
    BY <1>1, <1>2, <1>3, <1>4, <2>1 DEF Gathered, Through
<1>8. Alone(d)'
  BY <1>1, <1>2, AloneGoesOn
<1>9. QED
  BY <1>1, <1>2, <1>4, <1>5, <1>6, <1>7, <1>8, FlightsStay, GoesOn

----------------------------------------------------------------------------
(* Steps of the shards. *)

\* What a shard does keeps to all plans, if it keeps homes and the rest of the
\* requests on their way do.
LEMMA ShardGoesOn ==
    ASSUME OInv, ~mixed, IInv', UNCHANGED <<cmd, deletedData, spilled>>, Onward,
           sent \cup claimed # {}, sent' \cup claimed' \subseteq sent \cup claimed
    PROVE  Overlap'
<1>1. Active' = Active
  BY DEF Active
<1>2. ASSUME NEW d \in Commands PROVE Alone(d)'
  <2>1. Alone(d)
    BY DEF OInv, Overlap
  <2>2. QED
    BY <1>1, <2>1 DEF Alone, OInv, Order
<1>3. ASSUME NEW d \in Commands PROVE Plans(cmd[d])' /\ Gathered(d)'
  <2>1. Plans(cmd[d]) /\ Gathered(d) /\ IInv
    BY DEF OInv, Overlap
  <2>2. Through(d)' => Through(d)
    BY DEF Through, Migrates
  <2>3. QED
    BY <2>1, <2>2, RecordStays
<1>4. Flights'
  <2>1. ASSUME NEW r \in sent' \cup claimed'
        PROVE  /\ r.kind = "put" => r.to[1] = Own(r.key)'
               /\ r.kind = "delete" => r.to[1] # Own(r.key)' /\ AtHome(r.key)'
    <3>1. r \in sent \cup claimed /\ r.key \in Keys
      BY DEF OInv, IInv, Types, VarTypes, RequestType
    <3>2. Own(r.key)' = Own(r.key) /\ (AtHome(r.key) => AtHome(r.key)')
      BY <3>1, SameConfig DEF Onward
    <3>3. QED
      BY <3>1, <3>2 DEF OInv, Overlap, Flights
  <2>2. QED
    BY <2>1 DEF Flights
<1>5. \A k \in Keys \ spilled' : Kept(k)'
  BY KeptGoesOn DEF Stored
<1>6. QED
  BY <1>2, <1>3, <1>4, <1>5 DEF Overlap

LEMMA ClaimKeeps ==
    ASSUME OInv, ~mixed, IInv', NEW r \in sent, Claim(r)
    PROVE  Overlap'
<1>1. /\ UNCHANGED <<nodes, routing, peers, gen>> /\ UNCHANGED <<cmd, storage, deletedData, spilled>>
      /\ sent' = sent \ {r} /\ claimed' = claimed \cup {r}
  BY DEF Claim, configVars, peerVars, dataVars
<1>2. /\ r.kind = "put" => r.to[1] = Own(r.key)
      /\ r.kind = "delete" => AtHome(r.key)
      /\ r.key \in Keys /\ r.kind \in {"put", "delete"}
  BY DEF OInv, Overlap, Flights, IInv, Types, VarTypes, RequestType
<1>3. \A k : Own(k)' = Own(k)
  BY <1>1, SameConfig
<1>4. \A k \in Keys : AtHome(k) => AtHome(k)'
  BY <1>1, <1>3 DEF AtHome, Pending
<1>5. AtHome(r.key)'
  BY <1>1, <1>2, <1>3, <1>4 DEF AtHome, Pending
<1>6. Onward
  <2>1. \A k \in Keys : Safe(k) => Safe(k)'
    BY <1>1, <1>4 DEF Safe
  <2>2. \A q \in sent : q \in sent' \/ AtHome(q.key)'
    BY <1>1, <1>5
  <2>3. QED
    BY <1>1, <1>4, <2>1, <2>2 DEF Onward, Stored
<1>7. QED
  BY <1>1, <1>6, ShardGoesOn

\* A put brings its key home, and no delete takes one away.
LEMMA PerformKeeps ==
    ASSUME OInv, ~mixed, IInv', NEW r \in claimed, Perform(r)
    PROVE  Overlap'
<1>1. /\ UNCHANGED <<nodes, routing, peers, gen>> /\ UNCHANGED <<cmd, sent, deletedData, spilled>>
      /\ claimed' = claimed \ {r}
  BY DEF Perform, configVars, peerVars
<1>2. /\ r.kind = "put" => r.to[1] = Own(r.key)
      /\ r.kind = "delete" => r.to[1] # Own(r.key) /\ AtHome(r.key)
      /\ r.key \in Keys /\ r.kind \in {"put", "delete"} /\ r.to \in Connections
      /\ storage \in [Nodes -> SUBSET Keys]
  BY DEF OInv, Overlap, Flights, IInv, Types, VarTypes, RequestType
<1>3. \A n \in Nodes :
        storage'[n] = IF n # r.to[1] THEN storage[n]
                      ELSE IF r.kind = "put" THEN storage[n] \cup {r.key} ELSE storage[n] \ {r.key}
  BY <1>2 DEF Perform
<1>4. \A k \in Keys : Own(k)' = Own(k) /\ Own(k) \in Nodes
  BY <1>1, SameConfig, OwnIn DEF OInv
<1>5. ASSUME NEW k \in Keys, AtHome(k) PROVE AtHome(k)'
  <2>1. CASE k \in storage[Own(k)]
    BY <1>2, <1>3, <1>4, <2>1 DEF AtHome
  <2>2. CASE Pending(Own(k), k)
    <3>1. PICK q \in claimed : q.kind = "put" /\ q.key = k /\ q.to[1] = Own(k)
      BY <2>2 DEF Pending
    <3>2. CASE q = r
      BY <1>3, <1>4, <3>1, <3>2 DEF AtHome
    <3>3. CASE q # r
      BY <1>1, <1>4, <3>1, <3>3 DEF AtHome, Pending
    <3>4. QED
      BY <3>2, <3>3
  <2>3. QED
    BY <1>5, <2>1, <2>2 DEF AtHome
<1>6. ASSUME NEW k \in Keys, NEW n \in nodes, k \in storage[n]
      PROVE  k \in storage'[n] \/ AtHome(k)'
  <2>1. n \in Nodes
    BY DEF OInv, IInv, Types, VarTypes
  <2>2. k \in storage'[n] \/ (r.kind = "delete" /\ k = r.key)
    BY <1>2, <1>3, <1>6, <2>1
  <2>3. QED
    BY <1>2, <1>5, <2>2
<1>7. Onward
  <2>1. \A k \in Keys : Safe(k) => Safe(k)'
    BY <1>1, <1>5 DEF Safe
  <2>2. QED
    BY <1>1, <1>5, <1>6, <2>1 DEF Onward, Stored
<1>8. QED
  BY <1>1, <1>7, ShardGoesOn

----------------------------------------------------------------------------
(* The invariant of migrations that overlap. *)

LEMMA OverlapInit == ASSUME Init PROVE OInv
<1>1. cmd = [c \in Commands |-> Idle] /\ sent = {} /\ claimed = {}
  BY DEF Init
<1>2. \A c \in Commands : /\ cmd[c].pc = "idle" /\ cmd[c].kind = "none" /\ cmd[c].base = Nothing
  BY <1>1 DEF Idle
<1>3. \A c \in Commands, k \in Keys : ~InBase(cmd[c], k)
  BY <1>2, StampTypes DEF InBase
<1>4. Order
  BY <1>2, <1>3 DEF Order
<1>5. \A c \in Commands : Alone(c) /\ Plans(cmd[c]) /\ Gathered(c)
  BY <1>2 DEF Alone, Active, Plans, Gathered, Through
<1>6. Flights
  BY <1>1 DEF Flights
<1>7. ASSUME NEW k \in Keys PROVE Kept(k)
  <2>1. PICK homes \in [Keys -> SUBSET nodes] :
          /\ storage = [n \in Nodes |-> {j \in Keys : n \in homes[j]}]
          /\ \A j \in Keys : homes[j] = {} => deletedData[j] = Earlier
    BY DEF Init
  <2>2. CASE homes[k] = {}
    BY <2>1, <2>2, StampTypes DEF Kept
  <2>3. CASE homes[k] # {}
    <3>1. PICK n \in homes[k] : TRUE
      BY <2>3
    <3>2. n \in nodes /\ n \in Nodes
      BY <2>1, <3>1 DEF Init
    <3>3. k \in storage[n]
      BY <2>1, <3>1, <3>2
    <3>4. QED
      BY <3>2, <3>3 DEF Kept
  <2>4. QED
    BY <2>2, <2>3
<1>8. QED
  BY <1>4, <1>5, <1>6, <1>7, InvInit DEF OInv, Overlap

LEMMA OverlapNext == ASSUME OInv, [Next]_vars PROVE OInv'
<1>1. IInv' /\ Order'
  BY InvNext, OrderNext DEF OInv
<1>2. ASSUME ~mixed' PROVE Overlap'
  <2>1. ASSUME NEW c \in Commands,
               \/ \E n \in Nodes : AddNode(c, n) \/ RemoveNode(c, n)
               \/ \E r \in Routings : SetRouting(c, r) \/ Retune(c, r)
               \/ MigrateData(c)
        PROVE  Overlap'
    <3>1. CASE cmd'[c].kind = "migrateData"
      BY <1>1, <1>2, <2>1, <3>1, MigrateDataOverlaps
    <3>2. CASE cmd'[c].kind # "migrateData"
      BY <1>2, <2>1, <3>2, AloneStart
    <3>3. QED
      BY <3>1, <3>2
  <2>2. ASSUME NEW c \in Commands,
               \/ VictimDump(c) \/ DropVictim(c) \/ Apply(c) \/ Decide(c)
               \/ \E k \in cmd[c].todo : StoreDeleted(c, k)
        PROVE  Overlap'
    BY <1>2, <2>2, AloneEarly
  <2>3. ASSUME NEW c \in Commands, NEW k \in cmd[c].todo, Collect(c, k) \/ Forget(c, k) \/ Place(c, k)
        PROVE  Overlap'
    <3>1. ~mixed /\ k \in Keys
      BY <1>2, <2>3, LocalTypes DEF Collect, Forget, Place, OInv
    <3>2. QED
      BY <1>1, <2>3, <3>1, CollectKeeps, ForgetKeeps, PlaceKeeps
  <2>4. ASSUME NEW c \in Commands, Collected(c) \/ Plan(c) \/ LookUpOld(c) PROVE Overlap'
    <3>1. ~mixed
      BY <1>2, <2>4 DEF Collected, Plan, LookUpOld
    <3>2. QED
      BY <1>1, <2>4, <3>1, CollectedKeeps, PlanKeeps, LookUpOldKeeps
  <2>5. ASSUME NEW c \in Commands, NEW n \in cmd[c].ask, Ask(c, n) PROVE Overlap'
    <3>1. ~mixed
      BY <1>2, <2>5 DEF Ask
    <3>2. QED
      BY <1>1, <2>5, <3>1, AskKeeps
  <2>6. ASSUME NEW c \in Commands, NEW x \in cmd[c].asked, TakeDump(c, x) PROVE Overlap'
    <3>1. ~mixed
      BY <1>2, <2>6 DEF TakeDump
    <3>2. QED
      BY <1>1, <2>6, <3>1, TakeDumpKeeps
  <2>7. ASSUME NEW c \in Commands, NEW d \in cmd[c].dumps, LookUpNew(c, d) PROVE Overlap'
    <3>1. ~mixed
      BY <1>2, <2>7 DEF LookUpNew
    <3>2. QED
      BY <1>1, <2>7, <3>1, LookUpNewKeeps
  <2>8. ASSUME NEW c \in Commands, StartPuts(c) \/ StartDeletes(c) \/ Finish(c) \/ Fail(c)
        PROVE  Overlap'
    <3>1. ~mixed
      BY <1>2, <2>8 DEF StartPuts, StartDeletes, Finish, Fail
    <3>2. QED
      BY <1>1, <2>8, <3>1, StartPutsKeeps, StartDeletesKeeps, EndKeeps
  <2>9. ASSUME NEW c \in Commands, NEW r \in cmd[c].wait, Answered(r) PROVE Overlap'
    <3>1. ~mixed
      BY <1>2, <2>9 DEF Answered
    <3>2. QED
      BY <1>1, <2>9, <3>1, AnsweredKeeps
  <2>10. CASE (\E r \in sent : Claim(r)) \/ (\E r \in claimed : Perform(r))
    <3>1. ~mixed
      BY <1>2, <2>10 DEF Claim, Perform
    <3>2. QED
      BY <1>1, <2>10, <3>1, ClaimKeeps, PerformKeeps
  <2>11. CASE UNCHANGED vars
    <3>1. ~mixed /\ Overlap /\ IInv
      BY <1>2, <2>11 DEF vars, OInv
    <3>2. /\ UNCHANGED <<nodes, routing, peers, gen>> /\ UNCHANGED <<storage, deletedData, cmd>>
          /\ UNCHANGED <<sent, claimed, spilled>>
      BY <2>11 DEF vars, configVars, peerVars, dataVars, linkVars
    <3>3. /\ \A k : AtHome(k)' = AtHome(k) /\ Stored(k)' = Stored(k)
          /\ \A k : Safe(k)' = Safe(k)
      BY <3>2, SameHomes DEF Stored, Safe
    <3>4. Onward
      BY <3>2, <3>3 DEF Onward
    <3>5. ASSUME NEW d \in Commands PROVE Alone(d)' /\ Plans(cmd[d])' /\ Gathered(d)'
      <4>1. Alone(d) /\ Plans(cmd[d]) /\ Gathered(d)
        BY <3>1 DEF Overlap
      <4>2. Alone(d)'
        BY <3>2, <4>1 DEF Alone, Active, Stored, InBase
      <4>3. Through(d)' => Through(d)
        BY <3>2 DEF Through, Migrates
      <4>4. QED
        BY <3>1, <3>2, <3>4, <4>1, <4>2, <4>3, RecordStays
    <3>6. Flights'
      BY <3>1, <3>2, FlightsStay
    <3>7. \A k \in Keys \ spilled' : Kept(k)'
      BY <1>1, <3>1, <3>3, <3>4, KeptGoesOn
    <3>8. QED
      BY <3>5, <3>6, <3>7 DEF Overlap
  <2>12. QED
    BY <2>1, <2>2, <2>3, <2>4, <2>5, <2>6, <2>7, <2>8, <2>9, <2>10, <2>11 DEF Next, Command
<1>3. QED
  BY <1>1, <1>2 DEF OInv

----------------------------------------------------------------------------
(* What follows for migrations that overlap. *)

\* OverlapLosesNothing: however many migrations run at the same time, fail, or
\* have left requests that still arrive, and though a put is answered before it
\* is applied.
THEOREM OverlapLosesNothingHolds == Spec => []OverlapLosesNothing
<1>1. OInv => OverlapLosesNothing
  BY DEF OInv, Overlap, OverlapLosesNothing
<1>2. QED
  BY <1>1, OverlapInit, OverlapNext, PTL DEF Spec

\* LastMigrationPlaces: when no handler has a base any more, what is safe is at
\* its owner, or entered there.
THEOREM LastMigrationPlacesHolds == Spec => []LastMigrationPlaces
<1>1. OInv => LastMigrationPlaces
  <2>. SUFFICES ASSUME OInv, Active = {}, ~mixed, NEW c \in Commands,
                       Migrates(c), cmd[c].pc = "ok",
                       \A d \in Commands : d > c => cmd[d].pc = "idle",
                       NEW k \in Keys \ spilled
                PROVE  AtHome(k)
    BY DEF LastMigrationPlaces, AtHome, Own
  <2>1. Safe(k)
    BY DEF OInv, Overlap, Gathered, Through
  <2>2. \A d \in Commands : ~InBase(cmd[d], k)
    BY DEF OInv, Order, Active
  <2>3. QED
    BY <2>1, <2>2 DEF Safe
<1>2. QED
  BY <1>1, OverlapInit, OverlapNext, PTL DEF Spec

=============================================================================
