------------------------ MODULE OrchestratorProofs ------------------------
(***************************************************************************)
(* Theorems about Orchestrator, for every set of services, every depends_on*)
(* relation without cycles, any labels and restart policies, and any       *)
(* number of lost calls that may take effect late.                         *)
(*                                                                         *)
(* Container ids are used again, so the argument has to show that an       *)
(* operation never holds an id that now names another container: IInv says *)
(* that a name has one container, an operation holds at most one container *)
(* of a service, and MaxCopy leaves an id for the next one.                *)
(***************************************************************************)
EXTENDS Orchestrator, OrderingProofs

(***************************************************************************)
(* The state of the orchestrator.                                          *)
(***************************************************************************)
USE DEF Slot, Up

Container == [st : {"none", "created", "exited"} \cup Up, bound : BOOLEAN]

NodeType ==
    [net : BOOLEAN, vols : SUBSET Volume, images : SUBSET Service, cont : [Id -> Container]]

Actions == {"create-network", "remove-network", "create-volume", "image-exists", "pull-image",
            "list-containers", "create-container", "start-container", "stop-container",
            "remove-container", "inspect-container"}

CmdType == [do : Actions, name : Volume \cup Service \cup {NoService},
            id : Id \cup {NoId}, bound : BOOLEAN]

\* What a call of the orchestrator asks for.
CmdOK(c) ==
    /\ c \in CmdType
    /\ c.do = "create-volume" => c.name \in Volume
    /\ c.do \in {"pull-image", "create-container"} => c.name \in Service

LateType(l) == l \in [Slot -> CmdType \cup {NoCmd}] /\ \A k \in Slot : l[k] # NoCmd => CmdOK(l[k])

IdsOf(s) == {s} \X (1 .. MaxCopy)

PCs == {"idle", "network", "volumes", "exists", "pull", "list", "create", "start", "inspect",
        "undo stop", "undo remove", "undo network", "stop",
        "remove stop", "remove", "remove network"}

OpType ==
    [kind : {"none", "start", "stop", "remove"}, pc : PCs,
     todo : SUBSET (Volume \cup Service \cup Id), order : Seq(Service),
     primary : Service \cup {NoService}, existing : [Service -> Id \cup {NoId}],
     created : [Service -> Id \cup {NoId}], running : SUBSET Id, skipped : SUBSET Id,
     failed : BOOLEAN, result : {"none", "ok", "error"}]

\* The containers an operation holds are of the services it holds them for.
OwnIds(o) == \A s \in Service : o.created[s] \in {NoId} \cup IdsOf(s)
                                /\ o.existing[s] \in {NoId} \cup IdsOf(s)

\* What the list of things to do consists of at each place.
TodoOK(o) ==
    /\ o.pc = "volumes" => o.todo \subseteq Volume
    /\ o.pc \in {"exists", "pull"} => o.todo \subseteq Service
    /\ o.pc \in {"undo stop", "undo remove", "stop", "remove stop", "remove"} => o.todo \subseteq Id
    /\ o.pc \in {"idle", "network", "list", "create", "start", "inspect", "undo network",
                 "remove network"} => o.todo = {}
    /\ o.pc \in {"pull", "undo remove", "remove"} => o.todo # {}

\* Which operation is where, and when it holds containers.
PhaseOK(o) ==
    /\ o.pc = "idle" => o.kind = "none"
    /\ o.pc \in {"network", "volumes", "exists", "pull", "create", "start", "inspect", "undo stop",
                 "undo remove", "undo network"} => o.kind = "start"
    /\ o.pc = "list" => o.kind \in {"start", "stop", "remove"}
    /\ o.pc = "stop" => o.kind = "stop"
    /\ o.pc \in {"remove stop", "remove", "remove network"} => o.kind = "remove"
    /\ o.pc \notin {"create", "start", "inspect"} => \A s \in Service : o.existing[s] = NoId
    /\ o.pc \notin {"create", "start", "inspect", "undo stop", "undo remove", "undo network"} =>
          \A s \in Service : o.created[s] = NoId
    /\ o.pc \in {"start", "inspect"} => o.order # <<>>

TypeInv ==
    /\ deps \in Graphs /\ orders = Orders(Service, deps) /\ hidden \in Hidings
    /\ node \in NodeType /\ LateType(late)
    /\ op \in OpType /\ OwnIds(op) /\ TodoOK(op) /\ PhaseOK(op)
    /\ calm \in BOOLEAN /\ disturbed \in BOOLEAN

\* A name has one container, and an operation holds one container of a service.
ContsOf(n) == {i \in Id : n.cont[i].st # "none"}

OneEach(T) == \A i, j \in T : i[1] = j[1] => i = j

Holds(o, i) == i = o.created[i[1]] \/ i = o.existing[i[1]] \/ i \in o.todo

OneHeld(o) == OneEach({i \in Id : Holds(o, i)})

OneInv == OneEach(ContsOf(node)) /\ OneHeld(op)

\* While services are started: the ones that are to come are in an order, and
\* the others have containers, which are up if nothing has happened to them.
Starting == {"create", "start", "inspect"}

InOrder(d, o) ==
    o.pc \in Starting =>
        /\ Distinct(o.order)
        /\ \A i \in 1 .. Len(o.order) :
              d[o.order[i]] \subseteq
                  (Service \ ToSet(o.order)) \cup {o.order[j] : j \in 1 .. i - 1}
        /\ \A s \in Service \ ToSet(o.order) : o.created[s] # NoId
        /\ o.pc \in {"start", "inspect"} => o.created[Head(o.order)] # NoId

RunsIn(n, i) == i \in Id /\ n.cont[i].st \in Up

Started(n, o, dist) ==
    o.pc \in Starting /\ ~dist =>
        /\ \A s \in Service \ ToSet(o.order) : RunsIn(n, o.created[s])
        /\ o.pc = "inspect" => RunsIn(n, o.created[Head(o.order)])

\* What a cleanup, a stop or a removal still has to do is on its list, but for
\* what the labels hide and what a stop has not seen running.
Undone(n, o, dist) ==
    o.pc \in {"undo stop", "undo remove", "undo network"} /\ ~o.failed /\ ~dist =>
        \A s \in Service : o.created[s] \in ContsOf(n) => o.created[s] \in o.todo

UpIn(n) == {i \in Id : n.cont[i].st \in Up}

Stopping(h, n, o, dist) ==
    ~o.failed /\ ~dist =>
        /\ o.pc = "stop" => \A i \in UpIn(n) : i[1] \in h \/ i \in o.todo \/ i \in o.skipped
        /\ o.pc \in {"remove stop", "remove", "remove network"} =>
              \A i \in ContsOf(n) : i[1] \in h \/ i \in o.todo

IInv ==
    /\ TypeInv /\ OneInv
    /\ InOrder(deps, op) /\ Started(node, op, disturbed)
    /\ Undone(node, op, disturbed) /\ Stopping(hidden, node, op, disturbed)

-----------------------------------------------------------------------------
(***************************************************************************)
(* Container ids.                                                          *)
(***************************************************************************)
LEMMA Constants ==
    /\ IsFiniteSet(Service) /\ NoService \notin Service /\ WithPorts \subseteq Service
    /\ MaxCopy \in Nat /\ MaxLate \in Nat /\ MaxCopy > MaxLate + 1
    /\ Id \cap (Service \cup Volume) = {}
BY OrchestratorAssumption

LEMMA IdFacts ==
    /\ NoId \notin Id
    /\ \A i \in Id : i[1] \in Service /\ i[2] \in 1 .. MaxCopy /\ i = <<i[1], i[2]>> /\ i \in IdsOf(i[1])
    /\ \A s \in Service : NoId \notin IdsOf(s)
    /\ \A s \in Service : \A i \in IdsOf(s) : i \in Id /\ i[1] = s
    /\ \A s \in Service : \A n \in 1 .. MaxCopy : <<s, n>> \in Id /\ <<s, n>>[1] = s /\ <<s, n>>[2] = n
BY Constants DEF Id, NoId, IdsOf

LEMMA Held ==
    ASSUME NEW o \in OpType, OwnIds(o), OneHeld(o), NEW s \in Service
    PROVE  \E h \in 1 .. MaxCopy : \A i \in Id : i[1] = s /\ Holds(o, i) => i = <<s, h>>
<1>1. CASE \E i \in Id : i[1] = s /\ Holds(o, i)
  <2>1. PICK i \in Id : i[1] = s /\ Holds(o, i)
    BY <1>1
  <2>2. i[2] \in 1 .. MaxCopy /\ i = <<s, i[2]>>
    BY <2>1, IdFacts
  <2>3. \A j \in Id : j[1] = s /\ Holds(o, j) => j = i
    BY <2>1 DEF OneHeld, OneEach
  <2> QED BY <2>2, <2>3
<1>2. CASE ~\E i \in Id : i[1] = s /\ Holds(o, i)
  <2>1. 1 \in 1 .. MaxCopy
    BY Constants
  <2> QED BY <1>2, <2>1
<1> QED BY <1>1, <1>2

\* As many ids of a service are referred to as there are late commands, and one more.
Unused(l, h, n) == n # h /\ \A k \in Slot : n # l[k].id[2]

LEMMA SomeIdIsFree ==
    ASSUME NEW l, NEW h
    PROVE  \E n \in 1 .. MaxCopy : Unused(l, h, n)
<1> DEFINE f == [k \in Slot |-> l[k].id[2]]
           L == {f[k] : k \in Slot}
           T == L \cup {h}
<1> SUFFICES ASSUME ~\E n \in 1 .. MaxCopy : n # h /\ \A k \in Slot : n # l[k].id[2]
             PROVE  FALSE
  BY DEF Unused
<1>1. IsFiniteSet(Slot) /\ Cardinality(Slot) = MaxLate
  BY Constants, CountTo
<1>2. IsFiniteSet(1 .. MaxCopy) /\ Cardinality(1 .. MaxCopy) = MaxCopy
  BY Constants, CountTo
<1>3. IsFiniteSet(L) /\ Cardinality(L) <= MaxLate
  <2>1. f \in Surjection(Slot, L)
    <3>1. f \in [Slot -> L] /\ \A y \in L : \E k \in Slot : f[k] = y
      OBVIOUS
    <3> HIDE DEF f, L
    <3> QED BY <3>1 DEF Surjection
  <2> HIDE DEF f, L
  <2> QED BY <1>1, <2>1, FS_Surjection
<1>4. IsFiniteSet(T) /\ Cardinality(T) <= MaxLate + 1
  <2> HIDE DEF L
  <2>1. Cardinality(L) \in Nat
    BY <1>3, FS_CardinalityType
  <2>2. /\ IsFiniteSet(L \cup {h})
        /\ Cardinality(L \cup {h}) = IF h \in L THEN Cardinality(L) ELSE Cardinality(L) + 1
    BY <1>3, FS_AddElement
  <2> QED BY <1>3, <2>1, <2>2, Constants
<1>5. 1 .. MaxCopy \subseteq T
  OBVIOUS
<1> HIDE DEF T
<1>6. Cardinality(1 .. MaxCopy) <= Cardinality(T)
  BY <1>4, <1>5, FS_Subset
<1>7. Cardinality(T) \in Nat
  BY <1>4, FS_CardinalityType
<1> QED BY <1>2, <1>4, <1>6, <1>7, Constants

IsFresh(s, i) ==
    /\ i[1] = s /\ i \notin Referenced
    /\ \A n \in 1 .. i[2] - 1 : <<s, n>> \in Referenced

LEMMA FreshExists ==
    ASSUME TypeInv, OneHeld(op), NEW s \in Service, \A j \in Containers : j[1] # s
    PROVE  Fresh(s) \in Id /\ Fresh(s)[1] = s /\ Fresh(s) \notin Referenced
<1>1. op \in OpType /\ OwnIds(op) /\ late \in [Slot -> CmdType \cup {NoCmd}]
  BY DEF TypeInv, LateType
<1>2. PICK h \in 1 .. MaxCopy : \A i \in Id : i[1] = s /\ Holds(op, i) => i = <<s, h>>
  BY <1>1, Held
<1>3. PICK n \in 1 .. MaxCopy : n # h /\ \A k \in Slot : n # late[k].id[2]
  <2>1. PICK n \in 1 .. MaxCopy : Unused(late, h, n)
    BY SomeIdIsFree
  <2> QED BY <2>1 DEF Unused
<1>4. <<s, n>> \in Id /\ <<s, n>>[1] = s /\ <<s, n>>[2] = n /\ <<s, n>> # <<s, h>>
  BY <1>3, IdFacts
<1>5. <<s, n>> \notin Referenced
  <2> DEFINE i == <<s, n>>
  <2>1. i \notin Containers
    BY <1>4
  <2>2. ~Holds(op, i)
    BY <1>2, <1>4
  <2>3. i \notin op.todo /\ i # op.created[s] /\ i # op.existing[s]
    BY <1>4, <2>2 DEF Holds
  <2>4. ASSUME NEW t \in Service PROVE i # op.created[t] /\ i # op.existing[t]
    <3>1. CASE t = s
      BY <2>3, <3>1
    <3>2. CASE t # s
      <4>1. op.created[t] \in {NoId} \cup IdsOf(t) /\ op.existing[t] \in {NoId} \cup IdsOf(t)
        BY <1>1 DEF OwnIds
      <4> QED BY <1>4, <3>2, <4>1, IdFacts
    <3> QED BY <3>1, <3>2
  <2>5. \A k \in Slot : i # late[k].id
    BY <1>3, <1>4
  <2> HIDE DEF i
  <2> QED BY <2>1, <2>3, <2>4, <2>5 DEF Referenced, i
<1> DEFINE T == {m \in 1 .. MaxCopy : <<s, m>> \notin Referenced}
<1>6. PICK m \in T : \A y \in T : m <= y
  <2>1. T \in SUBSET Nat /\ T # {}
    BY <1>5
  <2> HIDE DEF T
  <2> QED BY <2>1, LeastOf
<1>7. /\ m \in 1 .. MaxCopy /\ <<s, m>> \notin Referenced
      /\ \A y \in 1 .. m - 1 : <<s, y>> \in Referenced
  <2>1. \A y \in 1 .. m - 1 : y \in 1 .. MaxCopy /\ ~(m <= y)
    BY <1>6, Constants
  <2> QED BY <1>6, <2>1
<1>8. <<s, m>> \in Id /\ IsFresh(s, <<s, m>>)
  BY <1>7, IdFacts DEF IsFresh
<1>9. \E i \in Id : IsFresh(s, i)
  BY <1>8
<1>10. Fresh(s) = CHOOSE i \in Id : IsFresh(s, i)
  BY DEF Fresh, IsFresh
<1>11. Fresh(s) \in Id /\ IsFresh(s, Fresh(s))
  BY <1>9, <1>10, Zenon
<1> QED BY <1>11 DEF IsFresh

-----------------------------------------------------------------------------
(***************************************************************************)
(* The daemon: what each command does to the containers.                   *)
(***************************************************************************)
LEMMA NodeFields ==
    ASSUME NEW n \in NodeType
    PROVE  /\ n.net \in BOOLEAN /\ n.vols \subseteq Volume /\ n.images \subseteq Service
           /\ n.cont \in [Id -> Container]
           /\ \A i \in Id : n.cont[i].st \in {"none", "created", "exited"} \cup Up
                            /\ n.cont[i].bound \in BOOLEAN
BY DEF NodeType, Container

LEMMA SaysFields ==
    ASSUME NEW n, NEW text
    PROVE  Says(n, text).node = n /\ Says(n, text).text = text
BY DEF Says

\* A node of which the container i is now c.
Changed(n, i, c) == [n EXCEPT !.cont[i] = c]

LEMMA ChangedNode ==
    ASSUME NEW n \in NodeType, NEW i \in Id, NEW c \in Container
    PROVE  /\ Changed(n, i, c) \in NodeType
           /\ Changed(n, i, c).net = n.net
           /\ Changed(n, i, c).cont[i] = c
           /\ \A j \in Id : j # i => Changed(n, i, c).cont[j] = n.cont[j]
<1>1. n.cont \in [Id -> Container]
  BY NodeFields
<1>2. /\ Changed(n, i, c) \in NodeType
      /\ Changed(n, i, c).net = n.net
      /\ Changed(n, i, c).cont = [n.cont EXCEPT ![i] = c]
  BY DEF NodeType, Changed
<1> QED BY <1>1, <1>2

LEMMA ExecuteOnContainer ==
    ASSUME NEW do \in {"start-container", "stop-container", "remove-container", "inspect-container"},
           NEW i, NEW c, c.do = do, c.id = i
    PROVE  Execute(c) = IF i \in Containers THEN OnContainer(do, i)
                        ELSE Says(node, "No such container")
<1>1. /\ c.do # "create-network" /\ c.do # "remove-network" /\ c.do # "create-volume"
      /\ c.do # "image-exists" /\ c.do # "pull-image" /\ c.do # "list-containers"
      /\ c.do # "create-container"
  OBVIOUS
<1>2. Execute(c) = IF c.id \in Containers THEN OnContainer(c.do, c.id)
                   ELSE Says(node, "No such container")
  BY <1>1 DEF Execute
<1> QED BY <1>2

LEMMA StartEffect ==
    ASSUME node \in NodeType, NEW c, NEW i, c.do = "start-container", c.id = i
    PROVE  LET x == Execute(c)
           IN  /\ x.node \in NodeType /\ ContsOf(x.node) = ContsOf(node)
               /\ x.text \in {"ok", "is already running"} => RunsIn(x.node, i)
               /\ \A j : RunsIn(node, j) => RunsIn(x.node, j)
<1> DEFINE x == Execute(c)
<1>1. x = IF i \in Containers THEN OnContainer("start-container", i) ELSE Says(node, "No such container")
  <2>1. "start-container" \in {"start-container", "stop-container", "remove-container", "inspect-container"}
    OBVIOUS
  <2> QED BY <2>1, ExecuteOnContainer
<1> HIDE DEF x
<1>0. OnContainer("start-container", i) =
          IF node.cont[i].st \in Up THEN Says(node, "ok")
          ELSE IF ~node.net THEN Says(node, "network not found")
          ELSE IF PortTaken(i) THEN Says(node, "port is already allocated")
          ELSE Says([node EXCEPT !.cont[i].st = "running"], "ok")
  BY DEF OnContainer
<1>2. \/ x.node = node /\ x.text \notin {"ok", "is already running"}
      \/ i \in Containers /\ node.cont[i].st \in Up /\ x = Says(node, "ok")
      \/ i \in Containers /\ x = Says([node EXCEPT !.cont[i].st = "running"], "ok")
  <2>1. CASE i \notin Containers
    <3>1. x = Says(node, "No such container")
      BY <1>1, <2>1
    <3>2. x.node = node /\ x.text = "No such container"
      BY <3>1, SaysFields
    <3> QED BY <3>2
  <2>2. CASE i \in Containers
    <3>1. \/ x = Says(node, "network not found") \/ x = Says(node, "port is already allocated")
          \/ node.cont[i].st \in Up /\ x = Says(node, "ok")
          \/ x = Says([node EXCEPT !.cont[i].st = "running"], "ok")
      BY <1>0, <1>1, <2>2
    <3>2. CASE x = Says(node, "network not found")
      <4>1. x.node = node /\ x.text = "network not found"
        BY <3>2, SaysFields
      <4> QED BY <4>1
    <3>3. CASE x = Says(node, "port is already allocated")
      <4>1. x.node = node /\ x.text = "port is already allocated"
        BY <3>3, SaysFields
      <4> QED BY <4>1
    <3> QED BY <2>2, <3>1, <3>2, <3>3
  <2> QED BY <2>1, <2>2
<1>3. CASE x.node = node /\ x.text \notin {"ok", "is already running"}
  BY <1>3 DEF x
<1>5. CASE i \in Containers /\ node.cont[i].st \in Up /\ x = Says(node, "ok")
  <2>1. x.node = node /\ i \in Id
    BY <1>5, SaysFields DEF Containers
  <2> QED BY <1>5, <2>1 DEF RunsIn, x
<1>4. CASE i \in Containers /\ x = Says([node EXCEPT !.cont[i].st = "running"], "ok")
  <2>1. i \in Id /\ node.cont[i].st # "none" /\ node.cont[i] \in Container
    BY <1>4, NodeFields DEF Containers
  <2> DEFINE k == [node.cont[i] EXCEPT !.st = "running"]
  <2>2. k \in Container /\ k.st = "running"
    BY <2>1 DEF Container
  <2>3. x.node = Changed(node, i, k) /\ x.text = "ok"
    <3>1. [node EXCEPT !.cont[i].st = "running"] = Changed(node, i, k)
      BY <2>1 DEF Changed
    <3> QED BY <1>4, <3>1, SaysFields
  <2> HIDE DEF k
  <2>4. /\ x.node \in NodeType /\ x.node.cont[i] = k
        /\ \A j \in Id : j # i => x.node.cont[j] = node.cont[j]
    <3>1. /\ Changed(node, i, k) \in NodeType /\ Changed(node, i, k).cont[i] = k
          /\ \A j \in Id : j # i => Changed(node, i, k).cont[j] = node.cont[j]
      BY <2>1, <2>2, ChangedNode
    <3> QED BY <2>3, <3>1
  <2>5. ContsOf(x.node) = ContsOf(node)
    BY <2>1, <2>2, <2>4 DEF ContsOf
  <2>6. RunsIn(x.node, i) /\ \A j : RunsIn(node, j) => RunsIn(x.node, j)
    BY <2>1, <2>2, <2>4 DEF RunsIn
  <2> QED BY <2>4, <2>5, <2>6 DEF x
<1> QED BY <1>2, <1>3, <1>4, <1>5

LEMMA StopEffect ==
    ASSUME node \in NodeType, NEW c, NEW i, c.do = "stop-container", c.id = i
    PROVE  LET x == Execute(c)
           IN  /\ x.node \in NodeType /\ ContsOf(x.node) = ContsOf(node)
               /\ x.text # "lost"
               /\ UpIn(x.node) \subseteq UpIn(node) \ {i}
<1> DEFINE x == Execute(c)
<1>1. x = IF i \in Containers THEN OnContainer("stop-container", i) ELSE Says(node, "No such container")
  <2>1. "stop-container" \in {"start-container", "stop-container", "remove-container", "inspect-container"}
    OBVIOUS
  <2> QED BY <2>1, ExecuteOnContainer
<1> HIDE DEF x
<1>0. OnContainer("stop-container", i) =
          Says([node EXCEPT !.cont[i].st = IF @ \in Up THEN "exited" ELSE @], "ok")
  BY DEF OnContainer
<1>2. \/ x.node = node /\ i \notin Containers /\ x.text = "No such container"
      \/ /\ i \in Containers
         /\ x = Says([node EXCEPT !.cont[i].st = IF @ \in Up THEN "exited" ELSE @], "ok")
  BY <1>0, <1>1 DEF Says
<1>3. CASE x.node = node /\ i \notin Containers /\ x.text = "No such container"
  <2>1. i \notin UpIn(node)
    BY <1>3 DEF UpIn, Containers
  <2> QED BY <1>3, <2>1 DEF x
<1>4. CASE /\ i \in Containers
           /\ x = Says([node EXCEPT !.cont[i].st = IF @ \in Up THEN "exited" ELSE @], "ok")
  <2>1. i \in Id /\ node.cont[i].st # "none" /\ node.cont[i] \in Container
    BY <1>4, NodeFields DEF Containers
  <2> DEFINE k == [node.cont[i] EXCEPT !.st = IF @ \in Up THEN "exited" ELSE @]
  <2>2. k \in Container /\ k.st \notin Up /\ k.st # "none"
    BY <2>1 DEF Container
  <2>3. x.node = Changed(node, i, k) /\ x.text = "ok"
    <3>1. [node EXCEPT !.cont[i].st = IF @ \in Up THEN "exited" ELSE @] = Changed(node, i, k)
      BY <2>1 DEF Changed
    <3> QED BY <1>4, <3>1, SaysFields
  <2> HIDE DEF k
  <2>4. /\ x.node \in NodeType /\ x.node.cont[i] = k
        /\ \A j \in Id : j # i => x.node.cont[j] = node.cont[j]
    <3>1. /\ Changed(node, i, k) \in NodeType /\ Changed(node, i, k).cont[i] = k
          /\ \A j \in Id : j # i => Changed(node, i, k).cont[j] = node.cont[j]
      BY <2>1, <2>2, ChangedNode
    <3> QED BY <2>3, <3>1
  <2>5. ContsOf(x.node) = ContsOf(node)
    BY <2>1, <2>2, <2>4 DEF ContsOf
  <2>6. UpIn(x.node) \subseteq UpIn(node) \ {i}
    BY <2>1, <2>2, <2>4 DEF UpIn
  <2> QED BY <2>3, <2>4, <2>5, <2>6 DEF x
<1> QED BY <1>2, <1>3, <1>4

LEMMA RemoveEffect ==
    ASSUME node \in NodeType, NEW c, NEW i, c.do = "remove-container", c.id = i
    PROVE  LET x == Execute(c)
           IN  x.node \in NodeType /\ ContsOf(x.node) = ContsOf(node) \ {i} /\ x.text # "lost"
<1> DEFINE x == Execute(c)
<1>1. x = IF i \in Containers THEN OnContainer("remove-container", i) ELSE Says(node, "No such container")
  <2>1. "remove-container" \in {"start-container", "stop-container", "remove-container", "inspect-container"}
    OBVIOUS
  <2> QED BY <2>1, ExecuteOnContainer
<1> HIDE DEF x
<1>0. OnContainer("remove-container", i) = Says([node EXCEPT !.cont[i] = NoContainer], "ok")
  BY DEF OnContainer
<1>2. \/ x.node = node /\ i \notin Containers /\ x.text = "No such container"
      \/ i \in Containers /\ x = Says([node EXCEPT !.cont[i] = NoContainer], "ok")
  BY <1>0, <1>1 DEF Says
<1>3. CASE x.node = node /\ i \notin Containers /\ x.text = "No such container"
  BY <1>3 DEF x, ContsOf, Containers
<1>4. CASE i \in Containers /\ x = Says([node EXCEPT !.cont[i] = NoContainer], "ok")
  <2>1. i \in Id
    BY <1>4 DEF Containers
  <2>2. NoContainer \in Container /\ NoContainer.st = "none"
    BY DEF Container, NoContainer
  <2>3. x.node = Changed(node, i, NoContainer) /\ x.text = "ok"
    BY <1>4, SaysFields DEF Changed
  <2>4. /\ x.node \in NodeType /\ x.node.cont[i] = NoContainer
        /\ \A j \in Id : j # i => x.node.cont[j] = node.cont[j]
    <3>1. /\ Changed(node, i, NoContainer) \in NodeType /\ Changed(node, i, NoContainer).cont[i] = NoContainer
          /\ \A j \in Id : j # i => Changed(node, i, NoContainer).cont[j] = node.cont[j]
      BY <2>1, <2>2, ChangedNode
    <3> QED BY <2>3, <3>1
  <2>5. ContsOf(x.node) = ContsOf(node) \ {i}
    BY <2>2, <2>4 DEF ContsOf
  <2> QED BY <2>3, <2>4, <2>5 DEF x
<1> QED BY <1>2, <1>3, <1>4

LEMMA InspectEffect ==
    ASSUME NEW c, NEW i, c.do = "inspect-container", c.id = i
    PROVE  LET x == Execute(c)
           IN  x.node = node /\ (x.text = "ok" => i \in Containers)
<1> DEFINE x == Execute(c)
<1>1. x = IF i \in Containers THEN OnContainer("inspect-container", i) ELSE Says(node, "No such container")
  <2>1. "inspect-container" \in {"start-container", "stop-container", "remove-container", "inspect-container"}
    OBVIOUS
  <2> QED BY <2>1, ExecuteOnContainer
<1> HIDE DEF x
<1>0. OnContainer("inspect-container", i) = Says(node, "ok")
  BY DEF OnContainer
<1>2. x.node = node /\ (x.text = "ok" => i \in Containers)
  <2>1. CASE i \notin Containers
    <3>1. x = Says(node, "No such container")
      BY <1>1, <2>1
    <3>2. x.node = node /\ x.text = "No such container"
      BY <3>1, SaysFields
    <3> QED BY <3>2
  <2>2. CASE i \in Containers
    BY <1>0, <1>1, <2>2, SaysFields
  <2> QED BY <2>1, <2>2
<1> QED BY <1>2 DEF x

\* Commands that do not touch a container.
LEMMA OtherEffect ==
    ASSUME node \in NodeType, NEW c, CmdOK(c),
           c.do \in {"create-network", "remove-network", "create-volume", "image-exists", "pull-image",
                     "list-containers"}
    PROVE  /\ Execute(c).node \in NodeType /\ Execute(c).node.cont = node.cont
           /\ c.do \in {"image-exists", "list-containers"} => Execute(c).node = node
           /\ c.do = "remove-network" /\ Running = {} => ~Execute(c).node.net
<1>0. c.name \in Volume \/ c.do # "create-volume"
  BY DEF CmdOK
<1>1. c.name \in Service \/ c.do # "pull-image"
  BY DEF CmdOK
<1> DEFINE x == Execute(c)
<1>2. CASE c.do = "create-network"
  <2>1. x = IF node.net THEN Says(node, "already exists") ELSE Says([node EXCEPT !.net = TRUE], "ok")
    BY <1>2 DEF Execute
  <2> HIDE DEF x
  <2>2. x.node = node \/ x.node = [node EXCEPT !.net = TRUE]
    BY <2>1, SaysFields
  <2> QED BY <1>2, <2>2 DEF NodeType, x
<1>3. CASE c.do = "remove-network"
  <2>1. x = IF ~node.net THEN Says(node, "not found")
            ELSE IF \E j \in Id : node.cont[j].st = "running" THEN Says(node, "has active endpoints")
            ELSE Says([node EXCEPT !.net = FALSE], "ok")
    BY <1>3 DEF Execute
  <2> HIDE DEF x
  <2>2. \/ x.node = node /\ ~node.net
        \/ x.node = node /\ \E j \in Id : node.cont[j].st = "running"
        \/ x.node = [node EXCEPT !.net = FALSE]
    BY <2>1, SaysFields
  <2>3. (\E j \in Id : node.cont[j].st = "running") => Running # {}
    BY DEF Running, In, Containers
  <2>4. x.node \in NodeType /\ x.node.cont = node.cont /\ (Running = {} => ~x.node.net)
    BY <2>2, <2>3 DEF NodeType
  <2> QED BY <1>3, <2>4 DEF x
<1>4. CASE c.do = "create-volume"
  <2>1. x = Says([node EXCEPT !.vols = @ \cup {c.name}], "ok")
    BY <1>4 DEF Execute
  <2> HIDE DEF x
  <2>2. x.node = [node EXCEPT !.vols = @ \cup {c.name}] /\ c.name \in Volume
    BY <1>0, <1>4, <2>1, SaysFields
  <2> QED BY <1>4, <2>2 DEF NodeType, x
<1>5. CASE c.do = "pull-image"
  <2>1. x = Says([node EXCEPT !.images = @ \cup {c.name}], "ok")
    BY <1>5 DEF Execute
  <2> HIDE DEF x
  <2>2. x.node = [node EXCEPT !.images = @ \cup {c.name}] /\ c.name \in Service
    BY <1>1, <1>5, <2>1, SaysFields
  <2> QED BY <1>5, <2>2 DEF NodeType, x
<1>6. CASE c.do = "image-exists"
  <2>1. x = Says(node, IF c.name \in node.images THEN "yes" ELSE "no")
    BY <1>6 DEF Execute
  <2>2. x.node = node
    BY <2>1, SaysFields
  <2> QED BY <1>6, <2>2
<1>7. CASE c.do = "list-containers"
  <2>1. x = Says(node, "ok")
    BY <1>7 DEF Execute
  <2>2. x.node = node
    BY <2>1, SaysFields
  <2> QED BY <1>7, <2>2
<1> QED BY <1>2, <1>3, <1>4, <1>5, <1>6, <1>7

LEMMA CreateEffect ==
    ASSUME TypeInv, OneHeld(op), NEW c, CmdOK(c), c.do = "create-container"
    PROVE  LET x == Execute(c)
               i == Fresh(c.name)
           IN  /\ x.node \in NodeType /\ x.text # "lost"
               /\ \/ x.text # "ok" /\ x.node = node
                  \/ /\ x.text = "ok" /\ i \in Id /\ i[1] = c.name /\ i \notin Referenced
                     /\ \A j \in Containers : j[1] # c.name
                     /\ x.node.cont[i].st = "created"
                     /\ \A j \in Id : j # i => x.node.cont[j] = node.cont[j]
                     /\ ContsOf(x.node) = ContsOf(node) \cup {i}
<1> DEFINE x == Execute(c)
           i == Fresh(c.name)
           k == [st |-> "created", bound |-> c.bound]
<1>0. node \in NodeType /\ c.name \in Service /\ c.bound \in BOOLEAN
  BY DEF TypeInv, CmdOK, CmdType
<1>1. x = IF \E j \in Containers : j[1] = c.name THEN Says(node, "Conflict")
          ELSE IF c.name \notin node.images THEN Says(node, "No such image")
          ELSE Says([node EXCEPT !.cont[i] = k], "ok")
  BY DEF Execute
<1> HIDE DEF x, i
<1>2. \/ x.text \in {"Conflict", "No such image"} /\ x.node = node
      \/ /\ \A j \in Containers : j[1] # c.name
         /\ x.text = "ok" /\ x.node = Changed(node, i, k)
  BY <1>1 DEF Changed, Says
<1>3. CASE x.text \in {"Conflict", "No such image"} /\ x.node = node
  BY <1>0, <1>3 DEF x
<1>4. CASE /\ \A j \in Containers : j[1] # c.name
           /\ x.text = "ok" /\ x.node = Changed(node, i, k)
  <2>1. i \in Id /\ i[1] = c.name /\ i \notin Referenced
    BY <1>0, <1>4, FreshExists DEF i
  <2>2. k \in Container /\ k.st = "created"
    BY <1>0 DEF Container
  <2> HIDE DEF k
  <2>3. /\ x.node \in NodeType /\ x.node.cont[i] = k
        /\ \A j \in Id : j # i => x.node.cont[j] = node.cont[j]
    <3>1. /\ Changed(node, i, k) \in NodeType /\ Changed(node, i, k).cont[i] = k
          /\ \A j \in Id : j # i => Changed(node, i, k).cont[j] = node.cont[j]
      BY <1>0, <2>1, <2>2, ChangedNode
    <3> QED BY <1>4, <3>1
  <2>4. ContsOf(x.node) = ContsOf(node) \cup {i}
    BY <2>1, <2>2, <2>3 DEF ContsOf
  <2> QED BY <1>4, <2>1, <2>2, <2>3, <2>4 DEF x, i
<1> QED BY <1>2, <1>3, <1>4

LEMMA CmdsOK ==
    /\ \A do \in {"create-network", "remove-network", "list-containers"} :
          CmdOK(Cmd(do)) /\ Cmd(do).do = do
    /\ \A do \in {"start-container", "stop-container", "remove-container", "inspect-container"} :
          \A i \in Id \cup {NoId} : CmdOK(CmdOn(do, i)) /\ CmdOn(do, i).do = do /\ CmdOn(do, i).id = i
    /\ \A v \in Volume : CmdOK(CmdFor("create-volume", v)) /\ CmdFor("create-volume", v).do = "create-volume"
    /\ \A do \in {"image-exists", "pull-image"} : \A s \in Service :
          CmdOK(CmdFor(do, s)) /\ CmdFor(do, s).do = do
BY DEF CmdOK, CmdType, Cmd, CmdOn, CmdFor, Actions

LEMMA CreateCmdOK ==
    ASSUME NEW s \in Service, NEW b \in BOOLEAN
    PROVE  LET c == [CmdFor("create-container", s) EXCEPT !.bound = b]
           IN  CmdOK(c) /\ c.do = "create-container" /\ c.name = s
BY DEF CmdOK, CmdType, Cmd, CmdFor, Actions

LEMMA RealCmd ==
    ASSUME NEW c, CmdOK(c)
    PROVE  c # NoCmd /\ c \in CmdType /\ c.do \in Actions /\ c.id \in Id \cup {NoId}
<1>1. NoCmd.do = "none"
  BY DEF NoCmd, Cmd
<1>2. c.do \in Actions /\ c.id \in Id \cup {NoId} /\ c \in CmdType
  BY DEF CmdOK, CmdType
<1>3. "none" \notin Actions
  BY DEF Actions
<1> QED BY <1>1, <1>2, <1>3

\* How a call can end.
Answered(e, c) == e.node = Execute(c).node /\ e.text = Execute(c).text /\ e.late = late
Lost(e, c) == e.node = node /\ e.text = "lost" /\ (c.do \notin Queries => e.late # late)
Unnoticed(e, c) == c.do = "pull-image" /\ e.node = node /\ e.text = "ok" /\ e.late = late

LEMMA LostOne ==
    ASSUME NEW c, CmdOK(c), NEW l \in AfterLoss(c), LateType(late)
    PROVE  LateType(l) /\ (c.do \notin Queries => l # late)
<1>1. PICK k \in Slot : late[k] = NoCmd /\ l = IF c.do \in Queries THEN late ELSE [late EXCEPT ![k] = c]
  BY DEF AfterLoss
<1>2. CASE c.do \in Queries
  BY <1>1, <1>2
<1>3. CASE c.do \notin Queries
  <2>1. l = [late EXCEPT ![k] = c]
    BY <1>1, <1>3
  <2>2. c # NoCmd /\ c \in CmdType
    BY RealCmd
  <2>3. late \in [Slot -> CmdType \cup {NoCmd}] /\ \A j \in Slot : late[j] # NoCmd => CmdOK(late[j])
    BY DEF LateType
  <2>4. l[k] = c /\ l \in [Slot -> CmdType \cup {NoCmd}] /\ \A j \in Slot : j # k => l[j] = late[j]
    BY <2>1, <2>2, <2>3
  <2>5. l # late
    BY <1>1, <2>2, <2>4
  <2>6. \A j \in Slot : l[j] # NoCmd => CmdOK(l[j])
    BY <2>3, <2>4
  <2> QED BY <2>4, <2>5, <2>6 DEF LateType
<1> QED BY <1>2, <1>3

LEMMA EndsCases ==
    ASSUME NEW c, CmdOK(c), LateType(late), NEW e \in Ends(c)
    PROVE  LateType(e.late) /\ (Answered(e, c) \/ Lost(e, c) \/ Unnoticed(e, c))
<1>1. \/ e = [node |-> Execute(c).node, text |-> Execute(c).text, late |-> late]
      \/ \E l \in AfterLoss(c) : e = [node |-> node, text |-> "lost", late |-> l]
      \/ c.do = "pull-image" /\ e = [node |-> node, text |-> "ok", late |-> late]
  BY DEF Ends
<1>2. CASE e = [node |-> Execute(c).node, text |-> Execute(c).text, late |-> late]
  <2>1. e.node = Execute(c).node /\ e.text = Execute(c).text /\ e.late = late
    BY <1>2
  <2> QED BY <2>1 DEF Answered
<1>3. CASE \E l \in AfterLoss(c) : e = [node |-> node, text |-> "lost", late |-> l]
  <2>1. PICK l \in AfterLoss(c) : e = [node |-> node, text |-> "lost", late |-> l]
    BY <1>3
  <2>2. e.node = node /\ e.text = "lost" /\ e.late = l
    BY <2>1
  <2>3. LateType(l) /\ (c.do \notin Queries => l # late)
    BY LostOne
  <2> QED BY <2>2, <2>3 DEF Lost
<1>4. CASE c.do = "pull-image" /\ e = [node |-> node, text |-> "ok", late |-> late]
  <2>1. e.node = node /\ e.text = "ok" /\ e.late = late
    BY <1>4
  <2> QED BY <1>4, <2>1 DEF Unnoticed
<1> QED BY <1>1, <1>2, <1>3, <1>4

LEMMA OneOfLess ==
    ASSUME NEW T, OneEach(T), NEW U \in SUBSET T
    PROVE  OneEach(U)
BY DEF OneEach

LEMMA ContainersAre == Containers = ContsOf(node)
BY DEF Containers, ContsOf

\* No command leads out of the type or gives a name two containers.
LEMMA ExecuteTyped ==
    ASSUME TypeInv, OneInv, NEW c, CmdOK(c)
    PROVE  Execute(c).node \in NodeType /\ OneEach(ContsOf(Execute(c).node))
<1>1. node \in NodeType /\ OneEach(ContsOf(node)) /\ OneHeld(op)
  BY DEF TypeInv, OneInv
<1> DEFINE x == Execute(c)
<1>2. CASE c.do \in {"create-network", "remove-network", "create-volume", "image-exists", "pull-image",
                     "list-containers"}
  <2>1. x.node \in NodeType /\ x.node.cont = node.cont
    BY <1>1, <1>2, OtherEffect
  <2> HIDE DEF x
  <2>2. ContsOf(x.node) = ContsOf(node)
    BY <2>1 DEF ContsOf
  <2> QED BY <1>1, <2>1, <2>2 DEF x
<1>3. CASE c.do = "start-container"
  BY <1>1, <1>3, StartEffect
<1>4. CASE c.do = "stop-container"
  BY <1>1, <1>4, StopEffect
<1>5. CASE c.do = "remove-container"
  <2>1. x.node \in NodeType /\ ContsOf(x.node) = ContsOf(node) \ {c.id}
    BY <1>1, <1>5, RemoveEffect
  <2> HIDE DEF x
  <2>2. ContsOf(x.node) \subseteq ContsOf(node)
    BY <2>1
  <2> QED BY <1>1, <2>1, <2>2, OneOfLess DEF x
<1>6. CASE c.do = "inspect-container"
  BY <1>1, <1>6, InspectEffect
<1>7. CASE c.do = "create-container"
  <2> DEFINE i == Fresh(c.name)
  <2>1. /\ x.node \in NodeType
        /\ \/ x.node = node
           \/ /\ i \in Id /\ i[1] = c.name /\ \A j \in Containers : j[1] # c.name
              /\ ContsOf(x.node) = ContsOf(node) \cup {i}
    BY <1>1, <1>7, CreateEffect
  <2> HIDE DEF x, i
  <2>2. CASE x.node = node
    BY <1>1, <2>1, <2>2 DEF x
  <2>3. CASE /\ i \in Id /\ i[1] = c.name /\ \A j \in Containers : j[1] # c.name
             /\ ContsOf(x.node) = ContsOf(node) \cup {i}
    <3>1. OneEach(ContsOf(node) \cup {i})
      BY <1>1, <2>3, ContainersAre DEF OneEach
    <3> QED BY <2>1, <2>3, <3>1 DEF x
  <2> QED BY <2>1, <2>2, <2>3
<1> QED BY <1>2, <1>3, <1>4, <1>5, <1>6, <1>7, RealCmd DEF Actions

LEMMA EndsTyped ==
    ASSUME TypeInv, OneInv, NEW c, CmdOK(c), NEW e \in Ends(c)
    PROVE  /\ e.node \in NodeType /\ OneEach(ContsOf(e.node)) /\ LateType(e.late)
           /\ Answered(e, c) \/ Lost(e, c) \/ Unnoticed(e, c)
<1>1. node \in NodeType /\ OneEach(ContsOf(node)) /\ LateType(late)
  BY DEF TypeInv, OneInv
<1>2. LateType(e.late) /\ (Answered(e, c) \/ Lost(e, c) \/ Unnoticed(e, c))
  BY <1>1, EndsCases
<1>3. Execute(c).node \in NodeType /\ OneEach(ContsOf(Execute(c).node))
  BY ExecuteTyped
<1> QED BY <1>1, <1>2, <1>3 DEF Answered, Lost, Unnoticed

-----------------------------------------------------------------------------
(***************************************************************************)
(* Steps.  An operation that goes on as o is all right in itself (OpOK)    *)
(* and with the node it leaves (Goes).                                     *)
(***************************************************************************)
OpOK(o) == o \in OpType /\ OwnIds(o) /\ TodoOK(o) /\ PhaseOK(o) /\ OneHeld(o)

Goes(n, o, dist) ==
    InOrder(deps, o) /\ Started(n, o, dist) /\ Undone(n, o, dist) /\ Stopping(hidden, n, o, dist)

LEMMA Parts ==
    IInv <=> /\ deps \in Graphs /\ orders = Orders(Service, deps) /\ hidden \in Hidings
             /\ calm \in BOOLEAN /\ disturbed \in BOOLEAN
             /\ node \in NodeType /\ OneEach(ContsOf(node)) /\ LateType(late)
             /\ OpOK(op) /\ Goes(node, op, disturbed)
BY DEF IInv, TypeInv, OneInv, OpOK, Goes

LEMMA StepKeeps ==
    ASSUME IInv, NEW n \in NodeType, OneEach(ContsOf(n)), NEW l, LateType(l), NEW o, OpOK(o),
           NEW d \in BOOLEAN, Goes(n, o, d), NEW b \in BOOLEAN,
           node' = n, late' = l, op' = o, disturbed' = d, calm' = b, UNCHANGED <<deps, hidden, orders>>
    PROVE  IInv'
<1>1. deps \in Graphs /\ orders = Orders(Service, deps) /\ hidden \in Hidings
  BY Parts
<1>2. deps' \in Graphs /\ orders' = Orders(Service, deps') /\ hidden' \in Hidings
  BY <1>1
<1>3. o \in OpType /\ OwnIds(o) /\ TodoOK(o) /\ PhaseOK(o) /\ OneHeld(o)
  BY DEF OpOK
<1>4. InOrder(deps, o) /\ Started(n, o, d) /\ Undone(n, o, d) /\ Stopping(hidden, n, o, d)
  BY DEF Goes
<1>5. TypeInv'
  BY <1>2, <1>3 DEF TypeInv
<1>6. OneInv'
  BY <1>3 DEF OneInv
<1>7. /\ InOrder(deps', op') /\ Started(node', op', disturbed')
      /\ Undone(node', op', disturbed') /\ Stopping(hidden', node', op', disturbed')
  BY <1>4
<1> QED BY <1>5, <1>6, <1>7 DEF IInv

LEMMA CalledKeeps ==
    ASSUME IInv, NEW c, CmdOK(c), NEW e \in Ends(c), NEW o, Called(e, o), OpOK(o),
           Goes(e.node, o, disturbed /\ o.pc # "idle")
    PROVE  IInv'
<1>1. TypeInv /\ OneInv /\ disturbed \in BOOLEAN /\ calm \in BOOLEAN
  BY DEF IInv, TypeInv
<1>2. e.node \in NodeType /\ OneEach(ContsOf(e.node)) /\ LateType(e.late)
  BY <1>1, EndsTyped
<1>3. /\ node' = e.node /\ late' = e.late /\ op' = o /\ disturbed' = (disturbed /\ o.pc # "idle")
      /\ UNCHANGED <<deps, hidden, orders>> /\ calm' = calm
  BY DEF Called
<1>4. (disturbed /\ o.pc # "idle") \in BOOLEAN
  OBVIOUS
<1> QED BY <1>1, <1>2, <1>3, <1>4, StepKeeps

LEMMA LocalKeeps ==
    ASSUME IInv, NEW o, Local(o), OpOK(o), Goes(node, o, disturbed /\ o.pc # "idle")
    PROVE  IInv'
<1>1. disturbed \in BOOLEAN /\ calm \in BOOLEAN /\ node \in NodeType /\ OneEach(ContsOf(node)) /\ LateType(late)
  BY Parts
<1>2. /\ node' = node /\ late' = late /\ op' = o /\ disturbed' = (disturbed /\ o.pc # "idle")
      /\ UNCHANGED <<deps, hidden, orders>> /\ calm' = calm
  BY DEF Local, Called
<1>3. (disturbed /\ o.pc # "idle") \in BOOLEAN
  OBVIOUS
<1> QED BY <1>1, <1>2, <1>3, StepKeeps

\* Before containers are created and after the operation nothing is promised.
Quiet == {"idle", "network", "volumes", "exists", "pull", "list"}

LEMMA QuietGoes ==
    ASSUME NEW n, NEW o, o.pc \in Quiet, NEW dist
    PROVE  Goes(n, o, dist)
BY DEF Goes, InOrder, Started, Undone, Stopping, Quiet, Starting

LEMMA HoldsNone ==
    ASSUME NEW o \in OpType, TodoOK(o), PhaseOK(o),
           \A s \in Service : o.created[s] = NoId /\ o.existing[s] = NoId,
           OneEach({i \in Id : i \in o.todo})
    PROVE  OpOK(o)
<1>1. OwnIds(o)
  BY DEF OwnIds
<1>2. \A i \in Id : Holds(o, i) => i \in o.todo
  BY IdFacts DEF Holds
<1>3. {i \in Id : Holds(o, i)} \subseteq {i \in Id : i \in o.todo}
  BY <1>2
<1>4. OneHeld(o)
  BY <1>3, OneOfLess DEF OneHeld
<1> QED BY <1>1, <1>4 DEF OpOK

LEMMA HoldsLess ==
    ASSUME NEW o \in OpType, TodoOK(o), PhaseOK(o), OpOK(op),
           o.created = op.created, o.existing = op.existing, o.todo \cap Id \subseteq op.todo
    PROVE  OpOK(o)
<1>1. OwnIds(o)
  BY DEF OwnIds, OpOK
<1>2. \A i \in Id : Holds(o, i) => Holds(op, i)
  BY DEF Holds
<1>3. {i \in Id : Holds(o, i)} \subseteq {i \in Id : Holds(op, i)}
  BY <1>2
<1>4. OneHeld(o)
  BY <1>3, OneOfLess DEF OneHeld, OpOK
<1> QED BY <1>1, <1>4 DEF OpOK

LEMMA IdleFields ==
    /\ OpIdle \in OpType /\ OpIdle.kind = "none" /\ OpIdle.pc = "idle" /\ OpIdle.todo = {}
    /\ OpIdle.order = <<>> /\ OpIdle.failed = FALSE /\ OpIdle.result = "none"
    /\ \A s \in Service : OpIdle.created[s] = NoId /\ OpIdle.existing[s] = NoId
<1>1. <<>> \in Seq(Service)
  BY EmptySeq
<1> QED BY <1>1 DEF OpIdle, OpType, PCs

LEMMA NoIdsInNothing ==
    ASSUME NEW T, \A i \in Id : i \notin T
    PROVE  OneEach({i \in Id : i \in T})
BY DEF OneEach

\* The beginning and the end of an operation.
LEMMA ReturnOK ==
    ASSUME NEW r \in {"none", "ok", "error"}, NEW o, o = Return(r)
    PROVE  OpOK(o) /\ o.pc = "idle" /\ o.kind = "none" /\ o.result = r
<1>1. /\ o \in OpType /\ o.pc = "idle" /\ o.kind = "none" /\ o.todo = {} /\ o.result = r
      /\ o.created = OpIdle.created /\ o.existing = OpIdle.existing
  BY IdleFields DEF Return, OpType
<1>2. \A s \in Service : o.created[s] = NoId /\ o.existing[s] = NoId
  BY <1>1, IdleFields
<1>3. TodoOK(o)
  BY <1>1 DEF TodoOK
<1>4. PhaseOK(o)
  BY <1>1, <1>2 DEF PhaseOK
<1>5. OneEach({i \in Id : i \in o.todo})
  BY <1>1, NoIdsInNothing
<1> QED BY <1>1, <1>2, <1>3, <1>4, <1>5, HoldsNone

BeginsAt(kind, pc) ==
    (kind = "start" /\ pc = "network") \/ (kind \in {"stop", "remove"} /\ pc = "list")

LEMMA Beginnings == BeginsAt("start", "network") /\ BeginsAt("stop", "list") /\ BeginsAt("remove", "list")
BY DEF BeginsAt

LEMMA BeginKeeps ==
    ASSUME IInv, NEW kind, NEW pc, Begin(kind, pc), BeginsAt(kind, pc)
    PROVE  IInv'
<1> DEFINE o == [OpIdle EXCEPT !.kind = kind, !.pc = pc]
<1>1. /\ o \in OpType /\ o.pc = pc /\ o.kind = kind /\ o.todo = {}
      /\ o.created = OpIdle.created /\ o.existing = OpIdle.existing
  BY IdleFields DEF OpType, PCs, BeginsAt
<1>2. Local(o)
  BY DEF Begin
<1> HIDE DEF o
<1>3. \A s \in Service : o.created[s] = NoId /\ o.existing[s] = NoId
  BY <1>1, IdleFields
<1>4. TodoOK(o)
  BY <1>1 DEF TodoOK, BeginsAt
<1>5. PhaseOK(o)
  BY <1>1, <1>3 DEF PhaseOK, BeginsAt
<1>6. OneEach({i \in Id : i \in o.todo})
  BY <1>1, NoIdsInNothing
<1>7. OpOK(o)
  BY <1>1, <1>3, <1>4, <1>5, <1>6, HoldsNone
<1>8. o.pc \in Quiet
  BY <1>1 DEF Quiet, BeginsAt
<1> QED BY <1>2, <1>7, <1>8, LocalKeeps, QuietGoes

LEMMA ReturnKeeps ==
    ASSUME IInv, NEW c, CmdOK(c), NEW e \in Ends(c), NEW r \in {"none", "ok", "error"},
           Called(e, Return(r))
    PROVE  IInv'
<1> DEFINE o == Return(r)
<1>1. OpOK(o) /\ o.pc = "idle"
  BY ReturnOK
<1> HIDE DEF o
<1>2. Goes(e.node, o, disturbed /\ o.pc # "idle")
  BY <1>1, QuietGoes DEF Quiet
<1>3. Called(e, o)
  BY DEF o
<1> QED BY <1>1, <1>2, <1>3, CalledKeeps

LEMMA ReturnAtOnceKeeps ==
    ASSUME IInv, NEW r \in {"none", "ok", "error"}, Local(Return(r))
    PROVE  IInv'
<1> DEFINE o == Return(r)
<1>1. OpOK(o) /\ o.pc = "idle"
  BY ReturnOK
<1> HIDE DEF o
<1>2. Goes(node, o, disturbed /\ o.pc # "idle")
  BY <1>1, QuietGoes DEF Quiet
<1>3. Local(o)
  BY DEF o
<1> QED BY <1>1, <1>2, <1>3, LocalKeeps

LEMMA OpFields ==
    ASSUME NEW o \in OpType
    PROVE  /\ o.kind \in {"none", "start", "stop", "remove"} /\ o.pc \in PCs
           /\ o.todo \in SUBSET (Volume \cup Service \cup Id)
           /\ o.order \in Seq(Service) /\ o.running \in SUBSET Id /\ o.skipped \in SUBSET Id
           /\ o.existing \in [Service -> Id \cup {NoId}] /\ o.created \in [Service -> Id \cup {NoId}]
           /\ o.failed \in BOOLEAN
BY DEF OpType

\* The operation goes on at another place with other things to do.
Moved(o, p, t, f) ==
    /\ o \in OpType /\ o.pc = p /\ o.todo = t /\ o.failed = f /\ o.kind = op.kind /\ o.order = op.order
    /\ o.created = op.created /\ o.existing = op.existing

LEMMA MovedIs ==
    ASSUME op \in OpType, NEW p \in PCs, NEW t \in SUBSET (Volume \cup Service \cup Id), NEW e
    PROVE  /\ Moved(Goto(p), p, op.todo, op.failed)
           /\ Moved([Goto(p) EXCEPT !.todo = t], p, t, op.failed)
           /\ Moved([op EXCEPT !.todo = t], op.pc, t, op.failed)
           /\ Moved(Failing(Goto(p), e), p, op.todo, op.failed \/ e.text = "lost")
           /\ Moved(Failing([Goto(p) EXCEPT !.todo = t], e), p, t, op.failed \/ e.text = "lost")
           /\ Moved(Failing([op EXCEPT !.todo = t], e), op.pc, t, op.failed \/ e.text = "lost")
<1>1. op.pc \in PCs /\ op.todo \in SUBSET (Volume \cup Service \cup Id) /\ op.failed \in BOOLEAN
  BY OpFields
<1>2. Moved(Goto(p), p, op.todo, op.failed)
  BY <1>1 DEF Moved, Goto, OpType
<1>3. Moved([Goto(p) EXCEPT !.todo = t], p, t, op.failed)
  BY <1>1 DEF Moved, Goto, OpType
<1>4. Moved([op EXCEPT !.todo = t], op.pc, t, op.failed)
  BY <1>1 DEF Moved, OpType
<1>5. ASSUME NEW o, NEW q, NEW u, Moved(o, q, u, op.failed)
      PROVE  Moved(Failing(o, e), q, u, op.failed \/ e.text = "lost")
  <2>1. (op.failed \/ e.text = "lost") \in BOOLEAN
    OBVIOUS
  <2> QED BY <1>1, <1>5, <2>1 DEF Moved, Failing, OpType
<1> QED BY <1>2, <1>3, <1>4, <1>5

\* A start before it has created a container.
Early == {"network", "volumes", "exists", "pull"}

LEMMA EarlyMove ==
    ASSUME OpOK(op), op.pc \in Early, NEW o, NEW t, NEW p \in {"volumes", "exists", "pull", "list", "undo network"},
           Moved(o, p, t, op.failed), TodoOK(o), o.todo \cap Id = {}
    PROVE  OpOK(o) /\ \A n, dist : Goes(n, o, dist)
<1>1. /\ o \in OpType /\ o.pc = p /\ o.todo = t /\ o.kind = op.kind
      /\ o.created = op.created /\ o.existing = op.existing
  BY DEF Moved
<1>2. op.kind = "start" /\ \A s \in Service : op.created[s] = NoId /\ op.existing[s] = NoId
  BY DEF OpOK, PhaseOK, Early
<1>3. PhaseOK(o)
  BY <1>1, <1>2 DEF PhaseOK
<1>4. OneEach({i \in Id : i \in o.todo})
  BY <1>1, NoIdsInNothing
<1>5. OpOK(o)
  BY <1>1, <1>2, <1>3, <1>4, HoldsNone
<1>6. ASSUME NEW n, NEW dist PROVE Goes(n, o, dist)
  <2>1. \A s \in Service : o.created[s] \notin ContsOf(n)
    <3>1. NoId \notin ContsOf(n)
      BY IdFacts DEF ContsOf
    <3>2. \A s \in Service : o.created[s] = NoId
      BY <1>1, <1>2
    <3> QED BY <3>1, <3>2
  <2> QED BY <1>1, <2>1 DEF Goes, InOrder, Started, Undone, Stopping, Starting
<1> QED BY <1>5, <1>6

LEMMA OpFacts ==
    ASSUME IInv
    PROVE  /\ OpOK(op) /\ op \in OpType /\ OwnIds(op) /\ TodoOK(op) /\ PhaseOK(op) /\ OneHeld(op)
           /\ node \in NodeType /\ LateType(late) /\ TypeInv /\ OneInv /\ OneEach(ContsOf(node))
           /\ Goes(node, op, disturbed) /\ disturbed \in BOOLEAN /\ calm \in BOOLEAN
           /\ InOrder(deps, op) /\ Started(node, op, disturbed)
           /\ Undone(node, op, disturbed) /\ Stopping(hidden, node, op, disturbed)
BY DEF IInv, TypeInv, OneInv, OpOK, Goes

LEMMA CreateNetworkKeeps == IInv /\ CreateNetwork => IInv'
<1> SUFFICES ASSUME IInv, CreateNetwork PROVE IInv'
  OBVIOUS
<1> DEFINE c == Cmd("create-network")
           o == [Goto("volumes") EXCEPT !.todo = Volume]
<1>1. CmdOK(c)
  BY CmdsOK
<1> HIDE DEF c
<1>2. PICK e \in Ends(c) : Called(e, IF e.text \in {"ok", "already exists"} THEN o ELSE Return("error"))
  BY DEF CreateNetwork, c
<1>3. OpOK(op) /\ op \in OpType /\ op.pc \in Early
  BY OpFacts DEF CreateNetwork, Early
<1>4. Moved(o, "volumes", Volume, op.failed)
  BY <1>3, MovedIs DEF PCs
<1> HIDE DEF o
<1>5. TodoOK(o) /\ o.todo \cap Id = {}
  BY <1>4, Constants DEF Moved, TodoOK
<1>6. OpOK(o) /\ Goes(e.node, o, disturbed /\ o.pc # "idle")
  BY <1>3, <1>4, <1>5, EarlyMove
<1>7. CASE Called(e, o)
  BY <1>1, <1>6, <1>7, CalledKeeps
<1>8. CASE Called(e, Return("error"))
  BY <1>1, <1>8, ReturnKeeps
<1> QED BY <1>2, <1>7, <1>8

LEMMA CreateVolumeKeeps == IInv /\ CreateVolume => IInv'
<1> SUFFICES ASSUME IInv, CreateVolume PROVE IInv'
  OBVIOUS
<1>1. OpOK(op) /\ op \in OpType /\ op.pc = "volumes" /\ op.pc \in Early /\ op.todo \subseteq Volume
  BY OpFacts DEF CreateVolume, Early, TodoOK
<1>2. CASE op.todo = {}
  <2> DEFINE o == [Goto("exists") EXCEPT !.todo = Service]
  <2>1. Local(o)
    BY <1>2 DEF CreateVolume
  <2>2. Moved(o, "exists", Service, op.failed)
    BY <1>1, MovedIs DEF PCs
  <2> HIDE DEF o
  <2>3. TodoOK(o) /\ o.todo \cap Id = {}
    BY <2>2, Constants DEF Moved, TodoOK
  <2>4. OpOK(o) /\ Goes(node, o, disturbed /\ o.pc # "idle")
    BY <1>1, <2>2, <2>3, EarlyMove
  <2> QED BY <2>1, <2>4, LocalKeeps
<1>3. CASE op.todo # {}
  <2> DEFINE v == CHOOSE v \in op.todo : TRUE
             c == CmdFor("create-volume", v)
             o1 == [op EXCEPT !.todo = op.todo \ {v}]
             o2 == [Goto("undo network") EXCEPT !.todo = {}]
  <2>1. v \in op.todo
    BY <1>3
  <2>2. \E e \in Ends(c) : Called(e, IF e.text = "ok" THEN o1 ELSE o2)
    BY <1>3 DEF CreateVolume
  <2> HIDE DEF v
  <2>3. CmdOK(c)
    BY <1>1, <2>1, CmdsOK
  <2> HIDE DEF c
  <2>4. PICK e \in Ends(c) : Called(e, IF e.text = "ok" THEN o1 ELSE o2)
    BY <2>2
  <2>5. op.todo \ {v} \in SUBSET (Volume \cup Service \cup Id)
    BY <1>1
  <2>6. Moved(o1, "volumes", op.todo \ {v}, op.failed)
    BY <1>1, <2>5, MovedIs DEF PCs
  <2>7. Moved(o2, "undo network", {}, op.failed)
    BY <1>1, MovedIs DEF PCs
  <2> HIDE DEF o1, o2
  <2>8. TodoOK(o1) /\ o1.todo \cap Id = {}
    BY <1>1, <2>6, Constants DEF Moved, TodoOK
  <2>9. TodoOK(o2) /\ o2.todo \cap Id = {}
    BY <2>7 DEF Moved, TodoOK
  <2>10. OpOK(o1) /\ Goes(e.node, o1, disturbed /\ o1.pc # "idle")
    BY <1>1, <2>6, <2>8, EarlyMove
  <2>11. OpOK(o2) /\ Goes(e.node, o2, disturbed /\ o2.pc # "idle")
    BY <1>1, <2>7, <2>9, EarlyMove
  <2>12. CASE Called(e, o1)
    BY <2>3, <2>10, <2>12, CalledKeeps
  <2>13. CASE Called(e, o2)
    BY <2>3, <2>11, <2>13, CalledKeeps
  <2> QED BY <2>4, <2>12, <2>13
<1> QED BY <1>2, <1>3

LEMMA ImageExistsKeeps == IInv /\ ImageExists => IInv'
<1> SUFFICES ASSUME IInv, ImageExists PROVE IInv'
  OBVIOUS
<1>1. OpOK(op) /\ op \in OpType /\ op.pc = "exists" /\ op.pc \in Early /\ op.todo \subseteq Service
  BY OpFacts DEF ImageExists, Early, TodoOK
<1>2. CASE op.todo = {}
  <2> DEFINE o == Goto("list")
  <2>1. Local(o)
    BY <1>2 DEF ImageExists
  <2>2. Moved(o, "list", {}, op.failed)
    BY <1>1, <1>2, MovedIs DEF PCs
  <2> HIDE DEF o
  <2>3. TodoOK(o) /\ o.todo \cap Id = {}
    BY <2>2 DEF Moved, TodoOK
  <2>4. OpOK(o) /\ Goes(node, o, disturbed /\ o.pc # "idle")
    BY <1>1, <2>2, <2>3, EarlyMove
  <2> QED BY <2>1, <2>4, LocalKeeps
<1>3. CASE op.todo # {}
  <2> DEFINE s == CHOOSE s \in op.todo : TRUE
             c == CmdFor("image-exists", s)
             o1 == [op EXCEPT !.todo = op.todo \ {s}]
             o2 == Goto("pull")
  <2>1. s \in op.todo
    BY <1>3
  <2>2. \E e \in Ends(c) : Called(e, IF e.text = "yes" THEN o1 ELSE o2)
    BY <1>3 DEF ImageExists
  <2> HIDE DEF s
  <2>3. CmdOK(c)
    BY <1>1, <2>1, CmdsOK
  <2> HIDE DEF c
  <2>4. PICK e \in Ends(c) : Called(e, IF e.text = "yes" THEN o1 ELSE o2)
    BY <2>2
  <2>5. op.todo \ {s} \in SUBSET (Volume \cup Service \cup Id)
    BY <1>1
  <2>6. Moved(o1, "exists", op.todo \ {s}, op.failed)
    BY <1>1, <2>5, MovedIs DEF PCs
  <2>7. Moved(o2, "pull", op.todo, op.failed)
    BY <1>1, MovedIs DEF PCs
  <2> HIDE DEF o1, o2
  <2>8. TodoOK(o1) /\ o1.todo \cap Id = {}
    BY <1>1, <2>6, Constants DEF Moved, TodoOK
  <2>9. TodoOK(o2) /\ o2.todo \cap Id = {}
    BY <1>1, <1>3, <2>7, Constants DEF Moved, TodoOK
  <2>10. OpOK(o1) /\ Goes(e.node, o1, disturbed /\ o1.pc # "idle")
    BY <1>1, <2>6, <2>8, EarlyMove
  <2>11. OpOK(o2) /\ Goes(e.node, o2, disturbed /\ o2.pc # "idle")
    BY <1>1, <2>7, <2>9, EarlyMove
  <2>12. CASE Called(e, o1)
    BY <2>3, <2>10, <2>12, CalledKeeps
  <2>13. CASE Called(e, o2)
    BY <2>3, <2>11, <2>13, CalledKeeps
  <2> QED BY <2>4, <2>12, <2>13
<1> QED BY <1>2, <1>3

LEMMA PullImageKeeps == IInv /\ PullImage => IInv'
<1> SUFFICES ASSUME IInv, PullImage PROVE IInv'
  OBVIOUS
<1>1. /\ OpOK(op) /\ op \in OpType /\ op.pc = "pull" /\ op.pc \in Early
      /\ op.todo \subseteq Service /\ op.todo # {}
  BY OpFacts DEF PullImage, Early, TodoOK
<1> DEFINE s == CHOOSE s \in op.todo : TRUE
           c == CmdFor("pull-image", s)
           o == [Goto("exists") EXCEPT !.todo = op.todo \ {s}]
<1>2. s \in op.todo
  BY <1>1
<1>3. \E e \in Ends(c) : Called(e, IF e.text = "ok" THEN o ELSE Return("error"))
  <2>1. [Goto("exists") EXCEPT !.todo = @ \ {s}] = o
    BY <1>1 DEF Goto, OpType
  <2> QED BY <2>1 DEF PullImage
<1> HIDE DEF s
<1>4. CmdOK(c)
  BY <1>1, <1>2, CmdsOK
<1> HIDE DEF c
<1>5. PICK e \in Ends(c) : Called(e, IF e.text = "ok" THEN o ELSE Return("error"))
  BY <1>3
<1>6. op.todo \ {s} \in SUBSET (Volume \cup Service \cup Id)
  BY <1>1
<1>7. Moved(o, "exists", op.todo \ {s}, op.failed)
  BY <1>1, <1>6, MovedIs DEF PCs
<1> HIDE DEF o
<1>8. TodoOK(o) /\ o.todo \cap Id = {}
  BY <1>1, <1>7, Constants DEF Moved, TodoOK
<1>9. OpOK(o) /\ Goes(e.node, o, disturbed /\ o.pc # "idle")
  BY <1>1, <1>7, <1>8, EarlyMove
<1>10. CASE Called(e, o)
  BY <1>4, <1>9, <1>10, CalledKeeps
<1>11. CASE Called(e, Return("error"))
  BY <1>4, <1>11, ReturnKeeps
<1> QED BY <1>5, <1>10, <1>11

-----------------------------------------------------------------------------
(***************************************************************************)
(* Cleaning up, stopping and removing.                                     *)
(***************************************************************************)
\* The operation goes on.
LEMMA CalledOn ==
    ASSUME IInv, NEW c, CmdOK(c), NEW e \in Ends(c), NEW o, Called(e, o), OpOK(o), o.pc # "idle",
           Goes(e.node, o, disturbed)
    PROVE  IInv'
<1>1. (disturbed /\ o.pc # "idle") = disturbed
  BY OpFacts
<1> QED BY <1>1, CalledKeeps

LEMMA LocalOn ==
    ASSUME IInv, NEW o, Local(o), OpOK(o), o.pc # "idle", Goes(node, o, disturbed)
    PROVE  IInv'
<1>1. (disturbed /\ o.pc # "idle") = disturbed
  BY OpFacts
<1> QED BY <1>1, LocalKeeps

\* An operation that only has less to do holds no more than before.
LEMMA MovedOK ==
    ASSUME OpOK(op), NEW o, NEW p, NEW t, NEW f, Moved(o, p, t, f), TodoOK(o), PhaseOK(o),
           t \in SUBSET op.todo
    PROVE  OpOK(o)
<1>1. /\ o \in OpType /\ o.todo \cap Id \subseteq op.todo
      /\ o.created = op.created /\ o.existing = op.existing
  BY DEF Moved
<1> QED BY <1>1, HoldsLess

\* The answer of a daemon, an error of the connection.
LEMMA StopEnds ==
    ASSUME IInv, NEW i \in Id, NEW e \in Ends(CmdOn("stop-container", i))
    PROVE  /\ ContsOf(e.node) = ContsOf(node)
           /\ UpIn(e.node) \subseteq UpIn(node)
           /\ e.text # "lost" => UpIn(e.node) \subseteq UpIn(node) \ {i}
<1> DEFINE c == CmdOn("stop-container", i)
<1>1. CmdOK(c) /\ c.do = "stop-container" /\ c.id = i
  BY CmdsOK
<1>2. Answered(e, c) \/ Lost(e, c) \/ Unnoticed(e, c)
  <2> HIDE DEF c
  <2>1. e \in Ends(c)
    BY DEF c
  <2> QED BY <1>1, <2>1, OpFacts, EndsTyped
<1> HIDE DEF c
<1>3. CASE Answered(e, c)
  <2>1. ContsOf(Execute(c).node) = ContsOf(node) /\ UpIn(Execute(c).node) \subseteq UpIn(node) \ {i}
    BY <1>1, OpFacts, StopEffect
  <2> QED BY <1>3, <2>1 DEF Answered
<1>4. CASE Lost(e, c)
  BY <1>4 DEF Lost
<1>5. CASE Unnoticed(e, c)
  BY <1>1, <1>5 DEF Unnoticed
<1> QED BY <1>2, <1>3, <1>4, <1>5

LEMMA RemoveEnds ==
    ASSUME IInv, NEW i \in Id, NEW e \in Ends(CmdOn("remove-container", i))
    PROVE  /\ ContsOf(e.node) \subseteq ContsOf(node)
           /\ e.text # "lost" => ContsOf(e.node) = ContsOf(node) \ {i}
<1> DEFINE c == CmdOn("remove-container", i)
<1>1. CmdOK(c) /\ c.do = "remove-container" /\ c.id = i
  BY CmdsOK
<1>2. Answered(e, c) \/ Lost(e, c) \/ Unnoticed(e, c)
  <2> HIDE DEF c
  <2>1. e \in Ends(c)
    BY DEF c
  <2> QED BY <1>1, <2>1, OpFacts, EndsTyped
<1> HIDE DEF c
<1>3. CASE Answered(e, c)
  <2>1. ContsOf(Execute(c).node) = ContsOf(node) \ {i}
    BY <1>1, OpFacts, RemoveEffect
  <2> QED BY <1>3, <2>1 DEF Answered
<1>4. CASE Lost(e, c)
  BY <1>4 DEF Lost
<1>5. CASE Unnoticed(e, c)
  BY <1>1, <1>5 DEF Unnoticed
<1> QED BY <1>2, <1>3, <1>4, <1>5

Undoing == {"undo stop", "undo remove", "undo network"}

\* While a start is cleaned up only what is on the list counts.
LEMMA UndoGoes ==
    ASSUME NEW n, NEW o, o.pc \in Undoing, NEW dist,
           Undone(n, o, dist)
    PROVE  Goes(n, o, dist)
<1>1. InOrder(deps, o) /\ Started(n, o, dist) /\ Stopping(hidden, n, o, dist)
  BY DEF InOrder, Started, Stopping, Starting, Undoing
<1> QED BY <1>1 DEF Goes

LEMMA UndoMoved ==
    ASSUME IInv, op.pc \in {"undo stop", "undo remove"}, NEW n, NEW o, NEW t, NEW f,
           NEW p \in Undoing, Moved(o, p, t, f),
           ~f => ~op.failed /\ \A i \in ContsOf(n) : i \in ContsOf(node) /\ (i \in op.todo => i \in t)
    PROVE  Goes(n, o, disturbed) /\ o.pc # "idle"
<1>1. o.pc = p /\ o.todo = t /\ o.failed = f /\ o.created = op.created
  BY DEF Moved
<1>2. ~op.failed /\ ~disturbed => \A s \in Service : op.created[s] \in ContsOf(node) => op.created[s] \in op.todo
  BY OpFacts DEF Undone
<1>3. ~o.failed /\ ~disturbed => \A s \in Service : o.created[s] \in ContsOf(n) => o.created[s] \in o.todo
  BY <1>1, <1>2
<1>4. o.pc \in Undoing /\ o.pc # "idle"
  BY <1>1 DEF Undoing
<1>5. Undone(n, o, disturbed)
  BY <1>3 DEF Undone
<1> QED BY <1>4, <1>5, UndoGoes

LEMMA UndoStopKeeps == IInv /\ UndoStop => IInv'
<1> SUFFICES ASSUME IInv, UndoStop PROVE IInv'
  OBVIOUS
<1>1. /\ OpOK(op) /\ op \in OpType /\ op.pc = "undo stop" /\ op.todo \subseteq Id /\ PhaseOK(op)
      /\ op.failed \in BOOLEAN
  BY OpFacts, OpFields DEF UndoStop, TodoOK
<1>3. CASE op.todo = {}
  <2> DEFINE o == Goto("undo network")
  <2>1. Local(o)
    BY <1>3 DEF UndoStop
  <2>2. Moved(o, "undo network", op.todo, op.failed)
    BY <1>1, MovedIs DEF PCs
  <2> HIDE DEF o
  <2>3. TodoOK(o) /\ PhaseOK(o)
    BY <1>1, <1>3, <2>2 DEF Moved, TodoOK, PhaseOK
  <2>4. OpOK(o)
    BY <1>1, <2>2, <2>3, MovedOK
  <2>5. Goes(node, o, disturbed) /\ o.pc # "idle"
    BY <1>1, <2>2, UndoMoved DEF Undoing
  <2> QED BY <2>1, <2>4, <2>5, LocalOn
<1>4. CASE op.todo # {}
  <2> DEFINE i == CHOOSE i \in op.todo : TRUE
             c == CmdOn("stop-container", i)
  <2>1. i \in op.todo /\ i \in Id
    BY <1>1, <1>4
  <2>2. PICK e \in Ends(c) : Called(e, Failing(Goto("undo remove"), e))
    BY <1>4 DEF UndoStop
  <2> HIDE DEF i
  <2>3. CmdOK(c) /\ ContsOf(e.node) = ContsOf(node)
    BY <2>1, CmdsOK, StopEnds
  <2> HIDE DEF c
  <2> DEFINE o == Failing(Goto("undo remove"), e)
  <2>4. Moved(o, "undo remove", op.todo, op.failed \/ e.text = "lost")
    BY <1>1, MovedIs DEF PCs
  <2>5. Called(e, o)
    BY <2>2
  <2> HIDE DEF o
  <2>6. TodoOK(o) /\ PhaseOK(o)
    BY <1>1, <1>4, <2>4 DEF Moved, TodoOK, PhaseOK
  <2>7. OpOK(o)
    BY <1>1, <2>4, <2>6, MovedOK
  <2>8. Goes(e.node, o, disturbed) /\ o.pc # "idle"
    BY <1>1, <2>3, <2>4, UndoMoved DEF Undoing
  <2> QED BY <2>3, <2>5, <2>7, <2>8, CalledOn
<1> QED BY <1>3, <1>4

LEMMA UndoRemoveKeeps == IInv /\ UndoRemove => IInv'
<1> SUFFICES ASSUME IInv, UndoRemove PROVE IInv'
  OBVIOUS
<1>1. /\ OpOK(op) /\ op \in OpType /\ op.pc = "undo remove" /\ op.todo \subseteq Id /\ op.todo # {}
      /\ PhaseOK(op) /\ op.failed \in BOOLEAN
  BY OpFacts, OpFields DEF UndoRemove, TodoOK
<1> DEFINE i == CHOOSE i \in op.todo : TRUE
           c == CmdOn("remove-container", i)
           o(e) == Failing([Goto("undo stop") EXCEPT !.todo = op.todo \ {i}], e)
<1>3. /\ i \in op.todo /\ i \in Id /\ op.todo \ {i} \in SUBSET op.todo
      /\ op.todo \ {i} \in SUBSET (Volume \cup Service \cup Id)
  BY <1>1
<1>4. \E e \in Ends(c) : Called(e, o(e))
  <2>1. [Goto("undo stop") EXCEPT !.todo = @ \ {i}] = [Goto("undo stop") EXCEPT !.todo = op.todo \ {i}]
    BY <1>1 DEF Goto, OpType
  <2> QED BY <2>1 DEF UndoRemove
<1> HIDE DEF i
<1>5. PICK e \in Ends(c) : Called(e, o(e))
  BY <1>4
<1>6. CmdOK(c) /\ ContsOf(e.node) \subseteq ContsOf(node) /\ (e.text # "lost" => ContsOf(e.node) = ContsOf(node) \ {i})
  BY <1>3, CmdsOK, RemoveEnds
<1> HIDE DEF c
<1> DEFINE q == o(e)
<1>7. Moved(q, "undo stop", op.todo \ {i}, op.failed \/ e.text = "lost")
  BY <1>1, <1>3, MovedIs DEF PCs
<1>8. Called(e, q)
  BY <1>5
<1> HIDE DEF o, q
<1>9. TodoOK(q) /\ PhaseOK(q)
  BY <1>1, <1>3, <1>7 DEF Moved, TodoOK, PhaseOK
<1>10. OpOK(q)
  BY <1>1, <1>3, <1>7, <1>9, MovedOK
<1>11. Goes(e.node, q, disturbed) /\ q.pc # "idle"
  BY <1>1, <1>6, <1>7, UndoMoved DEF Undoing
<1> QED BY <1>6, <1>8, <1>10, <1>11, CalledOn

LEMMA UndoNetworkKeeps == IInv /\ UndoNetwork => IInv'
BY CmdsOK, ReturnKeeps DEF UndoNetwork

Tearing == {"stop", "remove stop", "remove", "remove network"}

LEMMA TearGoes ==
    ASSUME NEW n, NEW o, o.pc \in Tearing, NEW dist, Stopping(hidden, n, o, dist)
    PROVE  Goes(n, o, dist)
<1>1. InOrder(deps, o) /\ Started(n, o, dist) /\ Undone(n, o, dist)
  BY DEF InOrder, Started, Undone, Starting, Tearing
<1> QED BY <1>1 DEF Goes

\* What a list shows, and what of it is up.
LEMMA Lists ==
    /\ Visible = {i \in ContsOf(node) : i[1] \notin hidden} /\ ContsOf(node) \subseteq Id
    /\ Running \cup In("restarting") = UpIn(node)
BY DEF Visible, Running, In, UpIn, ContsOf, Containers

\* What a list call returns.
LEMMA ListEnds ==
    ASSUME IInv, NEW e \in Ends(Cmd("list-containers"))
    PROVE  CmdOK(Cmd("list-containers")) /\ e.node = node
<1> DEFINE c == Cmd("list-containers")
<1>1. CmdOK(c) /\ c.do = "list-containers"
  BY CmdsOK
<1>2. Answered(e, c) \/ Lost(e, c) \/ Unnoticed(e, c)
  <2> HIDE DEF c
  <2>1. e \in Ends(c)
    BY DEF c
  <2> QED BY <1>1, <2>1, OpFacts, EndsTyped
<1> HIDE DEF c
<1>3. Execute(c).node = node
  BY <1>1, OpFacts, OtherEffect
<1>4. e.node = node
  BY <1>2, <1>3 DEF Answered, Lost, Unnoticed
<1> QED BY <1>1, <1>4 DEF c

\* A list of containers as the things to do.
LEMMA ListedOK ==
    ASSUME IInv, op.pc = "list", NEW o, NEW p \in {"stop", "remove stop"}, NEW T \in SUBSET ContsOf(node),
           Moved(o, p, T, op.failed), p = "stop" => op.kind = "stop", p = "remove stop" => op.kind = "remove"
    PROVE  OpOK(o) /\ o.pc # "idle"
<1>1. /\ o \in OpType /\ o.pc = p /\ o.todo = T /\ o.kind = op.kind
      /\ o.created = op.created /\ o.existing = op.existing
  BY DEF Moved
<1>2. \A s \in Service : o.created[s] = NoId /\ o.existing[s] = NoId
  BY <1>1, OpFacts DEF PhaseOK
<1>3. T \subseteq Id /\ OneEach(T)
  BY Lists, OpFacts, OneOfLess
<1>4. TodoOK(o)
  BY <1>1, <1>3 DEF TodoOK
<1>5. PhaseOK(o)
  BY <1>1, <1>2 DEF PhaseOK
<1>6. OneEach({i \in Id : i \in o.todo})
  BY <1>1, <1>3 DEF OneEach
<1> QED BY <1>1, <1>2, <1>4, <1>5, <1>6, HoldsNone

LEMMA ListToStopKeeps == IInv /\ ListToStop => IInv'
<1> SUFFICES ASSUME IInv, ListToStop PROVE IInv'
  OBVIOUS
<1> DEFINE c == Cmd("list-containers")
           T == Visible \cap Running
           S == Visible \cap In("restarting")
           o == [Goto("stop") EXCEPT !.todo = T, !.skipped = S]
<1>1. PICK e \in Ends(c) : Called(e, IF e.text = "ok" THEN o ELSE Return("error"))
  BY DEF ListToStop
<1>2. CmdOK(c) /\ e.node = node
  BY ListEnds
<1> HIDE DEF c
<1>3. op \in OpType /\ op.pc = "list" /\ op.kind = "stop"
  BY OpFacts DEF ListToStop
<1>4. /\ T \in SUBSET ContsOf(node) /\ T \in SUBSET (Volume \cup Service \cup Id)
      /\ S \in SUBSET Id
      /\ \A i \in UpIn(node) : i[1] \in hidden \/ i \in T \/ i \in S
  <2>1. UpIn(node) \subseteq ContsOf(node)
    BY DEF UpIn, ContsOf
  <2> QED BY <2>1, Lists
<1> HIDE DEF T, S
<1>5. Moved(o, "stop", T, op.failed) /\ o.skipped = S
  BY <1>3, <1>4 DEF PCs, Moved, Goto, OpType
<1> HIDE DEF o
<1>6. OpOK(o) /\ o.pc # "idle"
  BY <1>3, <1>4, <1>5, ListedOK
<1>7. o.pc \in Tearing /\ Stopping(hidden, node, o, disturbed)
  BY <1>4, <1>5 DEF Moved, Tearing, Stopping
<1>8. Goes(node, o, disturbed)
  BY <1>7, TearGoes
<1>9. CASE Called(e, o)
  BY <1>2, <1>6, <1>8, <1>9, CalledOn
<1>10. CASE Called(e, Return("error"))
  BY <1>2, <1>10, ReturnKeeps
<1> QED BY <1>1, <1>9, <1>10

LEMMA ListToRemoveKeeps == IInv /\ ListToRemove => IInv'
<1> SUFFICES ASSUME IInv, ListToRemove PROVE IInv'
  OBVIOUS
<1> DEFINE c == Cmd("list-containers")
           R == Visible \cap Running
           o == [Goto("remove stop") EXCEPT !.todo = Visible, !.running = R]
<1>1. PICK e \in Ends(c) : Called(e, IF e.text = "ok" THEN o ELSE Return("error"))
  BY DEF ListToRemove
<1>2. CmdOK(c) /\ e.node = node
  BY ListEnds
<1> HIDE DEF c
<1>3. op \in OpType /\ op.pc = "list" /\ op.kind = "remove"
  BY OpFacts DEF ListToRemove
<1>4. /\ Visible \in SUBSET ContsOf(node) /\ Visible \in SUBSET (Volume \cup Service \cup Id)
      /\ R \in SUBSET Id
      /\ \A i \in ContsOf(node) : i[1] \in hidden \/ i \in Visible
  BY Lists
<1> HIDE DEF R
<1>5. Moved(o, "remove stop", Visible, op.failed)
  BY <1>3, <1>4 DEF PCs, Moved, Goto, OpType
<1> HIDE DEF o
<1>6. OpOK(o) /\ o.pc # "idle"
  BY <1>3, <1>4, <1>5, ListedOK
<1>7. o.pc \in Tearing /\ Stopping(hidden, node, o, disturbed)
  BY <1>4, <1>5 DEF Moved, Tearing, Stopping
<1>8. Goes(node, o, disturbed)
  BY <1>7, TearGoes
<1>9. CASE Called(e, o)
  BY <1>2, <1>6, <1>8, <1>9, CalledOn
<1>10. CASE Called(e, Return("error"))
  BY <1>2, <1>10, ReturnKeeps
<1> QED BY <1>1, <1>9, <1>10

LEMMA StopContainerKeeps == IInv /\ StopContainer => IInv'
<1> SUFFICES ASSUME IInv, StopContainer PROVE IInv'
  OBVIOUS
<1>1. /\ OpOK(op) /\ op \in OpType /\ op.pc = "stop" /\ op.todo \subseteq Id /\ PhaseOK(op)
      /\ op.failed \in BOOLEAN
  BY OpFacts, OpFields DEF StopContainer, TodoOK
<1>2. ~op.failed /\ ~disturbed =>
          \A i \in UpIn(node) : i[1] \in hidden \/ i \in op.todo \/ i \in op.skipped
  BY <1>1, OpFacts DEF Stopping
<1>3. CASE op.todo = {}
  BY <1>3, ReturnAtOnceKeeps DEF StopContainer
<1>4. CASE op.todo # {}
  <2> DEFINE i == CHOOSE i \in op.todo : TRUE
             c == CmdOn("stop-container", i)
             o(e) == Failing([op EXCEPT !.todo = op.todo \ {i}], e)
  <2>1. /\ i \in op.todo /\ i \in Id /\ op.todo \ {i} \in SUBSET op.todo
        /\ op.todo \ {i} \in SUBSET (Volume \cup Service \cup Id)
    BY <1>1, <1>4
  <2>2. \E e \in Ends(c) : Called(e, o(e))
    BY <1>4 DEF StopContainer
  <2> HIDE DEF i
  <2>3. PICK e \in Ends(c) : Called(e, o(e))
    BY <2>2
  <2>4. /\ CmdOK(c) /\ UpIn(e.node) \subseteq UpIn(node)
        /\ e.text # "lost" => UpIn(e.node) \subseteq UpIn(node) \ {i}
    BY <2>1, CmdsOK, StopEnds
  <2> HIDE DEF c
  <2> DEFINE q == o(e)
  <2>5. Moved(q, "stop", op.todo \ {i}, op.failed \/ e.text = "lost")
    BY <1>1, <2>1, MovedIs DEF PCs
  <2>11. q.skipped = op.skipped
    BY <1>1 DEF Failing, OpType
  <2>6. Called(e, q)
    BY <2>3
  <2> HIDE DEF o, q
  <2>7. TodoOK(q) /\ PhaseOK(q) /\ q.pc # "idle"
    BY <1>1, <2>1, <2>5 DEF Moved, TodoOK, PhaseOK
  <2>8. OpOK(q)
    BY <1>1, <2>1, <2>5, <2>7, MovedOK
  <2>9. q.pc \in Tearing /\ Stopping(hidden, e.node, q, disturbed)
    BY <1>2, <2>4, <2>5, <2>11 DEF Moved, Tearing, Stopping
  <2>10. Goes(e.node, q, disturbed)
    BY <2>9, TearGoes
  <2> QED BY <2>4, <2>6, <2>7, <2>8, <2>10, CalledOn
<1> QED BY <1>3, <1>4

LEMMA RemoveStopKeeps == IInv /\ RemoveStop => IInv'
<1> SUFFICES ASSUME IInv, RemoveStop PROVE IInv'
  OBVIOUS
<1>1. /\ OpOK(op) /\ op \in OpType /\ op.pc = "remove stop" /\ op.todo \subseteq Id /\ PhaseOK(op)
      /\ op.failed \in BOOLEAN
  BY OpFacts, OpFields DEF RemoveStop, TodoOK
<1>2. ~op.failed /\ ~disturbed => \A i \in ContsOf(node) : i[1] \in hidden \/ i \in op.todo
  BY <1>1, OpFacts DEF Stopping
<1>3. CASE op.todo = {}
  <2> DEFINE o == Goto("remove network")
  <2>1. Local(o)
    BY <1>3 DEF RemoveStop
  <2>2. Moved(o, "remove network", op.todo, op.failed)
    BY <1>1, MovedIs DEF PCs
  <2> HIDE DEF o
  <2>3. TodoOK(o) /\ PhaseOK(o) /\ o.pc # "idle"
    BY <1>1, <1>3, <2>2 DEF Moved, TodoOK, PhaseOK
  <2>4. OpOK(o)
    BY <1>1, <2>2, <2>3, MovedOK
  <2>5. o.pc \in Tearing /\ Stopping(hidden, node, o, disturbed)
    BY <1>2, <2>2 DEF Moved, Tearing, Stopping
  <2> QED BY <2>1, <2>3, <2>4, <2>5, TearGoes, LocalOn
<1>4. CASE op.todo # {}
  <2> DEFINE i == CHOOSE i \in op.todo : TRUE
             c == CmdOn("stop-container", i)
             o == Goto("remove")
  <2>1. i \in op.todo /\ i \in Id
    BY <1>1, <1>4
  <2>2. Local(o) \/ \E e \in Ends(c) : Called(e, o)
    BY <1>4 DEF RemoveStop
  <2> HIDE DEF i
  <2>3. Moved(o, "remove", op.todo, op.failed)
    BY <1>1, MovedIs DEF PCs
  <2> HIDE DEF o
  <2>4. TodoOK(o) /\ PhaseOK(o) /\ o.pc # "idle"
    BY <1>1, <1>4, <2>3 DEF Moved, TodoOK, PhaseOK
  <2>5. OpOK(o)
    BY <1>1, <2>3, <2>4, MovedOK
  <2>6. \A n : ContsOf(n) = ContsOf(node) => o.pc \in Tearing /\ Stopping(hidden, n, o, disturbed)
    BY <1>2, <2>3 DEF Moved, Tearing, Stopping
  <2>7. CASE Local(o)
    BY <2>4, <2>5, <2>6, <2>7, TearGoes, LocalOn
  <2>8. CASE \E e \in Ends(c) : Called(e, o)
    <3>1. PICK e \in Ends(c) : Called(e, o)
      BY <2>8
    <3>2. CmdOK(c) /\ ContsOf(e.node) = ContsOf(node)
      BY <2>1, CmdsOK, StopEnds
    <3> HIDE DEF c
    <3>3. Goes(e.node, o, disturbed)
      BY <2>6, <3>2, TearGoes
    <3> QED BY <2>4, <2>5, <3>1, <3>2, <3>3, CalledOn
  <2> QED BY <2>2, <2>7, <2>8
<1> QED BY <1>3, <1>4

LEMMA RemoveContainerKeeps == IInv /\ RemoveContainer => IInv'
<1> SUFFICES ASSUME IInv, RemoveContainer PROVE IInv'
  OBVIOUS
<1>1. /\ OpOK(op) /\ op \in OpType /\ op.pc = "remove" /\ op.todo \subseteq Id /\ op.todo # {}
      /\ PhaseOK(op) /\ op.failed \in BOOLEAN
  BY OpFacts, OpFields DEF RemoveContainer, TodoOK
<1>2. ~op.failed /\ ~disturbed => \A i \in ContsOf(node) : i[1] \in hidden \/ i \in op.todo
  BY <1>1, OpFacts DEF Stopping
<1> DEFINE i == CHOOSE i \in op.todo : TRUE
           c == CmdOn("remove-container", i)
           o(e) == Failing([Goto("remove stop") EXCEPT !.todo = op.todo \ {i}], e)
<1>3. /\ i \in op.todo /\ i \in Id /\ op.todo \ {i} \in SUBSET op.todo
      /\ op.todo \ {i} \in SUBSET (Volume \cup Service \cup Id)
  BY <1>1
<1>4. \E e \in Ends(c) : Called(e, o(e))
  <2>1. [Goto("remove stop") EXCEPT !.todo = @ \ {i}] = [Goto("remove stop") EXCEPT !.todo = op.todo \ {i}]
    BY <1>1 DEF Goto, OpType
  <2> QED BY <2>1 DEF RemoveContainer
<1> HIDE DEF i
<1>5. PICK e \in Ends(c) : Called(e, o(e))
  BY <1>4
<1>6. CmdOK(c) /\ ContsOf(e.node) \subseteq ContsOf(node) /\ (e.text # "lost" => ContsOf(e.node) = ContsOf(node) \ {i})
  BY <1>3, CmdsOK, RemoveEnds
<1> HIDE DEF c
<1> DEFINE q == o(e)
<1>7. Moved(q, "remove stop", op.todo \ {i}, op.failed \/ e.text = "lost")
  BY <1>1, <1>3, MovedIs DEF PCs
<1>8. Called(e, q)
  BY <1>5
<1> HIDE DEF o, q
<1>9. TodoOK(q) /\ PhaseOK(q) /\ q.pc # "idle"
  BY <1>1, <1>3, <1>7 DEF Moved, TodoOK, PhaseOK
<1>10. OpOK(q)
  BY <1>1, <1>3, <1>7, <1>9, MovedOK
<1>11. q.pc \in Tearing /\ Stopping(hidden, e.node, q, disturbed)
  BY <1>2, <1>6, <1>7 DEF Moved, Tearing, Stopping
<1>12. Goes(e.node, q, disturbed)
  BY <1>11, TearGoes
<1> QED BY <1>6, <1>8, <1>9, <1>10, <1>12, CalledOn

LEMMA RemoveNetworkKeeps == IInv /\ RemoveNetwork => IInv'
BY CmdsOK, ReturnKeeps DEF RemoveNetwork

-----------------------------------------------------------------------------
(***************************************************************************)
(* Starting the services, one after the other.                             *)
(***************************************************************************)
LEMMA StartGoes ==
    ASSUME NEW n, NEW o, o.pc \in Starting, NEW dist, InOrder(deps, o), Started(n, o, dist)
    PROVE  Goes(n, o, dist) /\ o.pc # "idle"
<1>1. Undone(n, o, dist) /\ Stopping(hidden, n, o, dist) /\ o.pc # "idle"
  BY DEF Undone, Stopping, Starting
<1> QED BY <1>1 DEF Goes

\* An order is one of the services without repetition, and puts a service
\* after the ones it depends on.
LEMMA OrderIs ==
    ASSUME IInv, NEW order \in orders
    PROVE  /\ order \in Seq(Service) /\ Distinct(order) /\ ToSet(order) = Service
           /\ Topological(order, deps)
<1>1. deps \in Graphs /\ order \in Orders(Service, deps)
  BY Parts
<1>2. deps \in [Service -> SUBSET Service] /\ Acyclic(deps)
  BY <1>1, OrchestratorAssumption
<1>3. IsFiniteSet(Service)
  BY Constants
<1>4. order \in SetToSeqs(Service)
  BY <1>1, <1>2, <1>3, OrdersArePermutations
<1>5. order \in Seq(Service) /\ Distinct(order) /\ ToSet(order) = Service
  BY <1>3, <1>4, PermutationOf
<1>6. PICK w \in SetToSeqs(Service) :
          \A i \in DOMAIN w : deps[w[i]] \subseteq {w[j] : j \in 1 .. i - 1}
  BY <1>2 DEF Acyclic
<1>7. w \in Seq(Service)
  BY <1>3, PermutationOf
<1>8. DOMAIN w = 1 .. Len(w)
  BY <1>7, LenProperties
<1>9. Topological(w, deps)
  BY <1>6, <1>8 DEF Topological
<1>10. Topological(order, deps)
  BY <1>1, <1>2, <1>3, <1>9, OrdersAreTopological
<1> QED BY <1>5, <1>10

IsFirst(order, i) == order[i] \in WithPorts /\ \A j \in 1 .. i - 1 : order[j] \notin WithPorts

LEMMA FirstIs ==
    ASSUME NEW order \in Seq(Service), ToSet(order) = Service
    PROVE  FirstWithPorts(order) \in Service \cup {NoService}
<1>1. CASE WithPorts = {}
  BY <1>1 DEF FirstWithPorts
<1>2. CASE WithPorts # {}
  <2> DEFINE T == {i \in 1 .. Len(order) : order[i] \in WithPorts}
  <2>1. Len(order) \in Nat /\ DOMAIN order = 1 .. Len(order) /\ \A i \in 1 .. Len(order) : order[i] \in Service
    BY LenProperties, ElementOfSeq
  <2>2. T \in SUBSET Nat /\ T # {}
    <3>1. PICK s \in WithPorts : s \in Service
      BY <1>2, Constants
    <3>2. PICK i \in 1 .. Len(order) : s = order[i]
      BY <3>1, ToSetOf
    <3> QED BY <2>1, <3>1, <3>2
  <2>3. PICK i \in T : \A y \in T : i <= y
    <3> HIDE DEF T
    <3> QED BY <2>2, LeastOf
  <2>4. i \in 1 .. Len(order) /\ order[i] \in WithPorts
    BY <2>3
  <2>5. \A j \in 1 .. i - 1 : j \in 1 .. Len(order) /\ ~(i <= j)
    BY <2>1, <2>4
  <2>6. IsFirst(order, i)
    BY <2>3, <2>4, <2>5 DEF IsFirst
  <2>7. \E k \in DOMAIN order : IsFirst(order, k)
    BY <2>1, <2>4, <2>6
  <2>8. FirstWithPorts(order) = order[CHOOSE k \in DOMAIN order : IsFirst(order, k)]
    BY <1>2 DEF FirstWithPorts, IsFirst
  <2>9. (CHOOSE k \in DOMAIN order : IsFirst(order, k)) \in DOMAIN order
    BY <2>7, Zenon
  <2> QED BY <2>1, <2>8, <2>9
<1> QED BY <1>1, <1>2

LEMMA ListExistingKeeps == ASSUME IInv, NEW order, ListExisting(order) PROVE IInv'
<1> DEFINE c == Cmd("list-containers")
           F(e) == [s \in Service |-> IF e.text = "ok" /\ Listed(s) # {}
                                      THEN CHOOSE i \in Listed(s) : TRUE ELSE NoId]
           o(e) == [Goto("create") EXCEPT !.order = order, !.primary = FirstWithPorts(order),
                                          !.existing = F(e)]
<1>1. /\ order \in orders /\ op.kind = "start" /\ op.pc = "list"
      /\ \E e \in Ends(c) : Called(e, o(e))
  BY DEF ListExisting
<1>2. PICK e \in Ends(c) : Called(e, o(e))
  BY <1>1
<1>3. CmdOK(c) /\ e.node = node
  BY ListEnds
<1> HIDE DEF c
<1>4. /\ order \in Seq(Service) /\ Distinct(order) /\ ToSet(order) = Service
      /\ Topological(order, deps)
  BY <1>1, OrderIs
<1>5. FirstWithPorts(order) \in Service \cup {NoService}
  BY <1>4, FirstIs
<1> DEFINE f == F(e)
<1>6. \A s \in Service : f[s] \in {NoId} \cup IdsOf(s)
  <2> SUFFICES ASSUME NEW s \in Service PROVE f[s] \in {NoId} \cup IdsOf(s)
    OBVIOUS
  <2>1. f[s] = NoId \/ f[s] \in Listed(s)
    OBVIOUS
  <2>2. Listed(s) \subseteq IdsOf(s)
    BY IdFacts DEF Listed, Visible, Containers
  <2> QED BY <2>1, <2>2
<1>7. f \in [Service -> Id \cup {NoId}]
  <2>1. \A s \in Service : f[s] \in Id \cup {NoId}
    BY <1>6, IdFacts
  <2>2. f = [s \in Service |-> f[s]]
    OBVIOUS
  <2> HIDE DEF f
  <2> QED BY <2>1, <2>2
<1> DEFINE q == o(e)
<1>8. Called(e, q)
  BY <1>2
<1>9. op \in OpType /\ op.todo = {} /\ \A s \in Service : op.created[s] = NoId
  BY <1>1, OpFacts DEF TodoOK, PhaseOK
<1>10. /\ q \in OpType /\ q.pc = "create" /\ q.kind = "start" /\ q.todo = {} /\ q.order = order
       /\ q.created = op.created /\ q.existing = f
  <2> HIDE DEF f, F
  <2>1. q = [Goto("create") EXCEPT !.order = order, !.primary = FirstWithPorts(order), !.existing = f]
    BY DEF f
  <2> HIDE DEF q
  <2> QED BY <1>1, <1>4, <1>5, <1>7, <1>9, <2>1 DEF Goto, OpType, PCs
<1> HIDE DEF f, F, q, o
<1>11. OwnIds(q) /\ TodoOK(q) /\ PhaseOK(q)
  BY <1>6, <1>9, <1>10 DEF OwnIds, TodoOK, PhaseOK
<1>12. OneHeld(q)
  <2>1. \A i \in Id : i[1] \in Service /\ i # NoId
    BY IdFacts
  <2>2. \A i \in Id : Holds(q, i) => i = f[i[1]]
    BY <1>9, <1>10, <2>1 DEF Holds
  <2> QED BY <2>2 DEF OneHeld, OneEach
<1>13. OpOK(q)
  BY <1>10, <1>11, <1>12 DEF OpOK
<1>14. InOrder(deps, q) /\ Started(node, q, disturbed) /\ q.pc \in Starting
  <2>1. Service \ ToSet(order) = {}
    BY <1>4
  <2>2. \A i \in 1 .. Len(order) : deps[order[i]] \subseteq {order[j] : j \in 1 .. i - 1}
    BY <1>4 DEF Topological
  <2> QED BY <1>4, <1>10, <2>1, <2>2 DEF InOrder, Started, Starting
<1>15. Goes(e.node, q, disturbed) /\ q.pc # "idle"
  BY <1>3, <1>14, StartGoes
<1> QED BY <1>3, <1>8, <1>13, <1>15, CalledOn

\* Undo takes with it what has been created or started.
LEMMA UndoOK ==
    ASSUME IInv, op.pc \in Starting
    PROVE  OpOK(Undo) /\ Undo.pc # "idle" /\ \A n : Goes(n, Undo, disturbed)
<1> DEFINE o == Undo
<1>1. /\ op.created \in [Service -> Id \cup {NoId}]
      /\ \A s \in Service : op.created[s] \in {NoId} \cup IdsOf(s)
  BY OpFacts, OpFields DEF OwnIds
<1>2. CreatedIds \subseteq Id /\ \A i \in CreatedIds : \E s \in Service : i = op.created[s]
  BY <1>1 DEF CreatedIds
<1>3. /\ o \in OpType /\ o.pc = "undo stop" /\ o.kind = "start" /\ o.todo = CreatedIds
      /\ o.created = op.created /\ o.existing = OpIdle.existing
  BY <1>1, <1>2, IdleFields DEF Undo, OpType, PCs
<1> HIDE DEF o
<1>4. \A s \in Service : o.existing[s] = NoId
  BY <1>3, IdleFields
<1>5. OwnIds(o) /\ TodoOK(o) /\ PhaseOK(o)
  BY <1>1, <1>2, <1>3, <1>4 DEF OwnIds, TodoOK, PhaseOK
<1>6. OneHeld(o)
  <2>1. ASSUME NEW i \in Id, Holds(o, i) PROVE i = op.created[i[1]]
    <3>1. i[1] \in Service /\ i # NoId
      BY IdFacts
    <3>2. i = op.created[i[1]] \/ i \in CreatedIds
      BY <1>3, <1>4, <2>1, <3>1 DEF Holds
    <3>3. ASSUME i \in CreatedIds PROVE i = op.created[i[1]]
      <4>1. PICK s \in Service : i = op.created[s]
        BY <1>2, <3>3
      <4>2. i \in IdsOf(s)
        BY <1>1, <3>1, <4>1
      <4>3. i[1] = s
        BY <4>2, IdFacts
      <4> QED BY <4>1, <4>3
    <3> QED BY <3>2, <3>3
  <2> QED BY <2>1 DEF OneHeld, OneEach
<1>7. OpOK(o)
  BY <1>3, <1>5, <1>6 DEF OpOK
<1>8. ASSUME NEW n PROVE Goes(n, o, disturbed)
  <2>1. ASSUME NEW s \in Service, o.created[s] \in ContsOf(n) PROVE o.created[s] \in o.todo
    <3>1. op.created[s] \in Id
      BY <1>3, <2>1 DEF ContsOf
    <3>2. op.created[s] # NoId
      BY <3>1, IdFacts
    <3>3. op.created[s] \in CreatedIds
      BY <3>2 DEF CreatedIds
    <3> QED BY <1>3, <3>3
  <2>2. Undone(n, o, disturbed) /\ o.pc \in Undoing
    BY <1>3, <2>1 DEF Undone, Undoing
  <2> QED BY <2>2, UndoGoes
<1>9. o.pc # "idle"
  BY <1>3
<1> QED BY <1>7, <1>8, <1>9 DEF o

\* The service whose turn it is gets a container.
LEMMA SvcIs ==
    ASSUME IInv, op.pc \in Starting, op.order # <<>>
    PROVE  /\ Svc \in Service /\ Svc \in ToSet(op.order) /\ Svc = op.order[1]
           /\ op.order \in Seq(Service) /\ Distinct(op.order) /\ ToSet(op.order) \subseteq Service
<1>1. op.order \in Seq(Service) /\ Distinct(op.order)
  BY OpFacts, OpFields DEF InOrder
<1> QED BY <1>1, TailDistinct, ToSetOf DEF Svc

LEMMA Chosen ==
    ASSUME IInv, op.pc = "create", op.order # <<>>, NEW x \in IdsOf(Svc), op.existing[Svc] \in {NoId, x},
           NEW n, \A s \in Service : s # Svc /\ RunsIn(node, op.created[s]) => RunsIn(n, op.created[s]),
           NEW o, o = [Goto("start") EXCEPT !.created[Svc] = x]
    PROVE  OpOK(o) /\ Goes(n, o, disturbed) /\ o.pc # "idle"
<1>1. /\ Svc \in Service /\ Svc \in ToSet(op.order) /\ op.order \in Seq(Service)
      /\ x \in Id /\ x[1] = Svc /\ x # NoId
  BY SvcIs, IdFacts DEF Starting
<1>2. /\ op \in OpType /\ op.created \in [Service -> Id \cup {NoId}] /\ op.todo = {} /\ op.kind = "start"
      /\ \A s \in Service : op.created[s] \in {NoId} \cup IdsOf(s) /\ op.existing[s] \in {NoId} \cup IdsOf(s)
      /\ OneHeld(op)
  BY OpFacts, OpFields DEF OwnIds, TodoOK, PhaseOK
<1>3. /\ o \in OpType /\ o.pc = "start" /\ o.kind = op.kind /\ o.todo = op.todo /\ o.order = op.order
      /\ o.existing = op.existing /\ o.created = [op.created EXCEPT ![Svc] = x]
  <2>1. Goto("start").created = op.created
    BY <1>2 DEF Goto, OpType
  <2>2. [op.created EXCEPT ![Svc] = x] \in [Service -> Id \cup {NoId}]
    BY <1>1, <1>2
  <2> QED BY <1>2, <2>1, <2>2 DEF Goto, OpType, PCs
<1>4. /\ o.created[Svc] = x /\ \A s \in Service : s # Svc => o.created[s] = op.created[s]
  BY <1>1, <1>2, <1>3
<1>5. OwnIds(o)
  <2>1. \A s \in Service : o.created[s] \in {NoId} \cup IdsOf(s)
    BY <1>2, <1>4
  <2> QED BY <1>2, <1>3, <2>1 DEF OwnIds
<1>6. TodoOK(o) /\ PhaseOK(o)
  BY <1>2, <1>3 DEF TodoOK, PhaseOK
<1>7. OneHeld(o)
  <2>1. ASSUME NEW i \in Id, Holds(o, i), i[1] = Svc PROVE i = x
    BY <1>2, <1>3, <1>4, <2>1, IdFacts DEF Holds
  <2>2. ASSUME NEW i \in Id, Holds(o, i), i[1] # Svc PROVE Holds(op, i)
    BY <1>3, <1>4, <2>2, IdFacts DEF Holds
  <2>3. \A i, j \in Id : Holds(op, i) /\ Holds(op, j) /\ i[1] = j[1] => i = j
    BY <1>2 DEF OneHeld, OneEach
  <2>4. \A i, j \in Id : Holds(o, i) /\ Holds(o, j) /\ i[1] = j[1] => i = j
    BY <2>1, <2>2, <2>3
  <2> QED BY <2>4 DEF OneHeld, OneEach
<1>8. OpOK(o)
  BY <1>3, <1>5, <1>6, <1>7 DEF OpOK
<1>9. \A s \in Service \ ToSet(o.order) : s \in Service \ ToSet(op.order) /\ s # Svc /\ o.created[s] = op.created[s]
  BY <1>1, <1>3, <1>4
<1>10. InOrder(deps, o)
  <2>1. InOrder(deps, op)
    BY OpFacts
  <2>2. o.created[Head(o.order)] # NoId
    BY <1>1, <1>3, <1>4 DEF Svc
  <2>3. /\ Distinct(op.order)
        /\ \A i \in 1 .. Len(op.order) :
              deps[op.order[i]] \subseteq
                  (Service \ ToSet(op.order)) \cup {op.order[j] : j \in 1 .. i - 1}
        /\ \A s \in Service \ ToSet(op.order) : op.created[s] # NoId
    BY <2>1 DEF InOrder, Starting
  <2>4. \A s \in Service \ ToSet(o.order) : o.created[s] # NoId
    BY <1>9, <2>3
  <2> QED BY <1>3, <2>2, <2>3, <2>4 DEF InOrder
<1>11. Started(n, o, disturbed)
  <2>1. ~disturbed => \A s \in Service \ ToSet(op.order) : RunsIn(node, op.created[s])
    BY OpFacts DEF Started, Starting
  <2>2. ~disturbed => \A s \in Service \ ToSet(o.order) : RunsIn(n, o.created[s])
    BY <1>9, <2>1
  <2> QED BY <1>3, <2>2 DEF Started
<1>12. o.pc \in Starting
  BY <1>3 DEF Starting
<1> QED BY <1>8, <1>10, <1>11, <1>12, StartGoes

LEMMA CreateContainerKeeps == IInv /\ CreateContainer => IInv'
<1> SUFFICES ASSUME IInv, CreateContainer PROVE IInv'
  OBVIOUS
<1>0. op.pc = "create" /\ op.pc \in Starting
  BY DEF CreateContainer, Starting
<1>1. CASE op.order = <<>>
  BY <1>1, ReturnAtOnceKeeps DEF CreateContainer
<1>2. CASE op.order # <<>> /\ op.existing[Svc] # NoId
  <2> DEFINE x == op.existing[Svc]
             o == [Goto("start") EXCEPT !.created[Svc] = x]
  <2>1. Local(o)
    BY <1>2 DEF CreateContainer
  <2>2. x \in IdsOf(Svc)
    BY <1>0, <1>2, SvcIs, OpFacts DEF OwnIds
  <2>3. op.existing[Svc] \in {NoId, x}
    OBVIOUS
  <2> HIDE DEF x
  <2>4. OpOK(o) /\ Goes(node, o, disturbed) /\ o.pc # "idle"
    BY <1>0, <1>2, <2>2, <2>3, Chosen
  <2> QED BY <2>1, <2>4, LocalOn
<1>3. CASE op.order # <<>> /\ op.existing[Svc] = NoId
  <2> DEFINE c == [CmdFor("create-container", Svc) EXCEPT !.bound = (Svc = op.primary)]
             x == Fresh(Svc)
             o == [Goto("start") EXCEPT !.created[Svc] = x]
  <2>1. \E e \in Ends(c) : Called(e, IF e.text = "ok" THEN o ELSE Undo)
    BY <1>3 DEF CreateContainer
  <2>2. CmdOK(c) /\ c.do = "create-container" /\ c.name = Svc
    <3>1. Svc \in Service /\ (Svc = op.primary) \in BOOLEAN
      BY <1>0, <1>3, SvcIs
    <3> QED BY <3>1, CreateCmdOK
  <2> HIDE DEF c
  <2>3. PICK e \in Ends(c) : Called(e, IF e.text = "ok" THEN o ELSE Undo)
    BY <2>1
  <2>4. CASE e.text = "ok"
    <3>1. Answered(e, c)
      <4>1. Answered(e, c) \/ Lost(e, c) \/ Unnoticed(e, c)
        BY <2>2, OpFacts, EndsTyped
      <4>2. ~Lost(e, c)
        BY <2>4 DEF Lost
      <4>3. ~Unnoticed(e, c)
        BY <2>2 DEF Unnoticed
      <4> QED BY <4>1, <4>2, <4>3
    <3>2. Execute(c).text = "ok" /\ e.node = Execute(c).node
      BY <2>4, <3>1 DEF Answered
    <3>3. /\ x \in Id /\ x[1] = Svc /\ x \notin Referenced
          /\ \A j \in Id : j # x => e.node.cont[j] = node.cont[j]
      BY <2>2, <3>2, OpFacts, CreateEffect
    <3> HIDE DEF x
    <3>4. x \in IdsOf(Svc)
      BY <3>3, IdFacts
    <3>5. \A s \in Service : op.created[s] # x
      BY <3>3 DEF Referenced
    <3>6. \A s \in Service : RunsIn(node, op.created[s]) => RunsIn(e.node, op.created[s])
      BY <3>3, <3>5 DEF RunsIn
    <3>7. OpOK(o) /\ Goes(e.node, o, disturbed) /\ o.pc # "idle"
      <4>1. op.existing[Svc] \in {NoId, x}
        BY <1>3
      <4> QED BY <1>0, <1>3, <3>4, <3>6, <4>1, Chosen
    <3>8. Called(e, o)
      BY <2>3, <2>4
    <3> QED BY <2>2, <3>7, <3>8, CalledOn
  <2>5. CASE e.text # "ok"
    <3>1. Called(e, Undo)
      BY <2>3, <2>5
    <3> QED BY <1>0, <2>2, <3>1, UndoOK, CalledOn
  <2> QED BY <2>4, <2>5
<1> QED BY <1>1, <1>2, <1>3

LEMMA StartContainerKeeps == IInv /\ StartContainer => IInv'
<1> SUFFICES ASSUME IInv, StartContainer PROVE IInv'
  OBVIOUS
<1>0. op.pc = "start" /\ op.pc \in Starting /\ op.order # <<>>
  BY OpFacts DEF StartContainer, Starting, PhaseOK
<1>1. Svc \in Service
  BY <1>0, SvcIs
<1> DEFINE i == op.created[Svc]
           c == CmdOn("start-container", i)
           o == Goto("inspect")
<1>2. \E e \in Ends(c) : Called(e, IF e.text \in {"ok", "is already running"} THEN o ELSE Undo)
  BY DEF StartContainer
<1>3. i \in Id \cup {NoId}
  BY <1>1, OpFacts, OpFields
<1> HIDE DEF i
<1>4. CmdOK(c) /\ c.do = "start-container" /\ c.id = i
  BY <1>3, CmdsOK
<1> HIDE DEF c
<1>5. PICK e \in Ends(c) : Called(e, IF e.text \in {"ok", "is already running"} THEN o ELSE Undo)
  BY <1>2
<1>6. CASE e.text \in {"ok", "is already running"}
  <2>1. Answered(e, c)
    <3>1. Answered(e, c) \/ Lost(e, c) \/ Unnoticed(e, c)
      BY <1>4, OpFacts, EndsTyped
    <3>2. ~Lost(e, c)
      BY <1>6 DEF Lost
    <3>3. ~Unnoticed(e, c)
      BY <1>4 DEF Unnoticed
    <3> QED BY <3>1, <3>2, <3>3
  <2>2. Execute(c).text \in {"ok", "is already running"} /\ e.node = Execute(c).node
    BY <1>6, <2>1 DEF Answered
  <2>3. RunsIn(e.node, i) /\ \A j : RunsIn(node, j) => RunsIn(e.node, j)
    BY <1>4, <2>2, OpFacts, StartEffect
  <2>4. Moved(o, "inspect", op.todo, op.failed)
    BY OpFacts, MovedIs DEF PCs
  <2>5. Called(e, o)
    BY <1>5, <1>6
  <2> HIDE DEF o
  <2>6. /\ o.pc = "inspect" /\ o.todo = op.todo /\ o.kind = op.kind /\ o.order = op.order
        /\ o.created = op.created /\ o.existing = op.existing
    BY <2>4 DEF Moved
  <2>7. TodoOK(o) /\ PhaseOK(o)
    BY <1>0, <2>6, OpFacts DEF TodoOK, PhaseOK
  <2>8. OpOK(o)
    BY <2>4, <2>7, OpFacts, MovedOK
  <2>9. InOrder(deps, o)
    BY <1>0, <2>6, OpFacts DEF InOrder, Starting
  <2>10. Started(e.node, o, disturbed)
    <3>1. o.created[Head(o.order)] = i
      BY <2>6 DEF i, Svc
    <3>2. ~disturbed => \A s \in Service \ ToSet(op.order) : RunsIn(node, op.created[s])
      BY <1>0, OpFacts DEF Started
    <3>3. ~disturbed => \A s \in Service \ ToSet(o.order) : RunsIn(e.node, o.created[s])
      BY <2>3, <2>6, <3>2
    <3> QED BY <2>3, <3>1, <3>3 DEF Started
  <2>11. o.pc \in Starting
    BY <2>6 DEF Starting
  <2> QED BY <1>4, <2>5, <2>8, <2>9, <2>10, <2>11, StartGoes, CalledOn
<1>7. CASE e.text \notin {"ok", "is already running"}
  <2>1. Called(e, Undo)
    BY <1>5, <1>7
  <2> QED BY <1>0, <1>4, <2>1, UndoOK, CalledOn
<1> QED BY <1>6, <1>7

LEMMA InspectContainerKeeps == IInv /\ InspectContainer => IInv'
<1> SUFFICES ASSUME IInv, InspectContainer PROVE IInv'
  OBVIOUS
<1>0. op.pc = "inspect" /\ op.pc \in Starting /\ op.order # <<>>
  BY OpFacts DEF InspectContainer, Starting, PhaseOK
<1>1. /\ Svc \in Service /\ Svc \in ToSet(op.order) /\ op.order \in Seq(Service)
      /\ Distinct(op.order) /\ ToSet(op.order) \subseteq Service
  BY <1>0, SvcIs
<1> DEFINE i == op.created[Svc]
           c == CmdOn("inspect-container", i)
           o == [Goto("create") EXCEPT !.order = Tail(op.order)]
<1>2. \E e \in Ends(c) : Called(e, IF e.text = "ok" THEN o ELSE Undo)
  <2>1. [Goto("create") EXCEPT !.order = Tail(@)] = o
    BY OpFacts DEF Goto, OpType
  <2> QED BY <2>1 DEF InspectContainer
<1>3. i \in Id \cup {NoId}
  BY <1>1, OpFacts, OpFields
<1> HIDE DEF i
<1>4. CmdOK(c) /\ c.do = "inspect-container" /\ c.id = i
  BY <1>3, CmdsOK
<1> HIDE DEF c
<1>5. PICK e \in Ends(c) : Called(e, IF e.text = "ok" THEN o ELSE Undo)
  BY <1>2
<1>6. CASE e.text = "ok"
  <2>1. e.node = node
    <3>1. Answered(e, c) \/ Lost(e, c) \/ Unnoticed(e, c)
      BY <1>4, OpFacts, EndsTyped
    <3>2. Execute(c).node = node
      BY <1>4, InspectEffect
    <3> QED BY <3>1, <3>2 DEF Answered, Lost, Unnoticed
  <2>2. /\ Tail(op.order) \in Seq(Service) /\ Len(Tail(op.order)) = Len(op.order) - 1
        /\ Len(op.order) \in Nat \ {0}
        /\ ToSet(Tail(op.order)) = ToSet(op.order) \ {Svc} /\ Svc = op.order[1]
        /\ Distinct(Tail(op.order))
        /\ \A k \in 1 .. Len(Tail(op.order)) : Tail(op.order)[k] = op.order[k + 1]
    BY <1>0, <1>1, TailDistinct DEF Svc
  <2>3. op \in OpType
    BY OpFacts
  <2>4. /\ o \in OpType /\ o.pc = "create" /\ o.todo = op.todo /\ o.kind = op.kind
        /\ o.order = Tail(op.order) /\ o.created = op.created /\ o.existing = op.existing
    BY <2>2, <2>3 DEF Goto, OpType, PCs
  <2>5. Called(e, o)
    BY <1>5, <1>6
  <2> HIDE DEF o
  <2>6. TodoOK(o) /\ PhaseOK(o)
    BY <1>0, <2>4, OpFacts DEF TodoOK, PhaseOK
  <2>7. OpOK(o)
    <3>1. o.todo \cap Id \subseteq op.todo
      BY <2>4
    <3> QED BY <2>4, <2>6, <3>1, OpFacts, HoldsLess
  <2>8. \A s \in Service \ ToSet(o.order) : s = Svc \/ s \in Service \ ToSet(op.order)
    BY <2>2, <2>4
  <2>9. InOrder(deps, o)
    <3>1. /\ \A k \in 1 .. Len(op.order) :
               deps[op.order[k]] \subseteq
                  (Service \ ToSet(op.order)) \cup {op.order[j] : j \in 1 .. k - 1}
          /\ \A s \in Service \ ToSet(op.order) : op.created[s] # NoId
          /\ op.created[Svc] # NoId
      BY <1>0, OpFacts DEF InOrder, Svc
    <3>2. ASSUME NEW k \in 1 .. Len(o.order)
          PROVE  deps[o.order[k]] \subseteq (Service \ ToSet(o.order)) \cup {o.order[j] : j \in 1 .. k - 1}
      <4> SUFFICES ASSUME NEW d \in deps[o.order[k]], d \in ToSet(o.order)
                   PROVE  d \in {o.order[j] : j \in 1 .. k - 1}
        <5>1. k + 1 \in 1 .. Len(op.order) /\ o.order[k] = op.order[k + 1]
          BY <2>2, <2>4
        <5>2. deps[o.order[k]] \subseteq (Service \ ToSet(op.order)) \cup {op.order[j] : j \in 1 .. (k + 1) - 1}
          BY <3>1, <5>1
        <5>3. \A j \in 1 .. (k + 1) - 1 : j \in 1 .. Len(op.order)
          BY <2>2, <2>4
        <5>4. deps[o.order[k]] \subseteq Service
          BY <1>1, <5>2, <5>3, ElementOfSeq
        <5> QED BY <5>4
      <4>1. k + 1 \in 1 .. Len(op.order) /\ o.order[k] = op.order[k + 1] /\ k + 1 - 1 = k
        BY <2>2, <2>4
      <4>2. d \in (Service \ ToSet(op.order)) \cup {op.order[j] : j \in 1 .. k}
        BY <3>1, <4>1
      <4>3. d \in ToSet(op.order) /\ d # Svc
        BY <2>2, <2>4
      <4>4. PICK j \in 1 .. k : d = op.order[j]
        BY <4>2, <4>3
      <4>5. j # 1
        BY <2>2, <4>3, <4>4
      <4>6. j - 1 \in 1 .. k - 1 /\ j - 1 \in 1 .. Len(o.order) /\ j - 1 + 1 = j
        BY <2>2, <2>4, <4>4, <4>5
      <4>7. o.order[j - 1] = op.order[j]
        BY <2>2, <2>4, <4>6
      <4> QED BY <4>4, <4>6, <4>7
    <3>3. \A s \in Service \ ToSet(o.order) : o.created[s] # NoId
      BY <2>4, <2>8, <3>1
    <3>4. Distinct(o.order)
      BY <2>2, <2>4
    <3> QED BY <2>4, <3>2, <3>3, <3>4 DEF InOrder
  <2>10. Started(node, o, disturbed)
    <3>1. ~disturbed => /\ \A s \in Service \ ToSet(op.order) : RunsIn(node, op.created[s])
                        /\ RunsIn(node, op.created[Svc])
      BY <1>0, OpFacts DEF Started, Svc
    <3>2. ~disturbed => \A s \in Service \ ToSet(o.order) : RunsIn(node, o.created[s])
      BY <2>4, <2>8, <3>1
    <3> QED BY <2>4, <3>2 DEF Started
  <2>11. o.pc \in Starting
    BY <2>4 DEF Starting
  <2> QED BY <1>4, <2>1, <2>5, <2>7, <2>9, <2>10, <2>11, StartGoes, CalledOn
<1>7. CASE e.text # "ok"
  <2>1. Called(e, Undo)
    BY <1>5, <1>7
  <2> QED BY <1>0, <1>4, <2>1, UndoOK, CalledOn
<1> QED BY <1>6, <1>7

-----------------------------------------------------------------------------
(***************************************************************************)
(* What happens meanwhile, and the invariant.                              *)
(***************************************************************************)
LEMMA DisturbedGoes ==
    ASSUME IInv, NEW n
    PROVE  Goes(n, op, TRUE)
<1>1. InOrder(deps, op)
  BY OpFacts
<1>2. Started(n, op, TRUE) /\ Undone(n, op, TRUE) /\ Stopping(hidden, n, op, TRUE)
  BY DEF Started, Undone, Stopping
<1> QED BY <1>1, <1>2 DEF Goes

LEMMA LateEffectKeeps == IInv /\ LateEffect => IInv'
<1> SUFFICES ASSUME IInv, LateEffect PROVE IInv'
  OBVIOUS
<1>1. PICK k \in Slot : /\ late[k] # NoCmd
                        /\ node' \in {Execute(late[k]).node, node}
                        /\ late' = [late EXCEPT ![k] = NoCmd]
  BY DEF LateEffect
<1>2. disturbed' = (disturbed \/ (op.pc # "idle" /\ node' # node)) /\ op' = op /\ calm' = calm
  BY DEF LateEffect
<1>3. UNCHANGED <<deps, hidden, orders>>
  BY DEF LateEffect
<1>4. /\ LateType(late) /\ TypeInv /\ OneInv /\ node \in NodeType /\ OneEach(ContsOf(node)) /\ OpOK(op)
      /\ disturbed \in BOOLEAN /\ calm \in BOOLEAN /\ Goes(node, op, disturbed)
  BY OpFacts
<1>5. late \in [Slot -> CmdType \cup {NoCmd}] /\ \A j \in Slot : late[j] # NoCmd => CmdOK(late[j])
  BY <1>4 DEF LateType
<1>6. LateType(late')
  <2>1. late' \in [Slot -> CmdType \cup {NoCmd}] /\ \A j \in Slot : late'[j] \in {NoCmd, late[j]}
    BY <1>1, <1>5
  <2>2. \A j \in Slot : late'[j] # NoCmd => CmdOK(late'[j])
    BY <1>5, <2>1
  <2> QED BY <2>1, <2>2 DEF LateType
<1>7. node' \in NodeType /\ OneEach(ContsOf(node'))
  <2>1. CmdOK(late[k])
    BY <1>1, <1>5
  <2>2. Execute(late[k]).node \in NodeType /\ OneEach(ContsOf(Execute(late[k]).node))
    BY <1>4, <2>1, ExecuteTyped
  <2>3. CASE node' = node
    <3>1. OneEach(ContsOf(node)) /\ node \in NodeType
      BY <1>4
    <3> QED BY <2>3, <3>1
  <2>4. CASE node' = Execute(late[k]).node
    BY <2>2, <2>4
  <2> QED BY <1>1, <2>3, <2>4
<1>8. disturbed' \in BOOLEAN /\ Goes(node', op, disturbed')
  <2>1. CASE op.pc = "idle"
    BY <1>2, <1>4, <2>1, QuietGoes DEF Quiet
  <2>2. CASE op.pc # "idle" /\ node' = node
    <3>1. disturbed' = disturbed
      BY <1>2, <1>4, <2>2
    <3> QED BY <1>4, <2>2, <3>1
  <2>3. CASE op.pc # "idle" /\ node' # node
    <3>1. disturbed' = TRUE
      BY <1>2, <1>4, <2>3
    <3> QED BY <3>1, DisturbedGoes
  <2> QED BY <2>1, <2>2, <2>3
<1> QED BY <1>2, <1>3, <1>4, <1>6, <1>7, <1>8, StepKeeps

LEMMA BecomesKeeps ==
    ASSUME IInv, NEW i \in Id, node.cont[i].st \in Up, NEW st \in {"exited"} \cup Up, Becomes(i, st)
    PROVE  IInv'
<1>1. /\ node' = [node EXCEPT !.cont[i].st = st] /\ op' = op /\ calm' = calm /\ late' = late
      /\ disturbed' = (disturbed \/ (op.pc # "idle" /\ st = "exited"))
  BY DEF Becomes
<1>3. UNCHANGED <<deps, hidden, orders>>
  BY DEF Becomes
<1>4. /\ LateType(late) /\ node \in NodeType /\ OneEach(ContsOf(node)) /\ OpOK(op) /\ calm \in BOOLEAN
      /\ disturbed \in BOOLEAN /\ Goes(node, op, disturbed)
  BY OpFacts
<1>5. node.cont[i] \in Container
  BY <1>4, NodeFields
<1> DEFINE c == [node.cont[i] EXCEPT !.st = st]
<1>6. c \in Container /\ c.st = st
  BY <1>5 DEF Container
<1>7. node' = Changed(node, i, c)
  BY <1>1, <1>5 DEF Changed
<1> HIDE DEF c
<1> DEFINE n == Changed(node, i, c)
<1>8. n \in NodeType /\ n.cont[i] = c /\ \A j \in Id : j # i => n.cont[j] = node.cont[j]
  BY <1>4, <1>5, <1>6, ChangedNode
<1> HIDE DEF n
<1>9. ContsOf(n) = ContsOf(node)
  BY <1>6, <1>8 DEF ContsOf
<1>10. n \in NodeType /\ OneEach(ContsOf(n))
  BY <1>4, <1>8, <1>9
<1>11. disturbed' \in BOOLEAN /\ Goes(n, op, disturbed')
  <2>0. disturbed' \in BOOLEAN
    BY <1>1, <1>4
  <2>1. CASE op.pc = "idle"
    BY <2>0, <2>1, QuietGoes DEF Quiet
  <2>2. CASE op.pc # "idle" /\ st = "exited"
    <3>1. disturbed' = TRUE
      BY <1>1, <2>2
    <3> QED BY <3>1, DisturbedGoes
  <2>3. CASE st # "exited"
    <3>1. disturbed' = disturbed
      BY <1>1, <1>4, <2>3
    <3>2. \A j \in Id : n.cont[j].st \in Up <=> node.cont[j].st \in Up
      BY <1>6, <1>8, <2>3
    <3>3. UpIn(n) = UpIn(node) /\ \A j : RunsIn(n, j) <=> RunsIn(node, j)
      BY <3>2 DEF UpIn, RunsIn
    <3>4. Goes(n, op, disturbed)
      BY <1>4, <1>9, <3>3 DEF Goes, Started, Undone, Stopping
    <3> QED BY <2>0, <3>1, <3>4
  <2> QED BY <2>1, <2>2, <2>3
<1>12. node' = n
  BY <1>7 DEF n
<1> QED BY <1>1, <1>3, <1>4, <1>10, <1>11, <1>12, StepKeeps

LEMMA ContainerExitsKeeps == IInv /\ ContainerExits => IInv'
<1> SUFFICES ASSUME IInv, ContainerExits PROVE IInv'
  OBVIOUS
<1>1. PICK i \in Running : Becomes(i, "exited") \/ Becomes(i, "restarting")
  BY DEF ContainerExits
<1>2. i \in Id /\ node.cont[i].st \in Up
  BY DEF Running, In, Containers
<1> QED BY <1>1, <1>2, BecomesKeeps

LEMMA DaemonRestartsKeeps == IInv /\ DaemonRestarts => IInv'
<1> SUFFICES ASSUME IInv, DaemonRestarts PROVE IInv'
  OBVIOUS
<1>1. PICK i \in In("restarting") : Becomes(i, "running") \/ Becomes(i, "exited")
  BY DEF DaemonRestarts
<1>2. i \in Id /\ node.cont[i].st \in Up
  BY DEF In, Containers
<1> QED BY <1>1, <1>2, BecomesKeeps

LEMMA CrashKeeps == IInv /\ Crash => IInv'
<1>1. OpIdle = Return("none")
  BY IdleFields DEF Return, OpType
<1> QED BY <1>1, ReturnAtOnceKeeps DEF Crash

LEMMA BecomesCalmKeeps == IInv /\ BecomesCalm => IInv'
<1> SUFFICES ASSUME IInv, BecomesCalm PROVE IInv'
  OBVIOUS
<1>1. node' = node /\ late' = late /\ op' = op /\ disturbed' = disturbed /\ calm' = TRUE
  BY DEF BecomesCalm
<1>2. UNCHANGED <<deps, hidden, orders>>
  BY DEF BecomesCalm
<1>3. /\ LateType(late) /\ node \in NodeType /\ OneEach(ContsOf(node)) /\ OpOK(op)
      /\ disturbed \in BOOLEAN /\ Goes(node, op, disturbed) /\ TRUE \in BOOLEAN
  BY OpFacts
<1> QED BY <1>1, <1>2, <1>3, StepKeeps

LEMMA StutterKeeps == IInv /\ UNCHANGED vars => IInv'
<1> SUFFICES ASSUME IInv, UNCHANGED vars PROVE IInv'
  OBVIOUS
<1>1. node' = node /\ late' = late /\ op' = op /\ disturbed' = disturbed /\ calm' = calm
  BY DEF vars
<1>2. UNCHANGED <<deps, hidden, orders>>
  BY DEF vars
<1>3. /\ LateType(late) /\ node \in NodeType /\ OneEach(ContsOf(node)) /\ OpOK(op)
      /\ disturbed \in BOOLEAN /\ Goes(node, op, disturbed) /\ calm \in BOOLEAN
  BY OpFacts
<1> QED BY <1>1, <1>2, <1>3, StepKeeps

LEMMA InitOK == Init => IInv
<1> SUFFICES ASSUME Init PROVE IInv
  OBVIOUS
<1>1. /\ deps \in Graphs /\ orders = Orders(Service, deps) /\ calm = FALSE /\ disturbed = FALSE
      /\ hidden \in Hidings
      /\ op = OpIdle /\ late = [k \in Slot |-> NoCmd]
      /\ node = [net |-> FALSE, vols |-> {}, images |-> {}, cont |-> [i \in Id |-> NoContainer]]
  BY DEF Init
<1>2. NoContainer \in Container /\ NoContainer.st = "none"
  BY DEF NoContainer, Container
<1>3. node \in NodeType /\ \A i \in Id : node.cont[i] = NoContainer
  BY <1>1, <1>2 DEF NodeType
<1>4. OneEach(ContsOf(node))
  <2>1. ContsOf(node) = {}
    BY <1>2, <1>3 DEF ContsOf
  <2> QED BY <2>1 DEF OneEach
<1>5. LateType(late)
  BY <1>1 DEF LateType
<1>6. OpOK(op) /\ op.pc = "idle"
  <2>1. OpIdle = Return("none")
    BY IdleFields DEF Return, OpType
  <2> QED BY <1>1, <2>1, ReturnOK
<1>7. Goes(node, op, disturbed)
  BY <1>6, QuietGoes DEF Quiet
<1> QED BY <1>1, <1>3, <1>4, <1>5, <1>6, <1>7, Parts

LEMMA NextKeeps == IInv /\ [Next]_vars => IInv'
<1> SUFFICES ASSUME IInv, [Next]_vars PROVE IInv'
  OBVIOUS
<1>1. CASE StartDeployment
  <2>1. Begin("start", "network")
    BY <1>1 DEF StartDeployment
  <2> QED BY <2>1, Beginnings, BeginKeeps
<1>2. CASE StopDeployment
  BY <1>2, Beginnings, BeginKeeps DEF StopDeployment
<1>3. CASE RemoveDeployment
  BY <1>3, Beginnings, BeginKeeps DEF RemoveDeployment
<1>4. CASE Step
  BY <1>4, CreateNetworkKeeps, CreateVolumeKeeps, ImageExistsKeeps, PullImageKeeps, ListExistingKeeps,
     CreateContainerKeeps, StartContainerKeeps, InspectContainerKeeps, UndoStopKeeps, UndoRemoveKeeps,
     UndoNetworkKeeps, ListToStopKeeps, StopContainerKeeps, ListToRemoveKeeps, RemoveStopKeeps,
     RemoveContainerKeeps, RemoveNetworkKeeps DEF Step
<1>5. CASE LateEffect \/ ContainerExits \/ DaemonRestarts \/ Crash \/ BecomesCalm
  BY <1>5, LateEffectKeeps, ContainerExitsKeeps, DaemonRestartsKeeps, CrashKeeps, BecomesCalmKeeps
<1>6. CASE UNCHANGED vars
  BY <1>6, StutterKeeps
<1> QED BY <1>1, <1>2, <1>3, <1>4, <1>5, <1>6 DEF Next

\* In every state of the orchestrator and the node: no name has two containers,
\* the operation holds at most one container of each service, the services still
\* to be started are in an order in which the others come first, and what a
\* cleanup, a stop or a removal can see and has not yet done is on its list.
THEOREM OrchestratorInvariant == Spec => []IInv
<1>1. Init => IInv
  BY InitOK
<1>2. IInv /\ [Next]_vars => IInv'
  BY NextKeeps
<1> QED BY <1>1, <1>2, PTL DEF Spec

\* The type invariant of the run: the daemon and the containers that the start
\* of a service uses, for every compose file and any number of lost calls.
THEOREM OrchestratorTypeCorrect == Spec => []TypeOK
<1>1. IInv => TypeOK
  <2> SUFFICES ASSUME IInv PROVE TypeOK
    OBVIOUS
  <2>1. deps \in [Service -> SUBSET Service] /\ hidden \subseteq Service
    BY Parts, OrchestratorAssumption
  <2>2. /\ node.net \in BOOLEAN /\ node.vols \subseteq Volume /\ node.images \subseteq Service
        /\ node.cont \in [Id -> Container]
    BY OpFacts, NodeFields
  <2>3. \A s \in Service : op.created[s] \in {NoId} \cup IdsOf(s)
    BY OpFacts DEF OwnIds
  <2> QED BY <2>1, <2>2, <2>3 DEF TypeOK, Container, IdsOf
<1> QED BY <1>1, OrchestratorInvariant, PTL

-----------------------------------------------------------------------------
(***************************************************************************)
(* What an operation has achieved when it returns.                         *)
(***************************************************************************)
\* The last step of each operation.
LastStep ==
    \/ op'.result = "none"
    \/ op.pc = "create" /\ op.order = <<>> /\ op'.result = "ok"
    \/ op.pc \in {"network", "pull", "undo network"} /\ op'.result = "error"
    \/ op.pc = "list" /\ op.kind \in {"stop", "remove"} /\ op'.result = "error"
    \/ op.pc = "stop" /\ op.todo = {} /\ op'.result = "ok"
    \/ /\ op.pc = "remove network" /\ op'.result = "ok"
       /\ \E e \in Ends(Cmd("remove-network")) : node' = e.node /\ late' = e.late

\* The operation with other values of its variables.
GoDo(p, t) == [Goto(p) EXCEPT !.todo = t]
Do(t) == [op EXCEPT !.todo = t]
GoList(x, y, z) == [Goto("create") EXCEPT !.order = x, !.primary = y, !.existing = z]
GoStart(x) == [Goto("start") EXCEPT !.created[Svc] = x]
GoCreate(x) == [Goto("create") EXCEPT !.order = x]
GoStop(x, y) == [Goto("stop") EXCEPT !.todo = x, !.skipped = y]
GoRemove(x, y) == [Goto("remove stop") EXCEPT !.todo = x, !.running = y]

LEMMA Places ==
    ASSUME op \in OpType
    PROVE  /\ \A p : Goto(p).pc = p
           /\ \A p, t : GoDo(p, t).pc = p
           /\ \A t : Do(t).pc = op.pc
           /\ \A p, e : Failing(Goto(p), e).pc = p
           /\ \A p, t, e : Failing(GoDo(p, t), e).pc = p
           /\ \A t, e : Failing(Do(t), e).pc = op.pc
           /\ \A x, y, z : GoList(x, y, z).pc = "create"
           /\ \A x : GoStart(x).pc = "start" /\ GoCreate(x).pc = "create"
           /\ \A x, y : GoStop(x, y).pc = "stop"
           /\ \A x, y : GoRemove(x, y).pc = "remove stop"
           /\ Undo.pc = "undo stop"
           /\ \A r : Return(r).pc = "idle" /\ Return(r).result = r
BY IdleFields DEF Goto, GoDo, Do, GoList, GoStart, GoCreate, GoStop, GoRemove, Failing, Undo, Return, OpType

LEMMA WhoReturns ==
    ASSUME IInv, Next, op.pc # "idle", op'.pc = "idle"
    PROVE  LastStep
<1>0. op \in OpType /\ TodoOK(op)
  BY OpFacts
<1>1. CASE StartDeployment \/ StopDeployment \/ RemoveDeployment
  BY <1>1 DEF StartDeployment, StopDeployment, RemoveDeployment, Begin
<1>2. CASE CreateNetwork
  <2>1. /\ op.pc = "network"
        /\ \/ op' = GoDo("volumes", Volume)
           \/ op' = Return("error")
    BY <1>2 DEF CreateNetwork, Called, GoDo
  <2>2. /\ \A p, t : GoDo(p, t).pc = p
        /\ \A r : Return(r).pc = "idle" /\ Return(r).result = r
    BY <1>0, Places
  <2>3. op'.pc \in {"volumes"} \/ op'.result = "error"
    BY <2>1, <2>2
  <2> QED BY <2>1, <2>3 DEF LastStep
<1>3. CASE CreateVolume
  <2>1. /\ op.pc = "volumes"
        /\ \/ op' = GoDo("exists", Service)
           \/ \E t : op' = Do(t)
           \/ op' = GoDo("undo network", {})
    BY <1>3 DEF CreateVolume, Local, Called, GoDo, Do
  <2>2. /\ \A p, t : GoDo(p, t).pc = p
        /\ \A t : Do(t).pc = op.pc
    BY <1>0, Places
  <2>3. op'.pc \in {"exists", "volumes", "undo network"}
    BY <2>1, <2>2
  <2> QED BY <2>3
<1>4. CASE ImageExists
  <2>1. /\ op.pc = "exists"
        /\ \/ op' = Goto("list")
           \/ \E t : op' = Do(t)
           \/ op' = Goto("pull")
    BY <1>4 DEF ImageExists, Local, Called, Do
  <2>2. /\ \A t : Do(t).pc = op.pc
        /\ \A p : Goto(p).pc = p
    BY <1>0, Places
  <2>3. op'.pc \in {"list", "exists", "pull"}
    BY <2>1, <2>2
  <2> QED BY <2>3
<1>5. CASE PullImage
  <2>1. /\ op.pc = "pull"
        /\ \/ \E t : op' = GoDo("exists", t)
           \/ op' = Return("error")
    BY <1>5 DEF PullImage, Called, GoDo
  <2>2. /\ \A p, t : GoDo(p, t).pc = p
        /\ \A r : Return(r).pc = "idle" /\ Return(r).result = r
    BY <1>0, Places
  <2>3. op'.pc \in {"exists"} \/ op'.result = "error"
    BY <2>1, <2>2
  <2> QED BY <2>1, <2>3 DEF LastStep
<1>6. CASE \E order \in SetToSeqs(Service) : ListExisting(order)
  <2>1. PICK order : ListExisting(order)
    BY <1>6
  <2> DEFINE f(e) == [s \in Service |-> IF e.text = "ok" /\ Listed(s) # {}
                                        THEN CHOOSE i \in Listed(s) : TRUE ELSE NoId]
  <2>2. \E x, y, z : op' = GoList(x, y, z)
    <3> DEFINE o(e) == [Goto("create") EXCEPT !.order = order, !.primary = FirstWithPorts(order),
                                              !.existing = f(e)]
    <3>0. \E e \in Ends(Cmd("list-containers")) : Called(e, o(e))
      BY <2>1 DEF ListExisting
    <3>1. PICK e : op' = o(e)
      <4> HIDE DEF o
      <4> QED BY <3>0 DEF Called
    <3> HIDE DEF f
    <3>2. op' = GoList(order, FirstWithPorts(order), f(e))
      BY <3>1 DEF GoList
    <3> QED BY <3>2
  <2>3. \A x, y, z : GoList(x, y, z).pc = "create"
    BY <1>0, Places
  <2>4. op'.pc = "create"
    BY <2>2, <2>3
  <2> QED BY <2>4
<1>7. CASE CreateContainer
  <2>1. CASE op.order = <<>>
    <3>1. op.pc = "create" /\ op' = Return("ok")
      BY <1>7, <2>1 DEF CreateContainer, Local, Called
    <3>2. op'.result = "ok"
      BY <1>0, <3>1, Places
    <3> QED BY <2>1, <3>1, <3>2 DEF LastStep
  <2>2. CASE op.order # <<>>
    <3>2. (\E x : op' = GoStart(x)) \/ op' = Undo
      BY <1>7, <2>2 DEF CreateContainer, Local, Called, GoStart
    <3>3. /\ \A x : GoStart(x).pc = "start"
          /\ Undo.pc = "undo stop"
      BY <1>0, Places
    <3>4. op'.pc \in {"start", "undo stop"}
      BY <3>2, <3>3
    <3> QED BY <3>4
  <2> QED BY <2>1, <2>2
<1>8. CASE StartContainer
  <2>1. /\ op.pc = "start"
        /\ \/ op' = Goto("inspect")
           \/ op' = Undo
    BY <1>8 DEF StartContainer, Called
  <2>2. /\ \A p : Goto(p).pc = p
        /\ Undo.pc = "undo stop"
    BY <1>0, Places
  <2>3. op'.pc \in {"inspect", "undo stop"}
    BY <2>1, <2>2
  <2> QED BY <2>3
<1>9. CASE InspectContainer
  <2>2. (\E x : op' = GoCreate(x)) \/ op' = Undo
    BY <1>9 DEF InspectContainer, Called, GoCreate
  <2>3. /\ \A x : GoCreate(x).pc = "create"
        /\ Undo.pc = "undo stop"
    BY <1>0, Places
  <2>4. op'.pc \in {"create", "undo stop"}
    BY <2>2, <2>3
  <2> QED BY <2>4
<1>10. CASE UndoStop
  <2>1. /\ op.pc = "undo stop"
        /\ \/ op' = Goto("undo network")
           \/ \E e : op' = Failing(Goto("undo remove"), e)
    BY <1>10 DEF UndoStop, Local, Called
  <2>2. /\ \A p, e : Failing(Goto(p), e).pc = p
        /\ \A p : Goto(p).pc = p
    BY <1>0, Places
  <2>3. op'.pc \in {"undo network", "undo remove"}
    BY <2>1, <2>2
  <2> QED BY <2>3
<1>11. CASE UndoRemove
  <2>1. /\ op.pc = "undo remove"
        /\ \/ \E t, e : op' = Failing(GoDo("undo stop", t), e)
    BY <1>11 DEF UndoRemove, Called, GoDo
  <2>2. \A p, t, e : Failing(GoDo(p, t), e).pc = p
    BY <1>0, Places
  <2>3. op'.pc \in {"undo stop"}
    BY <2>1, <2>2
  <2> QED BY <2>3
<1>12. CASE UndoNetwork
  <2>1. /\ op.pc = "undo network"
        /\ \/ op' = Return("error")
    BY <1>12 DEF UndoNetwork, Called
  <2>2. \A r : Return(r).pc = "idle" /\ Return(r).result = r
    BY <1>0, Places
  <2>3. op'.result = "error"
    BY <2>1, <2>2
  <2> QED BY <2>1, <2>3 DEF LastStep
<1>13. CASE ListToStop
  <2>1. /\ op.pc = "list" /\ op.kind = "stop"
        /\ \/ op' = GoStop(Visible \cap Running, Visible \cap In("restarting"))
           \/ op' = Return("error")
    BY <1>13 DEF ListToStop, Called, GoStop
  <2>2. /\ \A x, y : GoStop(x, y).pc = "stop"
        /\ \A r : Return(r).pc = "idle" /\ Return(r).result = r
    BY <1>0, Places
  <2>3. op'.pc \in {"stop"} \/ op'.result = "error"
    BY <2>1, <2>2
  <2> QED BY <2>1, <2>3 DEF LastStep
<1>14. CASE StopContainer
  <2>1. CASE op.todo = {}
    <3>1. op.pc = "stop" /\ op' = Return("ok")
      BY <1>14, <2>1 DEF StopContainer, Local, Called
    <3>2. op'.result = "ok"
      BY <1>0, <3>1, Places
    <3> QED BY <2>1, <3>1, <3>2 DEF LastStep
  <2>2. CASE op.todo # {}
    <3>1. op.pc = "stop" /\ \E t, e : op' = Failing(Do(t), e)
      BY <1>14, <2>2 DEF StopContainer, Called, Do
    <3>2. \A t, e : Failing(Do(t), e).pc = op.pc
      BY <1>0, Places
    <3>3. op'.pc = op.pc
      BY <3>1, <3>2
    <3> QED BY <3>3
  <2> QED BY <2>1, <2>2
<1>15. CASE ListToRemove
  <2>2. /\ op.pc = "list" /\ op.kind = "remove"
        /\ \/ op' = GoRemove(Visible, Visible \cap Running)
           \/ op' = Return("error")
    BY <1>15 DEF ListToRemove, Called, GoRemove
  <2>3. /\ \A x, y : GoRemove(x, y).pc = "remove stop"
        /\ \A r : Return(r).pc = "idle" /\ Return(r).result = r
    BY <1>0, Places
  <2>4. op'.pc = "remove stop" \/ op'.result = "error"
    BY <2>2, <2>3
  <2> QED BY <2>2, <2>4 DEF LastStep
<1>16. CASE RemoveStop
  <2>1. /\ op.pc = "remove stop"
        /\ \/ op' = Goto("remove network")
           \/ op' = Goto("remove")
    BY <1>16 DEF RemoveStop, Local, Called
  <2>2. \A p : Goto(p).pc = p
    BY <1>0, Places
  <2>3. op'.pc \in {"remove network", "remove"}
    BY <2>1, <2>2
  <2> QED BY <2>3
<1>17. CASE RemoveContainer
  <2>1. /\ op.pc = "remove"
        /\ \/ \E t, e : op' = Failing(GoDo("remove stop", t), e)
    BY <1>17 DEF RemoveContainer, Called, GoDo
  <2>2. \A p, t, e : Failing(GoDo(p, t), e).pc = p
    BY <1>0, Places
  <2>3. op'.pc \in {"remove stop"}
    BY <2>1, <2>2
  <2> QED BY <2>3
<1>18. CASE RemoveNetwork
  <2>1. PICK e \in Ends(Cmd("remove-network")) : Called(e, Return("ok"))
    BY <1>18 DEF RemoveNetwork
  <2>2. node' = e.node /\ late' = e.late /\ op'.result = "ok"
    BY <1>0, <2>1, Places DEF Called
  <2> QED BY <1>18, <2>2 DEF RemoveNetwork, LastStep
<1>19. CASE LateEffect \/ ContainerExits \/ DaemonRestarts \/ BecomesCalm
  <2>1. op' = op
    BY <1>19 DEF LateEffect, ContainerExits, DaemonRestarts, Becomes, BecomesCalm
  <2> QED BY <2>1
<1>20. CASE Crash
  BY <1>20, IdleFields DEF Crash, Local, Called, LastStep
<1>21. CASE Step
  BY <1>2, <1>3, <1>4, <1>5, <1>6, <1>7, <1>8, <1>9, <1>10, <1>11, <1>12, <1>13, <1>14, <1>15, <1>16,
     <1>17, <1>18, <1>21 DEF Step
<1> QED BY <1>1, <1>19, <1>20, <1>21 DEF Next

\* A start that reports success leaves every service running or between two
\* runs of its restart policy, unless a container exited for good or a late
\* command took effect meanwhile: whatever was on the node
\* before, and although the errors of ImageExists and ListContainers are ignored.
THEOREM SuccessfulStartRuns == Spec => StartedIsRunning
<1>1. IInv /\ Next => (Returns("start", "ok") /\ ~disturbed => All(Up))
  <2> SUFFICES ASSUME IInv, Next, Returns("start", "ok"), ~disturbed PROVE All(Up)
    OBVIOUS
  <2>1. op.kind = "start" /\ op.pc # "idle" /\ op'.pc = "idle" /\ op'.result = "ok"
    BY DEF Returns
  <2>2. op.pc = "create" /\ op.order = <<>>
    <3>1. LastStep /\ PhaseOK(op)
      BY <2>1, WhoReturns, OpFacts
    <3>2. op.pc # "stop" /\ op.pc # "remove network"
      BY <2>1, <3>1 DEF PhaseOK
    <3> QED BY <2>1, <3>1, <3>2 DEF LastStep
  <2>3. \A s \in Service : RunsIn(node, op.created[s])
    <3>1. ToSet(<<>>) = {}
      BY EmptyIsDistinct
    <3> QED BY <2>2, <3>1, OpFacts DEF Started, Starting
  <2>4. ASSUME NEW s \in Service PROVE \E i \in Id : i[1] = s /\ node.cont[i].st \in Up
    <3>1. op.created[s] \in Id /\ node.cont[op.created[s]].st \in Up
      BY <2>3 DEF RunsIn
    <3>2. op.created[s] \in IdsOf(s)
      BY <3>1, OpFacts, IdFacts DEF OwnIds
    <3>3. op.created[s][1] = s
      BY <3>2, IdFacts
    <3> QED BY <3>1, <3>3
  <2> QED BY <2>4 DEF All
<1>2. IInv /\ [Next]_vars => [Returns("start", "ok") /\ ~disturbed => All(Up)]_vars
  BY <1>1
<1> QED BY <1>2, OrchestratorInvariant, PTL DEF Spec, StartedIsRunning

\* A service is started only after the ones it depends on: what
\* TopologicalSort promises, kept through containers that existed before.
THEOREM StartsFollowDependencies == Spec => DependenciesFirst
<1>1. IInv => (op.pc = "start" /\ op'.pc = "inspect" => \A d \in deps[Svc] : op.created[d] # NoId)
  <2> SUFFICES ASSUME IInv, op.pc = "start", NEW d \in deps[Svc] PROVE op.created[d] # NoId
    OBVIOUS
  <2>1. op.order # <<>> /\ op.pc \in Starting
    BY OpFacts DEF PhaseOK, Starting
  <2>2. Svc = op.order[1] /\ op.order \in Seq(Service) /\ Distinct(op.order)
    BY <2>1, SvcIs
  <2>3. 1 \in 1 .. Len(op.order)
    <3>1. Len(op.order) \in Nat \ {0}
      BY <2>1, <2>2, TailDistinct
    <3> QED BY <3>1
  <2>4. deps[op.order[1]] \subseteq (Service \ ToSet(op.order)) \cup {op.order[j] : j \in 1 .. 1 - 1}
    BY <2>1, <2>3, OpFacts DEF InOrder
  <2>5. \A j : j \notin 1 .. 1 - 1
    OBVIOUS
  <2>6. d \in Service \ ToSet(op.order)
    BY <2>2, <2>4, <2>5
  <2> QED BY <2>1, <2>6, OpFacts DEF InOrder
<1>2. IInv => [op.pc = "start" /\ op'.pc = "inspect" => \A d \in deps[Svc] : op.created[d] # NoId]_vars
  BY <1>1
<1> QED BY <1>2, OrchestratorInvariant, PTL DEF Spec, DependenciesFirst

\* A start that fails leaves none of the containers it has created or started,
\* unless a call of the cleanup failed too or something happened meanwhile.
THEOREM FailedStartLeavesNothing == Spec => FailedStartCleansUp
<1>1. IInv /\ Next => (Returns("start", "error") /\ ~op.failed /\ ~disturbed =>
                          \A s \in Service : op.created[s] \notin Containers)
  <2> SUFFICES ASSUME IInv, Next, Returns("start", "error"), ~op.failed, ~disturbed, NEW s \in Service
               PROVE  op.created[s] \notin Containers
    OBVIOUS
  <2>1. op.kind = "start" /\ op.pc # "idle" /\ op'.pc = "idle" /\ op'.result = "error"
    BY DEF Returns
  <2>2. op.pc \in {"network", "pull"} \/ op.pc = "undo network"
    <3>1. LastStep
      BY <2>1, WhoReturns
    <3> QED BY <2>1, <3>1 DEF LastStep
  <2>3. CASE op.pc \in {"network", "pull"}
    <3>1. op.created[s] = NoId
      BY <2>3, OpFacts DEF PhaseOK
    <3>2. NoId \notin Containers
      BY IdFacts DEF Containers
    <3> QED BY <3>1, <3>2
  <2>4. CASE op.pc = "undo network"
    <3>1. op.todo = {}
      BY <2>4, OpFacts DEF TodoOK
    <3> QED BY <2>4, <3>1, OpFacts, ContainersAre DEF Undone
  <2> QED BY <2>2, <2>3, <2>4
<1>2. IInv /\ [Next]_vars => [Returns("start", "error") /\ ~op.failed /\ ~disturbed =>
                                 \A s \in Service : op.created[s] \notin Containers]_vars
  BY <1>1
<1> QED BY <1>2, OrchestratorInvariant, PTL DEF Spec, FailedStartCleansUp

\* After a removal without errors there is no container that its labels do not
\* hide, and the network only if one of those runs; after a stop without errors
\* nothing that could be seen is up, but for what was restarting when the list
\* was made: for every restart policy, any labels, and although containers may
\* exit and be started again while the operation is under way.
THEOREM StopAndRemoveAreThorough == Spec => StoppedAndGone
<1> DEFINE Seen == {i \in Visible : node.cont[i].st \in Up}
           Thorough == ~op.failed /\ ~disturbed /\ late' = late =>
                          /\ Returns("remove", "ok") => Visible = {} /\ (node'.net => Running # {})
                          /\ Returns("stop", "ok") => Seen \subseteq op.skipped
<1>1. IInv /\ Next => Thorough
  <2> SUFFICES ASSUME IInv, Next, ~op.failed, ~disturbed, late' = late
               PROVE  /\ Returns("remove", "ok") => Visible = {} /\ (node'.net => Running # {})
                      /\ Returns("stop", "ok") => Seen \subseteq op.skipped
    OBVIOUS
  <2>1. ASSUME Returns("remove", "ok") PROVE Visible = {} /\ (node'.net => Running # {})
    <3>1. op.kind = "remove" /\ op.pc # "idle" /\ op'.pc = "idle" /\ op'.result = "ok"
      BY <2>1 DEF Returns
    <3>2. /\ op.pc = "remove network"
          /\ \E e \in Ends(Cmd("remove-network")) : node' = e.node /\ late' = e.late
      <4>1. LastStep /\ PhaseOK(op)
        BY <3>1, WhoReturns, OpFacts
      <4>2. op.pc # "create" /\ op.pc # "stop"
        BY <3>1, <4>1 DEF PhaseOK
      <4> QED BY <3>1, <4>1, <4>2 DEF LastStep
    <3> DEFINE c == Cmd("remove-network")
    <3>3. PICK e \in Ends(c) : node' = e.node /\ late' = e.late
      BY <3>2
    <3>4. CmdOK(c) /\ c.do = "remove-network"
      BY CmdsOK
    <3> HIDE DEF c
    <3>5. Visible = {}
      <4>1. op.todo = {}
        BY <3>2, OpFacts DEF TodoOK
      <4>2. \A i \in ContsOf(node) : i[1] \in hidden
        BY <3>2, <4>1, OpFacts DEF Stopping
      <4> QED BY <4>2, Lists
    <3>6. Answered(e, c) \/ Lost(e, c) \/ Unnoticed(e, c)
      BY <3>4, OpFacts, EndsTyped
    <3>7. ~Lost(e, c)
      BY <3>3, <3>4 DEF Lost, Queries
    <3>8. ~Unnoticed(e, c)
      BY <3>4 DEF Unnoticed
    <3>9. Running = {} => ~Execute(c).node.net
      BY <3>4, OpFacts, OtherEffect
    <3>10. node' = Execute(c).node
      BY <3>3, <3>6, <3>7, <3>8 DEF Answered
    <3> QED BY <3>5, <3>9, <3>10
  <2>2. ASSUME Returns("stop", "ok") PROVE Seen \subseteq op.skipped
    <3>1. op.kind = "stop" /\ op.pc # "idle" /\ op'.pc = "idle" /\ op'.result = "ok"
      BY <2>2 DEF Returns
    <3>2. op.pc = "stop" /\ op.todo = {}
      <4>1. LastStep /\ PhaseOK(op)
        BY <3>1, WhoReturns, OpFacts
      <4>2. op.pc # "create" /\ op.pc # "remove network"
        BY <3>1, <4>1 DEF PhaseOK
      <4> QED BY <3>1, <4>1, <4>2 DEF LastStep
    <3>3. \A i \in UpIn(node) : i[1] \in hidden \/ i \in op.skipped
      BY <3>2, OpFacts DEF Stopping
    <3> QED BY <3>3, Lists DEF UpIn
  <2> QED BY <2>1, <2>2
<1>2. IInv /\ [Next]_vars => [Thorough]_vars
  BY <1>1
<1> QED BY <1>2, OrchestratorInvariant, PTL DEF Spec, StoppedAndGone
=============================================================================
