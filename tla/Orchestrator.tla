---------------------------- MODULE Orchestrator ----------------------------
(***************************************************************************)
(* shell/docker/orchestrator.go: StartDeployment, StopDeployment and       *)
(* RemoveDeployment of one deployment on one node.  Each is a sequence of  *)
(* calls to the Docker daemon of the node, through SSH and the minion      *)
(* (SSHDockerClient, Minion): a call may fail without reaching the daemon, *)
(* or time out while the minion goes on, so that its effect comes later.   *)
(* Between two calls the process may crash and a container may exit and be *)
(* started again by the daemon, as its restart policy says.                *)
(***************************************************************************)
EXTENDS ServiceOrdering

CONSTANTS
    Service, NoService,
    Graphs,         \* the depends_on relations of the templates considered
    Hidings,        \* their sets of services with a label of their own in place of
                    \* the one that names the deployment
    Restarts,       \* services with a restart policy
    WithPorts,      \* services with ports in the compose file
    Volume,         \* its named volumes that are not external
    MaxCopy,        \* bound on the containers of a service anyone refers to
    MaxLate,        \* bound on commands of failed calls that may still take effect
    Faults          \* which of "lost", "exit", "crash"

\* A container id: the successive containers with the name of a service.  An
\* id nobody refers to any more is used again.
Id == Service \X (1 .. MaxCopy)
NoId == <<NoService, 0>>

\* The compose file has passed ParseComposeSpec: no cycles.
Acyclic(d) == \E order \in SetToSeqs(Service) :
    \A i \in DOMAIN order : d[order[i]] \subseteq {order[j] : j \in 1 .. i - 1}

\* There is always a container id that nobody refers to.
ASSUME OrchestratorAssumption ==
    /\ Graphs \subseteq {d \in [Service -> SUBSET Service] : Acyclic(d)}
    /\ IsFiniteSet(Service) /\ NoService \notin Service /\ WithPorts \subseteq Service
    /\ Hidings \subseteq SUBSET Service /\ Restarts \subseteq Service
    /\ MaxCopy \in Nat /\ MaxLate \in Nat /\ MaxCopy > MaxLate + 1
    /\ Id \cap (Service \cup Volume) = {}
    /\ Faults \subseteq {"lost", "exit", "crash"}

VARIABLES
    deps,       \* depends_on of the compose file
    hidden,     \* services of it whose containers a list by label leaves out
    orders,     \* what TopologicalSort can make of it
    node,       \* the daemon: network, volumes, images, containers
    late,       \* commands that minions are still about to execute
    op,         \* the local variables of the operation under way
    calm,       \* no more faults
    disturbed   \* during the operation under way a container exited for good or a
                \* late command took effect

vars == <<deps, hidden, orders, node, late, op, calm, disturbed>>

NoContainer == [st |-> "none", bound |-> FALSE]

Cmd(do) == [do |-> do, name |-> NoService, id |-> NoId, bound |-> FALSE]
CmdOn(do, i) == [Cmd(do) EXCEPT !.id = i]
CmdFor(do, name) == [Cmd(do) EXCEPT !.name = name]

Slot == 1 .. MaxLate
NoCmd == Cmd("none")

Containers == {i \in Id : node.cont[i].st # "none"}

In(st) == {i \in Containers : node.cont[i].st = st}
Running == In("running")

\* What a list with the label of the deployment shows.
Visible == {i \in Containers : i[1] \notin hidden}

OpIdle ==
    [kind |-> "none", pc |-> "idle", todo |-> {}, order |-> <<>>, primary |-> NoService,
     existing |-> [s \in Service |-> NoId], created |-> [s \in Service |-> NoId],
     running |-> {}, skipped |-> {}, failed |-> FALSE, result |-> "none"]

Init ==
    /\ deps \in Graphs /\ orders = Orders(Service, deps) /\ hidden \in Hidings
    /\ node = [net |-> FALSE, vols |-> {}, images |-> {}, cont |-> [i \in Id |-> NoContainer]]
    /\ late = [k \in Slot |-> NoCmd]
    /\ op = OpIdle
    /\ calm = FALSE /\ disturbed = FALSE

----------------------------------------------------------------------------
(***************************************************************************)
(* The daemon.  Execute(cmd) is its next state and what it answers.        *)
(***************************************************************************)
Says(n, text) == [node |-> n, text |-> text]

Referenced ==
    Containers \cup {late[k].id : k \in Slot} \cup {op.created[s] : s \in Service}
               \cup {op.existing[s] : s \in Service} \cup (op.todo \cap Id)

Fresh(s) == CHOOSE i \in Id : /\ i[1] = s /\ i \notin Referenced
                              /\ \A n \in 1 .. i[2] - 1 : <<s, n>> \in Referenced

HoldsPort(i) == node.cont[i].bound /\ node.cont[i].st = "running"

PortTaken(i) == node.cont[i].bound /\ \E j \in Id \ {i} : HoldsPort(j)

\* To the daemon a container that waits for its next start is running: start
\* has nothing to do, and stop ends the waiting.
Up == {"running", "restarting"}

OnContainer(do, i) ==
    CASE do = "start-container" ->
           IF node.cont[i].st \in Up THEN Says(node, "ok")
           ELSE IF ~node.net THEN Says(node, "network not found")
           ELSE IF PortTaken(i) THEN Says(node, "port is already allocated")
           ELSE Says([node EXCEPT !.cont[i].st = "running"], "ok")
      [] do = "stop-container" ->
           Says([node EXCEPT !.cont[i].st = IF @ \in Up THEN "exited" ELSE @], "ok")
      [] do = "remove-container" -> Says([node EXCEPT !.cont[i] = NoContainer], "ok")
      [] do = "inspect-container" -> Says(node, "ok")

Execute(cmd) ==
    CASE cmd.do = "create-network" ->
           IF node.net THEN Says(node, "already exists")
           ELSE Says([node EXCEPT !.net = TRUE], "ok")
      [] cmd.do = "remove-network" ->
           IF ~node.net THEN Says(node, "not found")
           ELSE IF \E j \in Id : node.cont[j].st = "running" THEN Says(node, "has active endpoints")
           ELSE Says([node EXCEPT !.net = FALSE], "ok")
      [] cmd.do = "create-volume" -> Says([node EXCEPT !.vols = @ \cup {cmd.name}], "ok")
      [] cmd.do = "image-exists" -> Says(node, IF cmd.name \in node.images THEN "yes" ELSE "no")
      [] cmd.do = "pull-image" -> Says([node EXCEPT !.images = @ \cup {cmd.name}], "ok")
      [] cmd.do = "list-containers" -> Says(node, "ok")
      [] cmd.do = "create-container" ->
           IF \E j \in Containers : j[1] = cmd.name THEN Says(node, "Conflict")
           ELSE IF cmd.name \notin node.images THEN Says(node, "No such image")
           ELSE Says([node EXCEPT !.cont[Fresh(cmd.name)] = [st |-> "created",
                                                             bound |-> cmd.bound]], "ok")
      [] OTHER -> IF cmd.id \in Containers THEN OnContainer(cmd.do, cmd.id)
                  ELSE Says(node, "No such container")

Queries == {"image-exists", "list-containers", "inspect-container"}

\* A call is lost only while there is room for a late command.
AfterLoss(cmd) ==
    {IF cmd.do \in Queries THEN late ELSE [late EXCEPT ![k] = cmd] :
        k \in {j \in Slot : late[j] = NoCmd}}

\* How a call can end: with the answer of the daemon, with an error of the
\* connection or a timeout while the command is on its way, or, since the
\* minion does not look at the end of a pull, with "ok" and no image.
Ends(cmd) ==
    {[node |-> Execute(cmd).node, text |-> Execute(cmd).text, late |-> late]}
    \cup (IF "lost" \in Faults /\ ~calm
            THEN {[node |-> node, text |-> "lost", late |-> l] : l \in AfterLoss(cmd)}
            ELSE {})
    \cup (IF "lost" \in Faults /\ ~calm /\ cmd.do = "pull-image"
            THEN {[node |-> node, text |-> "ok", late |-> late]}
            ELSE {})

\* The call ends as e and the operation goes on as o.
Called(e, o) ==
    /\ node' = e.node /\ late' = e.late
    /\ op' = o
    /\ disturbed' = (disturbed /\ o.pc # "idle")
    /\ UNCHANGED <<deps, hidden, orders, calm>>

Goto(pc) == [op EXCEPT !.pc = pc]
Return(result) == [OpIdle EXCEPT !.result = result]
Local(o) == Called([node |-> node, late |-> late], o)

(***************************************************************************)
(* StartDeployment.                                                        *)
(***************************************************************************)
Begin(kind, pc) ==
    /\ op.pc = "idle"
    /\ Local([OpIdle EXCEPT !.kind = kind, !.pc = pc])

\* writeConfigFiles and ParseComposeSpec come first; when one of them fails,
\* nothing else has been done.
StartDeployment == Begin("start", "network")

CreateNetwork ==
    /\ op.pc = "network"
    /\ \E e \in Ends(Cmd("create-network")) :
        Called(e, IF e.text \in {"ok", "already exists"}
                    THEN [Goto("volumes") EXCEPT !.todo = Volume]
                    ELSE Return("error"))

CreateVolume ==
    /\ op.pc = "volumes"
    /\ IF op.todo = {}
         THEN Local([Goto("exists") EXCEPT !.todo = Service])
         ELSE LET v == CHOOSE v \in op.todo : TRUE
              IN \E e \in Ends(CmdFor("create-volume", v)) :
                    Called(e, IF e.text = "ok" THEN [op EXCEPT !.todo = @ \ {v}]
                              ELSE [Goto("undo network") EXCEPT !.todo = {}])

\* An error of ImageExists counts as "no".
ImageExists ==
    /\ op.pc = "exists"
    /\ IF op.todo = {}
         THEN Local(Goto("list"))
         ELSE LET s == CHOOSE s \in op.todo : TRUE
              IN \E e \in Ends(CmdFor("image-exists", s)) :
                    Called(e, IF e.text = "yes" THEN [op EXCEPT !.todo = @ \ {s}]
                              ELSE Goto("pull"))

\* A failed pull returns without removing the network.
PullImage ==
    /\ op.pc = "pull"
    /\ LET s == CHOOSE s \in op.todo : TRUE
       IN \E e \in Ends(CmdFor("pull-image", s)) :
             Called(e, IF e.text = "ok" THEN [Goto("exists") EXCEPT !.todo = @ \ {s}]
                       ELSE Return("error"))

\* Mutant: stopped containers are not listed.
ListedRunning(s) == {i \in Visible : i[1] = s /\ node.cont[i].st = "running"}

\* Mutant: the label of the service is not looked at.
ListedAny(s) == Visible

\* ListOptions{All: true}: stopped containers, too.
Listed(s) == {i \in Visible : i[1] = s}

FirstWithPorts(order) ==
    IF WithPorts = {} THEN NoService
    ELSE order[CHOOSE i \in DOMAIN order :
                  order[i] \in WithPorts /\ \A j \in 1 .. i - 1 : order[j] \notin WithPorts]

\* An error of ListContainers counts as "there are none".
ListExisting(order) ==
    /\ op.kind = "start" /\ op.pc = "list"
    /\ order \in orders
    /\ \E e \in Ends(Cmd("list-containers")) :
        Called(e, [Goto("create") EXCEPT
                     !.order = order,
                     !.primary = FirstWithPorts(order),
                     !.existing = [s \in Service |-> IF e.text = "ok" /\ Listed(s) # {}
                                                     THEN CHOOSE i \in Listed(s) : TRUE ELSE NoId]])

Svc == Head(op.order)

\* Mutant: a container is remembered only once it has been started.
CreatedBefore == {op.created[s] : s \in Service \ {Svc}} \ {NoId}

\* Remove what this start has created or started, and the network.
CreatedIds == {op.created[s] : s \in Service} \ {NoId}

Undo == [OpIdle EXCEPT !.kind = "start", !.pc = "undo stop",
                          !.created = op.created, !.todo = CreatedIds]

\* A container that exists is started again, whatever it was created with.
CreateContainer ==
    /\ op.pc = "create"
    /\ IF op.order = <<>>
         THEN Local(Return("ok"))
         ELSE IF op.existing[Svc] # NoId
         THEN Local([Goto("start") EXCEPT !.created[Svc] = op.existing[Svc]])
         ELSE \E e \in Ends([CmdFor("create-container", Svc) EXCEPT !.bound = Svc = op.primary]) :
                Called(e, IF e.text = "ok" THEN [Goto("start") EXCEPT !.created[Svc] = Fresh(Svc)]
                          ELSE Undo)

\* Mutant: an error of the call is only logged.
StartContainerLogged ==
    /\ op.pc = "start"
    /\ \E e \in Ends(CmdOn("start-container", op.created[Svc])) : Called(e, Goto("inspect"))

StartContainer ==
    /\ op.pc = "start"
    /\ \E e \in Ends(CmdOn("start-container", op.created[Svc])) :
        Called(e, IF e.text \in {"ok", "is already running"} THEN Goto("inspect") ELSE Undo)

InspectContainer ==
    /\ op.pc = "inspect"
    /\ \E e \in Ends(CmdOn("inspect-container", op.created[Svc])) :
        Called(e, IF e.text = "ok" THEN [Goto("create") EXCEPT !.order = Tail(@)] ELSE Undo)

----------------------------------------------------------------------------
(***************************************************************************)
(* cleanupCreatedContainers and RemoveNetwork: errors are ignored, failed  *)
(* remembers that there was one.                                           *)
(***************************************************************************)
Failing(o, e) == [o EXCEPT !.failed = @ \/ e.text = "lost"]

UndoStop ==
    /\ op.pc = "undo stop"
    /\ IF op.todo = {} THEN Local(Goto("undo network"))
       ELSE \E e \in Ends(CmdOn("stop-container", CHOOSE i \in op.todo : TRUE)) :
                Called(e, Failing(Goto("undo remove"), e))

UndoRemove ==
    /\ op.pc = "undo remove"
    /\ LET i == CHOOSE i \in op.todo : TRUE
       IN \E e \in Ends(CmdOn("remove-container", i)) :
             Called(e, Failing([Goto("undo stop") EXCEPT !.todo = @ \ {i}], e))

UndoNetwork ==
    /\ op.pc = "undo network"
    /\ \E e \in Ends(Cmd("remove-network")) : Called(e, Return("error"))

----------------------------------------------------------------------------
(***************************************************************************)
(* StopDeployment: stop what the list showed as running; skipped remembers *)
(* what it showed as restarting.                                           *)
(***************************************************************************)
StopDeployment == Begin("stop", "list")

ListToStop ==
    /\ op.kind = "stop" /\ op.pc = "list"
    /\ \E e \in Ends(Cmd("list-containers")) :
        Called(e, IF e.text = "ok" THEN [Goto("stop") EXCEPT !.todo = Visible \cap Running,
                                                        !.skipped = Visible \cap In("restarting")]
                  ELSE Return("error"))

StopContainer ==
    /\ op.pc = "stop"
    /\ IF op.todo = {}
         THEN Local(Return("ok"))
         ELSE LET i == CHOOSE i \in op.todo : TRUE
              IN \E e \in Ends(CmdOn("stop-container", i)) :
                    Called(e, Failing([op EXCEPT !.todo = @ \ {i}], e))

(***************************************************************************)
(* RemoveDeployment: stop (errors ignored) and remove every container, and *)
(* then the network; volumes stay.                                         *)
(***************************************************************************)
RemoveDeployment == Begin("remove", "list")

\* Mutant: stopped containers are not listed.
ListRunningToRemove ==
    /\ op.kind = "remove" /\ op.pc = "list"
    /\ \E e \in Ends(Cmd("list-containers")) :
        Called(e, IF e.text = "ok" THEN [Goto("remove stop") EXCEPT !.todo = Visible \cap Running,
                                                               !.running = Visible \cap Running]
                  ELSE Return("error"))

ListToRemove ==
    /\ op.kind = "remove" /\ op.pc = "list"
    /\ \E e \in Ends(Cmd("list-containers")) :
        Called(e, IF e.text = "ok" THEN [Goto("remove stop") EXCEPT !.todo = Visible,
                                                               !.running = Visible \cap Running]
                  ELSE Return("error"))

RemoveStop ==
    /\ op.pc = "remove stop"
    /\ IF op.todo = {} THEN Local(Goto("remove network"))
       ELSE LET i == CHOOSE i \in op.todo : TRUE
            IN  IF i \notin op.running THEN Local(Goto("remove"))
                ELSE \E e \in Ends(CmdOn("stop-container", i)) : Called(e, Goto("remove"))

RemoveContainer ==
    /\ op.pc = "remove"
    /\ LET i == CHOOSE i \in op.todo : TRUE
       IN \E e \in Ends(CmdOn("remove-container", i)) :
             Called(e, Failing([Goto("remove stop") EXCEPT !.todo = @ \ {i}], e))

RemoveNetwork ==
    /\ op.pc = "remove network"
    /\ \E e \in Ends(Cmd("remove-network")) : Called(e, Return("ok"))

----------------------------------------------------------------------------
\* A command whose call has failed reaches the daemon late, or never.
LateEffect ==
    /\ \E k \in Slot :
        /\ late[k] # NoCmd
        /\ node' \in {Execute(late[k]).node, node}
        /\ late' = [late EXCEPT ![k] = NoCmd]
    /\ disturbed' = (disturbed \/ (op.pc # "idle" /\ node' # node))
    /\ UNCHANGED <<deps, hidden, orders, op, calm>>

Becomes(i, st) ==
    /\ node' = [node EXCEPT !.cont[i].st = st]
    /\ disturbed' = (disturbed \/ (op.pc # "idle" /\ st = "exited"))
    /\ UNCHANGED <<deps, hidden, orders, late, op, calm>>

\* Without a restart policy for good; with "on-failure", too, if it succeeded.
ContainerExits ==
    /\ "exit" \in Faults /\ ~calm
    /\ \E i \in Running :
        \/ Becomes(i, "exited")
        \/ i[1] \in Restarts /\ Becomes(i, "restarting")

\* The daemon gives up a container that it cannot start again.
DaemonRestarts ==
    \E i \in In("restarting") :
        Becomes(i, IF node.net /\ ~PortTaken(i) THEN "running" ELSE "exited")

Crash ==
    /\ "crash" \in Faults /\ ~calm
    /\ op.pc # "idle"
    /\ Local(OpIdle)

BecomesCalm ==
    /\ ~calm /\ \A k \in Slot : late[k] = NoCmd
    /\ calm' = TRUE
    /\ UNCHANGED <<deps, hidden, orders, node, late, op, disturbed>>

Step ==
    \/ CreateNetwork \/ CreateVolume \/ ImageExists \/ PullImage
    \/ \E order \in SetToSeqs(Service) : ListExisting(order)
    \/ CreateContainer \/ StartContainer \/ InspectContainer
    \/ UndoStop \/ UndoRemove \/ UndoNetwork
    \/ ListToStop \/ StopContainer
    \/ ListToRemove \/ RemoveStop \/ RemoveContainer \/ RemoveNetwork

Next ==
    \/ StartDeployment
    \/ ~calm /\ (StopDeployment \/ RemoveDeployment)
    \/ Step
    \/ LateEffect \/ ContainerExits \/ DaemonRestarts \/ Crash \/ BecomesCalm

Spec == Init /\ [][Next]_vars

(***************************************************************************)
(* Calls end (they have time limits), the customer tries again, the daemon *)
(* follows the restart policies, and every order of a Go map is taken at   *)
(* some time.                                                              *)
(***************************************************************************)
Fairness ==
    /\ WF_vars(StartDeployment \/ Step)
    /\ WF_vars(DaemonRestarts)
    /\ \A order \in SetToSeqs(Service) : SF_vars(ListExisting(order))

FairSpec == Spec /\ Fairness

----------------------------------------------------------------------------
\* The shape of the state; a container that the start of a service uses is one
\* of that service, also when it was found by its labels.
TypeOK ==
    /\ deps \in [Service -> SUBSET Service] /\ hidden \subseteq Service
    /\ node.net \in BOOLEAN /\ node.vols \subseteq Volume /\ node.images \subseteq Service
    /\ node.cont \in [Id -> [st : {"none", "created", "exited"} \cup Up, bound : BOOLEAN]]
    /\ \A s \in Service : op.created[s] \in {NoId} \cup ({s} \X (1 .. MaxCopy))

Returns(kind, result) ==
    op.kind = kind /\ op.pc # "idle" /\ op'.pc = "idle" /\ op'.result = result

All(st) == \A s \in Service : \E i \in Id : i[1] = s /\ node.cont[i].st \in st

\* StartDeployment never reports success for a deployment of which a service
\* does not run, or is between two runs of its restart policy (docker start
\* says "ok" then): whatever an earlier operation left half done, and although
\* the errors of ImageExists and ListContainers are ignored.
StartedIsRunning ==
    [][Returns("start", "ok") /\ ~disturbed => All(Up)]_vars

\* A container is started only after the containers of the services it depends
\* on have been started (TopologicalSort), also when some existed before.
DependenciesFirst ==
    [][op.pc = "start" /\ op'.pc = "inspect" =>
          \A d \in deps[Svc] : op.created[d] # NoId]_vars

\* A failing StartDeployment removes the containers it has created or started
\* ("Cleanup on failure"), the one of the failing call included.
FailedStartCleansUp ==
    [][Returns("start", "error") /\ ~op.failed /\ ~disturbed =>
          \A s \in Service : op.created[s] \notin Containers]_vars

\* RemoveDeployment leaves neither a container nor the network behind, unless
\* the labels of a service hide its container: that one stays, and the network
\* if it runs.  After StopDeployment no container runs that could be seen and
\* was not between two runs of its restart policy when the list was made: only
\* what the list shows as running is stopped, so the daemon may start such a
\* container again after, or during, a stop without errors; one that exits and
\* is started again during the stop is stopped.  Failed calls are excepted.
StoppedAndGone ==
    [][~op.failed /\ ~disturbed /\ late' = late =>
          /\ Returns("remove", "ok") => Visible = {} /\ (node'.net => Running # {})
          /\ Returns("stop", "ok") =>
                {i \in Visible : node.cont[i].st \in Up} \subseteq op.skipped]_vars

\* Once calls no longer fail, starting the deployment again and again gets it
\* running, from every state that failures can leave on the node.  A container
\* hidden by its labels is in the way of its successor for ever.
StartsInTheEnd == calm /\ hidden = {} ~> All({"running"})
=============================================================================
