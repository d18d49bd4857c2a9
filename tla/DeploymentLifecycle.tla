------------------------ MODULE DeploymentLifecycle ------------------------
(***************************************************************************)
(* The life of deployments in the engine: the API handlers of              *)
(* engine/api.go and engine/setup.go, the store's Transition               *)
(* (engine/store.go) and the command handlers of engine/handlers.go that a *)
(* transition dispatches, acting on one SQLite table and on the containers *)
(* of the nodes.                                                           *)
(*                                                                         *)
(* Every HTTP request, together with the command it dispatches (run inside *)
(* the request, or in a goroutine for start and stop), is a slot of Req.   *)
(* The store has no transaction around a read and the write that depends   *)
(* on it, so each SQL statement that another request can come between is a *)
(* step of its own: pc[r] says which statement or call is next, ctx[r]     *)
(* holds what the request has in its local variables.                      *)
(***************************************************************************)
EXTENDS Integers, FiniteSets

CONSTANTS
    Depl,            \* deployment ids (UUIDs, never used twice)
    Node,            \* node ids
    Req,             \* request slots: how many requests may overlap
    NoDepl, NoNode,  \* null values
    PortStart,       \* proxy.DefaultPortRange: first port, 30000 in the code
    PortEnd,         \* and last port, inclusive
    MaxDeployments,  \* AuthContext.PlanLimits.MaxDeployments of the customer
    Targets,         \* states clients POST to .../transition/{state}
    PatchStatus,     \* values clients PATCH into the column status
    PatchNode,       \* ... node_id, with NoNode for null
    PatchPort,       \* ... proxy_port, with 0 for null
    Faults           \* which of "crash", "disconnect", "store" may happen

Port == PortStart .. PortEnd

(***************************************************************************)
(* DeploymentResource (engine/resources.go): the states, the table, and    *)
(* the commands dispatched on entering a state that change something (the  *)
(* handlers of DeploymentRunning and DeploymentFailed only log).           *)
(***************************************************************************)
Status == {"pending", "scheduled", "starting", "running", "stopping",
           "stopped", "deleting", "deleted", "failed"}

Absent == "absent"    \* not created yet
Erased == "erased"    \* row deleted

\* Mutant: a failed deployment may be retried from the beginning, as a
\* cloud provision may.
TransitionsRetry ==
    [s \in Status |->
        CASE s = "pending"   -> {"scheduled"}
          [] s = "scheduled" -> {"starting"}
          [] s = "starting"  -> {"running", "failed"}
          [] s = "running"   -> {"stopping", "failed"}
          [] s = "stopping"  -> {"stopped"}
          [] s = "stopped"   -> {"starting", "deleting"}
          [] s = "deleting"  -> {"deleted"}
          [] s = "failed"    -> {"starting", "deleting", "pending"}
          [] s = "deleted"   -> {}]

Transitions ==
    [s \in Status |->
        CASE s = "pending"   -> {"scheduled"}
          [] s = "scheduled" -> {"starting"}
          [] s = "starting"  -> {"running", "failed"}
          [] s = "running"   -> {"stopping", "failed"}
          [] s = "stopping"  -> {"stopped"}
          [] s = "stopped"   -> {"starting", "deleting"}
          [] s = "deleting"  -> {"deleted"}
          [] s = "failed"    -> {"starting", "deleting"}
          [] s = "deleted"   -> {}]

\* Mutant: the command of "stopping" is one no handler is registered for.
OnEnterUnregistered ==
    [s \in Status |->
        CASE s = "scheduled" -> "schedule"
          [] s = "starting"  -> "start"
          [] s = "stopping"  -> "halt"
          [] s = "deleting"  -> "remove"
          [] OTHER           -> "idle"]

\* Mutant: nothing is dispatched on entering "stopping".
OnEnterNoStop ==
    [s \in Status |->
        CASE s = "scheduled" -> "schedule"
          [] s = "starting"  -> "start"
          [] s = "deleting"  -> "remove"
          [] OTHER           -> "idle"]

OnEnter ==
    [s \in Status |->
        CASE s = "scheduled" -> "schedule"
          [] s = "starting"  -> "start"
          [] s = "stopping"  -> "stop"
          [] s = "deleting"  -> "remove"
          [] OTHER           -> "idle"]

ASSUME ConstantsAssumption ==
    /\ NoDepl \notin Depl /\ NoNode \notin Node
    /\ PortStart \in Nat \ {0} /\ PortEnd \in Nat
    /\ MaxDeployments \in Nat
    /\ Targets \subseteq Status /\ PatchStatus \subseteq Status
    /\ PatchNode \subseteq Node \cup {NoNode}
    /\ PatchPort \subseteq Port \cup {0}
    /\ Faults \subseteq {"crash", "disconnect", "store"}

VARIABLES
    status,      \* the columns of the table deployments that decide control
    node_id,
    proxy_port,  \* 0 is NULL
    container,   \* what each node's Docker daemon holds for a deployment
    bound,       \* and the host port that container binds (0: none)
    lastEvent,   \* the last usage event recorded for a deployment
    pc,          \* what request r does next
    ctx,         \* the local variables of request r
    renoded      \* history: the deployments whose node_id a client has changed
                 \* by PATCH at a bad time, with the kind of change

rows == <<status, node_id, proxy_port>>
docker == <<container, bound>>
vars == <<status, node_id, proxy_port, container, bound, lastEvent, pc, ctx, renoded>>

(***************************************************************************)
(* The local variables of a request: the endpoint op, the deployment d,    *)
(* and for the call of Transition under way its caller by and the state    *)
(* to it asks for; node and port are what the row map given to the command *)
(* handler says, a snapshot that other requests do not update.             *)
(***************************************************************************)
Ops == {"none", "create", "start", "stop", "transition", "delete"}
Callers == {"none", "api", "schedule", "start", "stop", "remove", "fail"}
Labels == {"idle", "insert", "check", "update", "readback", "schedule",
           "assign", "start", "stop", "remove", "bill", "verify", "erase"}
Events == {"none", "created", "started", "stopped", "deleted"}

Ctx == [d : Depl \cup {NoDepl}, op : Ops, by : Callers,
        to : Status \cup {"none"}, node : Node \cup {NoNode},
        port : Port \cup {0}]

Blank == [d |-> NoDepl, op |-> "none", by |-> "none", to |-> "none",
          node |-> NoNode, port |-> 0]

Init ==
    /\ status = [d \in Depl |-> Absent]
    /\ node_id = [d \in Depl |-> NoNode]
    /\ proxy_port = [d \in Depl |-> 0]
    /\ container = [d \in Depl |-> [n \in Node |-> "none"]]
    /\ bound = [d \in Depl |-> [n \in Node |-> 0]]
    /\ lastEvent = [d \in Depl |-> "none"]
    /\ pc = [r \in Req |-> "idle"]
    /\ ctx = [r \in Req |-> Blank]
    /\ renoded = {}

Exists(d) == status[d] \in Status

Goto(r, label, c) ==
    /\ pc' = [pc EXCEPT ![r] = label]
    /\ ctx' = [ctx EXCEPT ![r] = c]

Return(r) == Goto(r, "idle", Blank)

\* The command handler of r is over: deleteHandler goes on, others return.
Done(r) ==
    IF ctx[r].op = "delete" THEN Goto(r, "verify", ctx[r]) ELSE Return(r)

\* The handler calls Store.Transition(to) next.
CallTransition(r, by, to) ==
    Goto(r, "check", [ctx[r] EXCEPT !.by = by, !.to = to])

----------------------------------------------------------------------------
(***************************************************************************)
(* Store.Transition: read the row, check the table and the guard, write    *)
(* the new state, read the row again (Update does), return it and the      *)
(* command to dispatch.                                                    *)
(***************************************************************************)
\* Mutant: any state can be entered from any state.
CanTransitionAnywhere(from, to) == from \in Status /\ to \in Status

CanTransition(from, to) == from \in Status /\ to \in Transitions[from]

\* Mutant: no guard.
GuardDropped(d, to) == TRUE

\* Guards: "starting" requires the field node_id.
Guard(d, to) == to = "starting" => node_id[d] # NoNode

\* Where the caller goes on when Transition returns an error.
Refused(r) ==
    CASE ctx[r].by = "api" /\ ctx[r].op = "delete" -> Goto(r, "erase", ctx[r])
      [] ctx[r].by = "api" /\ ctx[r].op # "delete" -> Return(r)
      [] OTHER -> Done(r)

\* Mutant: scheduleDeployment hands on the row map it was called with, not
\* the row it has just updated.
DispatchedStale(r) ==
    LET d == ctx[r].d
        row == [ctx[r] EXCEPT !.node = node_id[d], !.port = proxy_port[d]]
        command == OnEnter[ctx[r].to]
    IN  CASE ctx[r].by = "api" ->
                 IF command = "idle" THEN Done(r) ELSE Goto(r, command, row)
          [] ctx[r].by = "schedule" -> Goto(r, "start", [row EXCEPT !.port = 0])
          [] ctx[r].by = "fail" -> Done(r)
          [] OTHER -> Goto(r, "bill", ctx[r])

\* Mutant: stopDeployment records no usage event.
DispatchedUnbilled(r) ==
    LET d == ctx[r].d
        row == [ctx[r] EXCEPT !.node = node_id[d], !.port = proxy_port[d]]
        command == OnEnter[ctx[r].to]
    IN  CASE ctx[r].by = "api" ->
                 IF command = "idle" THEN Done(r) ELSE Goto(r, command, row)
          [] ctx[r].by = "schedule" -> Goto(r, "start", row)
          [] ctx[r].by \in {"fail", "stop"} -> Done(r)
          [] OTHER -> Goto(r, "bill", ctx[r])

\* Where it goes on when Transition has returned: the row map it returns, or
\* that scheduleDeployment reads after it, is the data of the command handler.
Dispatched(r) ==
    LET d == ctx[r].d
        row == [ctx[r] EXCEPT !.node = node_id[d], !.port = proxy_port[d]]
        command == OnEnter[ctx[r].to]
    IN  CASE ctx[r].by = "api" ->
                 IF command = "idle" THEN Done(r) ELSE Goto(r, command, row)
          [] ctx[r].by = "schedule" -> Goto(r, "start", row)
          [] ctx[r].by = "fail" -> Done(r)
          [] OTHER -> Goto(r, "bill", ctx[r])

TransitionCheck(r) ==
    /\ pc[r] = "check"
    /\ LET d == ctx[r].d
           to == ctx[r].to
       IN IF CanTransition(status[d], to) /\ Guard(d, to)
            THEN Goto(r, "update", ctx[r])
            ELSE Refused(r)
    /\ UNCHANGED <<rows, docker, lastEvent, renoded>>

TransitionUpdate(r) ==
    /\ pc[r] = "update"
    /\ LET d == ctx[r].d
       IN IF Exists(d)
            THEN /\ status' = [status EXCEPT ![d] = ctx[r].to]
                 /\ Goto(r, "readback", ctx[r])
            ELSE /\ Refused(r)
                 /\ UNCHANGED status
    /\ UNCHANGED <<node_id, proxy_port, docker, lastEvent, renoded>>

TransitionReturn(r) ==
    /\ pc[r] = "readback"
    /\ IF Exists(ctx[r].d) THEN Dispatched(r) ELSE Refused(r)
    /\ UNCHANGED <<rows, docker, lastEvent, renoded>>

----------------------------------------------------------------------------
(***************************************************************************)
(* The API.  A request that is turned away (401, 403, 404, 409) changes    *)
(* nothing and is not a step.                                              *)
(***************************************************************************)
Request(op, d, by, to) ==
    [Blank EXCEPT !.op = op, !.d = d, !.by = by, !.to = to]

\* Mutant: a stopped deployment does not count either.
ActiveNotStopped == {d \in Depl : Exists(d) /\ status[d] \notin {"deleted", "stopped"}}

\* createHandler up to BeforeCreate: the plan limit counts the rows that are
\* not "deleted", and is not applied when they cannot be read.
Active == {d \in Depl : Exists(d) /\ status[d] # "deleted"}

\* The new id is a fresh UUID, the customer may have chosen a node.
CreateRequest(r) ==
    /\ pc[r] = "idle"
    /\ \/ MaxDeployments > 0 => Cardinality(Active) < MaxDeployments
       \/ "store" \in Faults
    /\ \E d \in Depl, n \in Node \cup {NoNode} :
           /\ status[d] = Absent
           /\ \A q \in Req : ctx[q].d # d
           /\ Goto(r, "insert", [Request("create", d, "none", "none") EXCEPT !.node = n])
    /\ UNCHANGED <<rows, docker, lastEvent, renoded>>

\* Store.Create, with the initial state of the state machine.
Insert(r) ==
    /\ pc[r] = "insert"
    /\ status' = [status EXCEPT ![ctx[r].d] = "pending"]
    /\ node_id' = [node_id EXCEPT ![ctx[r].d] = ctx[r].node]
    /\ Goto(r, "bill", ctx[r])
    /\ UNCHANGED <<proxy_port, docker, lastEvent, renoded>>

\* deployments:start picks the target from the row it read.
StartTarget(s) ==
    CASE s = "pending" -> "scheduled"
      [] s \in {"scheduled", "stopped", "failed"} -> "starting"
      [] OTHER -> "none"

StartRequest(r, d) ==
    /\ pc[r] = "idle"
    /\ StartTarget(status[d]) # "none"
    /\ Goto(r, "check", Request("start", d, "api", StartTarget(status[d])))
    /\ UNCHANGED <<rows, docker, lastEvent, renoded>>

StopRequest(r, d) ==
    /\ pc[r] = "idle"
    /\ Exists(d)
    /\ Goto(r, "check", Request("stop", d, "api", "stopping"))
    /\ UNCHANGED <<rows, docker, lastEvent, renoded>>

TransitionRequest(r, d) ==
    /\ pc[r] = "idle"
    /\ Exists(d)
    /\ \E to \in Targets :
           Goto(r, "check", Request("transition", d, "api", to))
    /\ UNCHANGED <<rows, docker, lastEvent, renoded>>

\* deleteHandler: through "deleting" if the state that was read allows it,
\* otherwise straight to the deletion of the row.
DeleteRequest(r, d) ==
    /\ pc[r] = "idle"
    /\ Exists(d)
    /\ IF "deleting" \in Transitions[status[d]]
         THEN Goto(r, "check", Request("delete", d, "api", "deleting"))
         ELSE Goto(r, "erase", Request("delete", d, "api", "none"))
    /\ UNCHANGED <<rows, docker, lastEvent, renoded>>

\* After the command: a row that is now "failed" is kept (409).
VerifyDelete(r) ==
    /\ pc[r] = "verify"
    /\ IF status[ctx[r].d] = "failed" THEN Return(r) ELSE Goto(r, "erase", ctx[r])
    /\ UNCHANGED <<rows, docker, lastEvent, renoded>>

EraseRow(r) ==
    /\ pc[r] = "erase"
    /\ status' = [status EXCEPT ![ctx[r].d] = Erased]
    /\ Return(r)
    /\ UNCHANGED <<node_id, proxy_port, docker, lastEvent, renoded>>

\* The statements at which a command handler acts on the row map it was given.
Commands == {"schedule", "assign", "start", "stop", "remove"}

\* What a PATCH of node_id to n breaks: the guard of a call of Transition
\* that is past its check, or of a state already entered; the row map of a
\* command, or the way to the containers.
Disturbs(d, n) ==
    {k \in {"cleared", "moved"} :
        /\ n # node_id[d]
        /\ k = "cleared" =>
               /\ n = NoNode
               /\ \/ status[d] \notin {"pending", "scheduled"}
                  \/ \E r \in Req : pc[r] = "update" /\ ctx[r].d = d
        /\ k = "moved" =>
               \/ \E m \in Node : container[d][m] # "none"
               \/ \E r \in Req : pc[r] \in Commands /\ ctx[r].d = d}

\* updateHandler: no column but the owner is internal, so a PATCH writes
\* status, node_id and proxy_port as they come, null included.
Patch(d) ==
    /\ Exists(d)
    /\ \E s \in PatchStatus \cup {status[d]}, n \in PatchNode \cup {node_id[d]},
          p \in PatchPort \cup {proxy_port[d]} :
           /\ status' = [status EXCEPT ![d] = s]
           /\ node_id' = [node_id EXCEPT ![d] = n]
           /\ proxy_port' = [proxy_port EXCEPT ![d] = p]
           /\ renoded' = renoded \cup ({d} \X Disturbs(d, n))
    /\ UNCHANGED <<docker, lastEvent, pc, ctx>>

----------------------------------------------------------------------------
(***************************************************************************)
(* scheduleDeployment.                                                     *)
(***************************************************************************)
\* Mutant: a failed deployment does not hold on to its port either.
getUsedProxyPortsNotFailed(n) ==
    {proxy_port[d] : d \in {e \in Depl :
        /\ node_id[e] = n
        /\ status[e] \in Status \ {"deleted", "stopped", "failed"}}}

getUsedProxyPorts(n) ==
    {proxy_port[d] : d \in {e \in Depl : /\ node_id[e] = n
                                        /\ status[e] \in Status \ {"deleted", "stopped"}}}

\* The first port of the range that is not used; only asked for if there is
\* one.
AllocatePort(used) == CHOOSE p \in Port \ used : \A q \in Port \ used : p <= q

\* No node, an unknown node or one that is not online: failDeployment.
ScheduleFails(r) ==
    /\ pc[r] = "schedule"
    /\ CallTransition(r, "fail", "failed")
    /\ UNCHANGED <<rows, docker, lastEvent, renoded>>

\* The selected node is online.  Without a free port the handler returns an
\* error and leaves the row as it is.
SchedulePort(r, used) ==
    /\ pc[r] = "schedule"
    /\ ctx[r].node # NoNode
    /\ IF ctx[r].port # 0 THEN Goto(r, "assign", ctx[r])
       ELSE IF Port \subseteq used THEN Done(r)
       ELSE Goto(r, "assign", [ctx[r] EXCEPT !.port = AllocatePort(used)])
    /\ UNCHANGED <<rows, docker, lastEvent, renoded>>

ScheduleDeployment(r) == SchedulePort(r, getUsedProxyPorts(ctx[r].node))

\* Mutant: the scheduler picks any node instead of keeping the selected one.
AssignNodeReselects(r) ==
    /\ pc[r] = "assign"
    /\ IF Exists(ctx[r].d)
         THEN /\ \E n \in Node : node_id' = [node_id EXCEPT ![ctx[r].d] = n]
              /\ proxy_port' = [proxy_port EXCEPT ![ctx[r].d] = ctx[r].port]
         ELSE UNCHANGED <<node_id, proxy_port>>
    /\ CallTransition(r, "schedule", "starting")
    /\ UNCHANGED <<status, docker, lastEvent, renoded>>

\* Store.Update of node_id and proxy_port, then Transition to starting.
AssignNode(r) ==
    /\ pc[r] = "assign"
    /\ IF Exists(ctx[r].d)
         THEN /\ node_id' = [node_id EXCEPT ![ctx[r].d] = ctx[r].node]
              /\ proxy_port' = [proxy_port EXCEPT ![ctx[r].d] = ctx[r].port]
         ELSE UNCHANGED <<node_id, proxy_port>>
    /\ CallTransition(r, "schedule", "starting")
    /\ UNCHANGED <<status, docker, lastEvent, renoded>>

----------------------------------------------------------------------------
(***************************************************************************)
(* What the commands do on the node, through docker.Orchestrator.  The     *)
(* services of a deployment are one container here.                        *)
(***************************************************************************)
SetContainer(d, n, st, p) ==
    /\ container' = [container EXCEPT ![d] = [@ EXCEPT ![n] = st]]
    /\ bound' = [bound EXCEPT ![d] = [@ EXCEPT ![n] = p]]

\* A container that exists is reused with the binding it was created with.
BindingOf(d, n, p) == IF container[d][n] = "none" THEN p ELSE bound[d][n]

\* The Docker daemon refuses to start a container on a taken host port.
PortFree(d, n, p) ==
    p # 0 => \A e \in Depl \ {d} : container[e][n] = "running" => bound[e][n] # p

\* Orchestrator.StartDeployment succeeds.
StartContainers(d, n, p) ==
    /\ PortFree(d, n, BindingOf(d, n, p))
    /\ SetContainer(d, n, "running", BindingOf(d, n, p))

\* It fails: before it touched a container, or on the way, and then the
\* cleanup removes the containers it used or, its errors being ignored,
\* leaves them behind.
StartContainersFails(d, n, p) ==
    \/ UNCHANGED docker
    \/ SetContainer(d, n, "none", 0)
    \/ SetContainer(d, n, "exited", BindingOf(d, n, p))
    \/ StartContainers(d, n, p)

StopContainers(d, n) ==
    \/ UNCHANGED docker
    \/ /\ container[d][n] = "running"
       /\ SetContainer(d, n, "exited", bound[d][n])

RemoveContainers(d, n) ==
    \/ StopContainers(d, n)
    \/ SetContainer(d, n, "none", 0)

----------------------------------------------------------------------------
(***************************************************************************)
(* startDeployment, stopDeployment, deleteDeployment: act on the node the  *)
(* row map names, then call Transition; the errors of stop and delete on   *)
(* the node are only logged.                                               *)
(***************************************************************************)
StartDeployment(r) ==
    /\ pc[r] = "start"
    /\ ctx[r].node # NoNode
    /\ StartContainers(ctx[r].d, ctx[r].node, ctx[r].port)
    /\ CallTransition(r, "start", "running")
    /\ UNCHANGED <<rows, lastEvent, renoded>>

\* Mutant: an error of the orchestrator is only logged.
StartDeploymentFailsLogged(r) ==
    /\ pc[r] = "start"
    /\ IF ctx[r].node = NoNode
         THEN UNCHANGED docker
         ELSE StartContainersFails(ctx[r].d, ctx[r].node, ctx[r].port)
    /\ CallTransition(r, "start", "running")
    /\ UNCHANGED <<rows, lastEvent, renoded>>

StartDeploymentFails(r) ==
    /\ pc[r] = "start"
    /\ IF ctx[r].node = NoNode
         THEN UNCHANGED docker
         ELSE StartContainersFails(ctx[r].d, ctx[r].node, ctx[r].port)
    /\ CallTransition(r, "fail", "failed")
    /\ UNCHANGED <<rows, lastEvent, renoded>>

StopDeployment(r) ==
    /\ pc[r] = "stop"
    /\ IF ctx[r].node = NoNode
         THEN UNCHANGED docker
         ELSE StopContainers(ctx[r].d, ctx[r].node)
    /\ CallTransition(r, "stop", "stopped")
    /\ UNCHANGED <<rows, lastEvent, renoded>>

DeleteDeployment(r) ==
    /\ pc[r] = "remove"
    /\ IF ctx[r].node = NoNode
         THEN UNCHANGED docker
         ELSE RemoveContainers(ctx[r].d, ctx[r].node)
    /\ CallTransition(r, "remove", "deleted")
    /\ UNCHANGED <<rows, lastEvent, renoded>>

EventOf(by) ==
    CASE by = "start" -> "started"
      [] by = "stop" -> "stopped"
      [] by = "remove" -> "deleted"
      [] OTHER -> "created"

\* recordBillingEvent, and the hook AfterCreate.
RecordEvent(r) ==
    /\ pc[r] = "bill"
    /\ lastEvent' = [lastEvent EXCEPT ![ctx[r].d] = EventOf(ctx[r].by)]
    /\ Done(r)
    /\ UNCHANGED <<rows, docker, renoded>>

----------------------------------------------------------------------------
(***************************************************************************)
(* Faults.  The process ends: the requests and goroutines under way are    *)
(* lost, the table and the containers are not, and nothing resumes them at *)
(* the next start.  A client that hangs up cancels the context of a        *)
(* request, so every later store call of it fails; the goroutines of start *)
(* and stop have a context of their own.                                   *)
(***************************************************************************)
Crash ==
    /\ "crash" \in Faults
    /\ \E r \in Req : pc[r] # "idle"
    /\ pc' = [r \in Req |-> "idle"]
    /\ ctx' = [r \in Req |-> Blank]
    /\ UNCHANGED <<rows, docker, lastEvent, renoded>>

InBackground(r) ==
    /\ ctx[r].op \in {"start", "stop"}
    /\ ~(pc[r] \in {"check", "update", "readback"} /\ ctx[r].by = "api")

Disconnect(r) ==
    /\ "disconnect" \in Faults
    /\ pc[r] # "idle"
    /\ ~InBackground(r)
    /\ Return(r)
    /\ UNCHANGED <<rows, docker, lastEvent, renoded>>

\* A store call fails (SQLite busy, disk full).  Transition and Delete return
\* the error; scheduleDeployment goes on without the used ports, and without
\* the assignment written; a usage event is lost; deleteHandler goes on when
\* it cannot read the row again.
StoreFails(r) ==
    /\ "store" \in Faults
    /\ \/ pc[r] \in {"check", "update", "readback"} /\ Refused(r)
       \/ pc[r] = "assign" /\ CallTransition(r, "schedule", "starting")
       \/ pc[r] = "bill" /\ Done(r)
       \/ pc[r] = "verify" /\ Goto(r, "erase", ctx[r])
       \/ pc[r] \in {"insert", "erase"} /\ Return(r)
       \/ SchedulePort(r, {})
    /\ UNCHANGED <<rows, docker, lastEvent, renoded>>

----------------------------------------------------------------------------
\* What r does once its request has been accepted.
Continue(r) ==
    \/ Insert(r)
    \/ TransitionCheck(r)
    \/ TransitionUpdate(r)
    \/ TransitionReturn(r)
    \/ ScheduleFails(r)
    \/ ScheduleDeployment(r)
    \/ AssignNode(r)
    \/ StartDeployment(r)
    \/ StartDeploymentFails(r)
    \/ StopDeployment(r)
    \/ DeleteDeployment(r)
    \/ RecordEvent(r)
    \/ VerifyDelete(r)
    \/ EraseRow(r)

Client(r) ==
    \/ CreateRequest(r)
    \/ \E d \in Depl : \/ StartRequest(r, d)
                       \/ StopRequest(r, d)
                       \/ TransitionRequest(r, d)
                       \/ DeleteRequest(r, d)

Next ==
    \/ \E r \in Req : Client(r) \/ Continue(r) \/ Disconnect(r) \/ StoreFails(r)
    \/ \E d \in Depl : Patch(d)
    \/ Crash

Spec == Init /\ [][Next]_vars

\* Goroutines run to their end as long as the process lives; nobody obliges
\* a client to send a request.
FairSpec == Spec /\ \A r \in Req : WF_vars(Continue(r))

\* The runs in which no two requests about the same deployment overlap: what
\* a client that waits for each command to finish sees.
OneAtATime ==
    \A q, r \in Req : q # r /\ ctx[q].d = ctx[r].d => ctx[q].d = NoDepl

SerialSpec == Init /\ [][Next /\ OneAtATime']_vars

\* Of those, the runs in which nothing comes between scheduleDeployment's
\* choice of a port and the Update that writes it.
AssignFollows == \A r \in Req : pc[r] = "assign" => pc'[r] # "assign"

AtomicAssignSpec == Init /\ [][Next /\ OneAtATime' /\ AssignFollows]_vars

----------------------------------------------------------------------------
(***************************************************************************)
(* Properties.                                                             *)
(***************************************************************************)

\* Every column, container and request keeps a value of its type.
TypeOK ==
    /\ status \in [Depl -> Status \cup {Absent, Erased}]
    /\ node_id \in [Depl -> Node \cup {NoNode}]
    /\ proxy_port \in [Depl -> Port \cup {0}]
    /\ container \in [Depl -> [Node -> {"none", "exited", "running"}]]
    /\ bound \in [Depl -> [Node -> Port \cup {0}]]
    /\ lastEvent \in [Depl -> Events]
    /\ pc \in [Req -> Labels]
    /\ ctx \in [Req -> Ctx]
    /\ renoded \subseteq Depl \X {"cleared", "moved"}

\* However requests overlap, a deployment past scheduling has a node, unless a
\* client cleared node_id after that, or between the guard of a Transition and
\* its UPDATE: the guard of "starting" stops a row that was cleared earlier,
\* and no write of an overlapping command gets round it.
NodeAssigned ==
    \A d \in Depl :
        /\ status[d] \in Status \ {"pending", "scheduled"}
        /\ <<d, "cleared">> \notin renoded
        => node_id[d] # NoNode

\* The containers of a deployment that still has a row are on the node its
\* row names, the only node that stop and delete will look at, unless a client
\* changed node_id while there were containers or while a command handler was
\* at work: the handlers act on a snapshot of node_id.
ContainersOnAssignedNode ==
    \A d \in Depl, n \in Node :
        Exists(d) /\ container[d][n] # "none" /\ <<d, "moved">> \notin renoded
            => node_id[d] = n

\* A deployment that was never started has no containers and no port: no
\* late write of an overlapping request brings a started one back to
\* "pending".
PendingIsFresh ==
    \A d \in Depl : status[d] = "pending" =>
        proxy_port[d] = 0 /\ \A n \in Node : container[d][n] = "none"

\* A status changes only along the table of DeploymentResource, and a row
\* that was deleted does not come back.
StatusFollowsTable ==
    [][\A d \in Depl :
          \/ status'[d] = status[d]
          \/ status[d] = Absent /\ status'[d] = "pending"
          \/ Exists(d) /\ status'[d] \in Transitions[status[d]] \cup {Erased}]_status

SM == INSTANCE StateMachine
          WITH Row <- Depl, State <- Status, Initial <- "pending", state <- status

\* The table deployments behaves as the resource's state machine promises.
ImplementsStateMachine == SM!Spec

\* A running container of a live deployment is bound to the port the App
\* Proxy will route to, the one in the row.
RouteReachesContainer ==
    \A d \in Depl, n \in Node :
        Exists(d) /\ node_id[d] = n /\ container[d][n] = "running"
            => bound[d][n] = proxy_port[d]

\* "running" is only shown for a deployment whose containers were started
\* and not stopped since.
RunningHasContainers ==
    \A d \in Depl : status[d] = "running" => container[d][node_id[d]] = "running"

Quiescent == \A r \in Req : pc[r] = "idle"

\* When no request is under way the usage events agree with the status: a
\* running deployment is billed as started, a stopped one as stopped.
BillingFollowsStatus ==
    Quiescent => \A d \in Depl :
        /\ status[d] = "pending" => lastEvent[d] = "created"
        /\ status[d] = "running" => lastEvent[d] = "started"
        /\ status[d] = "stopped" => lastEvent[d] = "stopped"

\* The port scheduleDeployment gives to a deployment is not the port of
\* another one on that node that is neither stopped nor deleted.
PortWasFree ==
    [][\A d \in Depl : proxy_port'[d] # proxy_port[d] =>
          \A e \in Depl \ {d} :
              /\ status[e] \in Status \ {"stopped", "deleted"}
              /\ node_id[e] = node_id[d]
              => proxy_port[e] # proxy_port'[d]]_proxy_port

\* The limit is checked in one statement and the row inserted in another, so
\* requests that overlap take a customer past the plan, but by no more than
\* the number of the other requests, however often they do: what is inserted
\* counts from then on, and only a request that was past its check when
\* another inserted, or that moves a "deleted" row, is not stopped.
WithinPlan ==
    MaxDeployments > 0 =>
        Cardinality({d \in Depl : status[d] \in Status \ {"deleted"}})
            <= MaxDeployments + Cardinality(Req) - 1

\* A deployment does not stay in a state that stands for a command under
\* way: the command that entered it leaves it, or another request did.
CommandsFinish ==
    \A d \in Depl, s \in {"starting", "stopping", "deleting"} :
        (status[d] = s) ~> (status[d] # s)
=============================================================================
