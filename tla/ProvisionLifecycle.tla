------------------------- MODULE ProvisionLifecycle -------------------------
(***************************************************************************)
(* The life of cloud provisions: the Provisioner worker of                 *)
(* engine/workers.go, which every few seconds takes a snapshot of the      *)
(* active rows and moves each one a step, and the API (delete, retry,      *)
(* transition, PATCH), whose command DestroyInstance runs inside the       *)
(* request (destroyProvision of engine/handlers.go).  Both act on the      *)
(* table cloud_provisions, on the nodes made from its rows, and on the     *)
(* instances of a cloud provider, without a lock between them.             *)
(*                                                                         *)
(* As in DeploymentLifecycle, pc[a] is the statement or call that actor a  *)
(* does next and ctx[a] holds its local variables.                         *)
(***************************************************************************)
EXTENDS Integers, FiniteSets

CONSTANTS
    MaxProv,            \* how many provisions are ever created
    Instance, NodeId,   \* ids the provider and the table nodes hand out
    Req,                \* request slots
    Worker,             \* the goroutine of the Provisioner
    NoInst, NoNode,     \* null values
    Batch,              \* LIMIT of the query of runCycle, 10 in the code
    CreatedAtIsText,    \* created_at was added as TEXT to an older table
    Targets,            \* states clients POST to .../transition/{state}
    PatchStatus,        \* values clients PATCH into the column status
    PatchInstance,      \* ... provider_instance_id
    PatchNode,          \* ... node_id
    Faults              \* which of "crash", "disconnect", "store" may happen

Prov == 1 .. MaxProv
Actor == Req \cup {Worker}

\* CloudProvisionResource (engine/resources.go).
Status == {"pending", "creating", "configuring", "ready", "failed",
           "destroying", "destroyed"}

Absent == "absent"
Erased == "erased"

Transitions ==
    [s \in Status |->
        CASE s = "pending"     -> {"creating", "failed", "destroying"}
          [] s = "creating"    -> {"configuring", "failed", "destroying"}
          [] s = "configuring" -> {"ready", "failed", "destroying"}
          [] s = "ready"       -> {"destroying"}
          [] s = "failed"      -> {"pending", "destroying"}
          [] s = "destroying"  -> {"destroyed", "failed"}
          [] s = "destroyed"   -> {}]

ASSUME ConstantsAssumption ==
    /\ MaxProv \in Nat /\ Batch \in Nat \ {0}
    /\ NoInst \notin Instance /\ NoNode \notin NodeId
    /\ Worker \notin Req
    /\ CreatedAtIsText \in BOOLEAN
    /\ Targets \subseteq Status /\ PatchStatus \subseteq Status
    /\ PatchInstance \subseteq Instance \cup {NoInst}
    /\ PatchNode \subseteq NodeId \cup {NoNode}
    /\ Faults \subseteq {"crash", "disconnect", "store"}

VARIABLES
    status,      \* the columns of cloud_provisions that decide control
    instance,    \* provider_instance_id (the public_ip goes with it)
    node_id,
    completed,   \* completed_at is set
    old,         \* created_at is more than five minutes ago
    cloud,       \* for each instance the provision it was created for, or 0
    nodes,       \* the instance behind each row of the table nodes
    pc, ctx,
    unlinked     \* history: the provisions whose node_id could not be written
                 \* or was cleared by a client

rows == <<status, instance, node_id, completed, unlinked>>
vars == <<rows, old, cloud, nodes, pc, ctx>>

(***************************************************************************)
(* Local variables: the endpoint op, the provision p, the caller by and    *)
(* the target to of the call of Transition under way, the instance and the *)
(* node of the row map, and the rows of the worker's snapshot still to do. *)
(***************************************************************************)
Ops == {"none", "cycle", "delete", "retry", "transition"}
Callers == {"none", "api", "step", "destroyed", "fail"}
Labels == {"idle", "step", "check", "update", "readback", "record", "link",
           "destroy", "unlink", "verify", "erase"}

Row == [p : Prov, status : Status, inst : Instance \cup {NoInst}]

Ctx == [p : Prov \cup {0}, op : Ops, by : Callers,
        to : Status \cup {"none"}, inst : Instance \cup {NoInst},
        node : NodeId \cup {NoNode}, todo : SUBSET Row]

Blank == [p |-> 0, op |-> "none", by |-> "none", to |-> "none",
          inst |-> NoInst, node |-> NoNode, todo |-> {}]

Unused == "unused"
Gone == "gone"

Init ==
    /\ status = [p \in Prov |-> Absent]
    /\ instance = [p \in Prov |-> NoInst]
    /\ node_id = [p \in Prov |-> NoNode]
    /\ completed = [p \in Prov |-> FALSE]
    /\ old = [p \in Prov |-> FALSE]
    /\ cloud = [i \in Instance |-> 0]
    /\ nodes = [n \in NodeId |-> Unused]
    /\ pc = [a \in Actor |-> "idle"]
    /\ ctx = [a \in Actor |-> Blank]
    /\ unlinked = {}

Exists(p) == status[p] \in Status
Live(i) == i \in Instance /\ cloud[i] \in Prov

Goto(a, label, c) ==
    /\ pc' = [pc EXCEPT ![a] = label]
    /\ ctx' = [ctx EXCEPT ![a] = c]

Return(a) == Goto(a, "idle", Blank)

CallTransition(a, by, to) ==
    Goto(a, "check", [ctx[a] EXCEPT !.by = by, !.to = to])

\* The handler is over: the worker takes the next row of its snapshot,
\* deleteHandler goes on, other requests return.
Done(a) ==
    CASE ctx[a].todo # {} ->
             Goto(a, "step", [Blank EXCEPT !.op = "cycle", !.todo = ctx[a].todo])
      [] ctx[a].todo = {} /\ ctx[a].op = "delete" -> Goto(a, "verify", ctx[a])
      [] OTHER -> Return(a)

----------------------------------------------------------------------------
(***************************************************************************)
(* Store.Transition, as in DeploymentLifecycle; this resource has no       *)
(* guards.  Only DestroyInstance has a handler: Dispatch logs the other    *)
(* commands.                                                               *)
(***************************************************************************)
CanTransition(from, to) == from \in Status /\ to \in Transitions[from]

\* The worker and failProvision ignore the error of Transition, and
\* destroyProvision goes on to the node whether there was one or not.
Refused(a) ==
    CASE ctx[a].by = "api" /\ ctx[a].op = "delete" -> Goto(a, "erase", ctx[a])
      [] ctx[a].by = "api" /\ ctx[a].op # "delete" -> Return(a)
      [] ctx[a].by = "destroyed" -> Goto(a, "unlink", ctx[a])
      [] OTHER -> Done(a)

Dispatched(a) ==
    LET p == ctx[a].p
    IN  CASE ctx[a].by = "api" /\ ctx[a].to = "destroying" ->
                 Goto(a, "destroy", [ctx[a] EXCEPT !.inst = instance[p],
                                                   !.node = node_id[p]])
          [] ctx[a].by = "destroyed" -> Goto(a, "unlink", ctx[a])
          [] OTHER -> Done(a)

TransitionCheck(a) ==
    /\ pc[a] = "check"
    /\ IF CanTransition(status[ctx[a].p], ctx[a].to)
         THEN Goto(a, "update", ctx[a])
         ELSE Refused(a)
    /\ UNCHANGED <<rows, old, cloud, nodes>>

TransitionUpdate(a) ==
    /\ pc[a] = "update"
    /\ IF Exists(ctx[a].p)
         THEN /\ status' = [status EXCEPT ![ctx[a].p] = ctx[a].to]
              /\ Goto(a, "readback", ctx[a])
         ELSE /\ Refused(a)
              /\ UNCHANGED status
    /\ UNCHANGED <<instance, node_id, completed, unlinked, old, cloud, nodes>>

TransitionReturn(a) ==
    /\ pc[a] = "readback"
    /\ IF Exists(ctx[a].p) THEN Dispatched(a) ELSE Refused(a)
    /\ UNCHANGED <<rows, old, cloud, nodes>>

----------------------------------------------------------------------------
(***************************************************************************)
(* The Provisioner.  runCycle reads the first Batch active rows in the     *)
(* order of their ids and steps each one by the status it had then.        *)
(***************************************************************************)
Active == {p \in Prov : status[p] \in {"pending", "creating", "configuring", "destroying"}}

RunCycle ==
    /\ pc[Worker] = "idle"
    /\ Active # {}
    /\ LET first == {p \in Active : Cardinality({q \in Active : q < p}) < Batch}
           snapshot == {[p |-> p, status |-> status[p], inst |-> instance[p]] : p \in first}
       IN Goto(Worker, "step", [Blank EXCEPT !.op = "cycle", !.todo = snapshot])
    /\ UNCHANGED <<rows, old, cloud, nodes>>

CurrentRow == CHOOSE x \in ctx[Worker].todo : \A y \in ctx[Worker].todo : x.p <= y.p

\* What the step functions have in their local variables.
RowCtx == [Blank EXCEPT !.op = "cycle", !.p = CurrentRow.p, !.inst = CurrentRow.inst,
                        !.todo = ctx[Worker].todo \ {CurrentRow}]

\* Mutant: a row that is "creating" is created again.
SteppingAgain(s) ==
    /\ pc[Worker] = "step"
    /\ CurrentRow.status = s \/ (s = "pending" /\ CurrentRow.status = "creating")

Stepping(s) == pc[Worker] = "step" /\ CurrentRow.status = s

\* The step is over with a call of Transition, whose error is ignored.
StepTransition(by, to) ==
    Goto(Worker, "check", [RowCtx EXCEPT !.by = by, !.to = to])

\* The worker leaves the row as it is until the next cycle.
StepSkip ==
    IF RowCtx.todo = {} THEN Return(Worker)
    ELSE Goto(Worker, "step", [Blank EXCEPT !.op = "cycle", !.todo = RowCtx.todo])

\* Provider.CreateInstance makes a new instance.
LaunchInstance(i, p) ==
    /\ cloud[i] = 0
    /\ \A a \in Actor : ctx[a].inst # i
    /\ \A q \in Prov : instance[q] # i
    /\ cloud' = [cloud EXCEPT ![i] = p]

\* stepCreate, up to the instance.
StepCreate ==
    /\ Stepping("pending")
    /\ \E i \in Instance :
           /\ LaunchInstance(i, CurrentRow.p)
           /\ Goto(Worker, "record", [RowCtx EXCEPT !.inst = i])
    /\ UNCHANGED <<rows, old, nodes>>

\* The credentials, the key or the provider fail it; the provider may fail
\* after the instance was made, when it waits for the public IP.
StepCreateFails ==
    /\ Stepping("pending")
    /\ \/ UNCHANGED cloud
       \/ \E i \in Instance : LaunchInstance(i, CurrentRow.p)
    /\ StepTransition("fail", "failed")
    /\ UNCHANGED <<rows, old, nodes>>

\* Mutant: the Update sets the state too, and one too far.
RecordInstanceConfigures ==
    /\ pc[Worker] = "record"
    /\ IF Exists(ctx[Worker].p)
         THEN /\ instance' = [instance EXCEPT ![ctx[Worker].p] = ctx[Worker].inst]
              /\ status' = [status EXCEPT ![ctx[Worker].p] = "configuring"]
         ELSE UNCHANGED <<instance, status>>
    /\ CallTransition(Worker, "step", "configuring")
    /\ UNCHANGED <<node_id, completed, unlinked, old, cloud, nodes>>

\* The Update of provider_instance_id, its error ignored.
RecordInstance ==
    /\ pc[Worker] = "record"
    /\ instance' = IF Exists(ctx[Worker].p)
                     THEN [instance EXCEPT ![ctx[Worker].p] = ctx[Worker].inst]
                     ELSE instance
    /\ CallTransition(Worker, "step", "creating")
    /\ UNCHANGED <<status, node_id, completed, unlinked, old, cloud, nodes>>

StepConfigure ==
    /\ Stepping("creating")
    /\ StepTransition("step", "configuring")
    /\ UNCHANGED <<rows, old, cloud, nodes>>

\* stepFinalize.  The driver returns a DATETIME column as a time.Time, and
\* then the type assertion on created_at fails and there is no timeout.
TimedOut(p) == CreatedAtIsText /\ old[p]

StepFinalizeTimeout ==
    /\ Stepping("configuring")
    /\ TimedOut(CurrentRow.p)
    /\ StepTransition("fail", "failed")
    /\ UNCHANGED <<rows, old, cloud, nodes>>

\* SSH is not reachable yet.
StepFinalizeWaits ==
    /\ Stepping("configuring")
    /\ ~TimedOut(CurrentRow.p)
    /\ StepSkip
    /\ UNCHANGED <<rows, old, cloud, nodes>>

\* The ssh key or the insertion of the node fails.
StepFinalizeFails ==
    /\ Stepping("configuring")
    /\ ~TimedOut(CurrentRow.p)
    /\ StepTransition("fail", "failed")
    /\ UNCHANGED <<rows, old, cloud, nodes>>

StepFinalize ==
    /\ Stepping("configuring")
    /\ ~TimedOut(CurrentRow.p)
    /\ \E n \in NodeId :
           /\ nodes[n] = Unused
           /\ nodes' = [nodes EXCEPT ![n] = CurrentRow.inst]
           /\ Goto(Worker, "link", [RowCtx EXCEPT !.node = n])
    /\ UNCHANGED <<rows, old, cloud>>

\* Mutant: node_id is left out of the Update.
LinkNodeForgotten ==
    /\ pc[Worker] = "link"
    /\ completed' = IF Exists(ctx[Worker].p)
                      THEN [completed EXCEPT ![ctx[Worker].p] = TRUE]
                      ELSE completed
    /\ CallTransition(Worker, "step", "ready")
    /\ UNCHANGED <<status, instance, node_id, unlinked, old, cloud, nodes>>

\* The Update of node_id and completed_at.
LinkNode ==
    /\ pc[Worker] = "link"
    /\ LET p == ctx[Worker].p
       IN IF Exists(p)
            THEN /\ node_id' = [node_id EXCEPT ![p] = ctx[Worker].node]
                 /\ completed' = [completed EXCEPT ![p] = TRUE]
            ELSE UNCHANGED <<node_id, completed>>
    /\ CallTransition(Worker, "step", "ready")
    /\ UNCHANGED <<status, instance, unlinked, old, cloud, nodes>>

\* Provider.DestroyInstance: an instance that is gone already is a success,
\* and an error says nothing about the instance.
DestroyInstance(i) == cloud' = [cloud EXCEPT ![i] = IF Live(i) THEN -1 ELSE @]

DestroyInstanceFails(i) == UNCHANGED cloud \/ DestroyInstance(i)

\* stepDestroy: an error of the provider is taken for success.
StepDestroy ==
    /\ Stepping("destroying")
    /\ IF CurrentRow.inst = NoInst
         THEN UNCHANGED cloud
         ELSE DestroyInstance(CurrentRow.inst) \/ DestroyInstanceFails(CurrentRow.inst)
    /\ StepTransition("step", "destroyed")
    /\ UNCHANGED <<rows, old, nodes>>

\* The credentials cannot be decrypted, or the provider is unknown.
StepDestroyFails ==
    /\ Stepping("destroying")
    /\ CurrentRow.inst # NoInst
    /\ StepTransition("fail", "failed")
    /\ UNCHANGED <<rows, old, cloud, nodes>>

----------------------------------------------------------------------------
(***************************************************************************)
(* destroyProvision, the command of "destroying", inside a request.        *)
(***************************************************************************)
DestroyProvision(r) ==
    /\ pc[r] = "destroy"
    /\ IF ctx[r].inst = NoInst
         THEN CallTransition(r, "step", "destroyed") /\ UNCHANGED cloud
         ELSE CallTransition(r, "destroyed", "destroyed") /\ DestroyInstance(ctx[r].inst)
    /\ UNCHANGED <<rows, old, nodes>>

DestroyProvisionFails(r) ==
    /\ pc[r] = "destroy"
    /\ ctx[r].inst # NoInst
    /\ DestroyInstanceFails(ctx[r].inst)
    /\ CallTransition(r, "fail", "failed")
    /\ UNCHANGED <<rows, old, nodes>>

\* Store.Delete of the node the row map names.
DeleteNode(r) ==
    /\ pc[r] = "unlink"
    /\ nodes' = IF ctx[r].node = NoNode THEN nodes
                ELSE [nodes EXCEPT ![ctx[r].node] = Gone]
    /\ Done(r)
    /\ UNCHANGED <<rows, old, cloud>>

----------------------------------------------------------------------------
(***************************************************************************)
(* The API.                                                                *)
(***************************************************************************)
Request(op, p, by, to) == [Blank EXCEPT !.op = op, !.p = p, !.by = by, !.to = to]

\* createHandler; ids are handed out in order.
CreateProvision ==
    /\ \E p \in Prov :
           /\ status[p] = Absent
           /\ \A q \in Prov : q < p => status[q] # Absent
           /\ status' = [status EXCEPT ![p] = "pending"]
    /\ UNCHANGED <<instance, node_id, completed, unlinked, old, cloud, nodes, pc, ctx>>

\* strVal(prov["completed_at"]): the store returns a timestamp as a time.Time,
\* of which strVal makes the empty string.
CompletedAtText(p) == FALSE

\* Mutant: a state that the resource does not have.
RetryTargetUnknown(p) == "retrying"

RetryTarget(p) ==
    IF instance[p] # NoInst /\ CompletedAtText(p) THEN "destroying" ELSE "pending"

RetryRequest(r, p) ==
    /\ pc[r] = "idle"
    /\ status[p] = "failed"
    /\ Goto(r, "check", Request("retry", p, "api", RetryTarget(p)))
    /\ UNCHANGED <<rows, old, cloud, nodes>>

TransitionRequest(r, p) ==
    /\ pc[r] = "idle"
    /\ Exists(p)
    /\ \E to \in Targets : Goto(r, "check", Request("transition", p, "api", to))
    /\ UNCHANGED <<rows, old, cloud, nodes>>

DeleteRequest(r, p) ==
    /\ pc[r] = "idle"
    /\ Exists(p)
    /\ IF "destroying" \in Transitions[status[p]]
         THEN Goto(r, "check", Request("delete", p, "api", "destroying"))
         ELSE Goto(r, "erase", Request("delete", p, "api", "none"))
    /\ UNCHANGED <<rows, old, cloud, nodes>>

\* After the command: a provision that "failed" is kept (409).
VerifyDelete(r) ==
    /\ pc[r] = "verify"
    /\ IF status[ctx[r].p] = "failed" THEN Return(r) ELSE Goto(r, "erase", ctx[r])
    /\ UNCHANGED <<rows, old, cloud, nodes>>

EraseRow(r) ==
    /\ pc[r] = "erase"
    /\ status' = IF Exists(ctx[r].p) THEN [status EXCEPT ![ctx[r].p] = Erased] ELSE status
    /\ Return(r)
    /\ UNCHANGED <<instance, node_id, completed, unlinked, old, cloud, nodes>>

\* updateHandler: a PATCH writes the columns as they come.
Patch(p) ==
    /\ Exists(p)
    /\ \E s \in PatchStatus \cup {status[p]}, i \in PatchInstance \cup {instance[p]},
          n \in PatchNode \cup {node_id[p]} :
           /\ status' = [status EXCEPT ![p] = s]
           /\ instance' = [instance EXCEPT ![p] = i]
           /\ node_id' = [node_id EXCEPT ![p] = n]
           /\ unlinked' = IF n = NoNode /\ node_id[p] # NoNode
                            THEN unlinked \cup {p} ELSE unlinked
    /\ UNCHANGED <<completed, old, cloud, nodes, pc, ctx>>

----------------------------------------------------------------------------
(***************************************************************************)
(* Time, and faults as in DeploymentLifecycle.                             *)
(***************************************************************************)
\* Only stepFinalize looks at created_at, so it is enough that five minutes
\* can be over while the provision is "configuring".
GrowOld(p) ==
    /\ status[p] = "configuring" /\ ~old[p]
    /\ old' = [old EXCEPT ![p] = TRUE]
    /\ UNCHANGED <<rows, cloud, nodes, pc, ctx>>

Crash ==
    /\ "crash" \in Faults
    /\ \E a \in Actor : pc[a] # "idle"
    /\ pc' = [a \in Actor |-> "idle"]
    /\ ctx' = [a \in Actor |-> Blank]
    /\ UNCHANGED <<rows, old, cloud, nodes>>

Disconnect(r) ==
    /\ "disconnect" \in Faults
    /\ pc[r] # "idle"
    /\ Return(r)
    /\ UNCHANGED <<rows, old, cloud, nodes>>

StoreFails(a) ==
    /\ "store" \in Faults
    /\ \/ pc[a] \in {"check", "update", "readback"} /\ Refused(a)
       \/ a = Worker /\ pc[a] = "record" /\ CallTransition(a, "step", "creating")
       \/ a = Worker /\ pc[a] = "link" /\ CallTransition(a, "step", "ready")
       \/ pc[a] = "unlink" /\ Done(a)
       \/ pc[a] = "verify" /\ Goto(a, "erase", ctx[a])
       \/ pc[a] = "erase" /\ Return(a)
    /\ unlinked' = IF pc[a] = "link" THEN unlinked \cup {ctx[a].p} ELSE unlinked
    /\ UNCHANGED <<status, instance, node_id, completed, old, cloud, nodes>>

----------------------------------------------------------------------------
Transition(a) == TransitionCheck(a) \/ TransitionUpdate(a) \/ TransitionReturn(a)

\* What the worker does in the middle of a cycle.
Step ==
    \/ StepCreate \/ StepCreateFails \/ RecordInstance
    \/ StepConfigure
    \/ StepFinalizeTimeout \/ StepFinalizeWaits \/ StepFinalizeFails
    \/ StepFinalize \/ LinkNode
    \/ StepDestroy \/ StepDestroyFails

\* What a request does once it has been accepted.
Continue(r) ==
    \/ Transition(r)
    \/ DestroyProvision(r) \/ DestroyProvisionFails(r) \/ DeleteNode(r)
    \/ VerifyDelete(r) \/ EraseRow(r)

Client(r) ==
    \E p \in Prov : RetryRequest(r, p) \/ TransitionRequest(r, p) \/ DeleteRequest(r, p)

\* What happens when nothing fails.
Normal ==
    \/ CreateProvision
    \/ RunCycle \/ Step \/ Transition(Worker)
    \/ \E r \in Req : Client(r) \/ Continue(r)
    \/ \E p \in Prov : Patch(p) \/ GrowOld(p)

Fault ==
    \/ \E r \in Req : Disconnect(r)
    \/ \E a \in Actor : StoreFails(a)
    \/ Crash

Next == Normal \/ Fault

Spec == Init /\ [][Next]_vars

\* The ticker and the goroutines run as long as the process lives, and time
\* passes.  Nothing is promised when calls keep failing.
FairSpec ==
    /\ Init /\ [][Normal]_vars
    /\ WF_vars(RunCycle \/ Step \/ Transition(Worker))
    /\ \A r \in Req : WF_vars(Continue(r))
    /\ \A p \in Prov : WF_vars(GrowOld(p))

\* The provisions an actor has read and will act on.
Held(a) == {ctx[a].p} \cup {x.p : x \in ctx[a].todo}

\* The runs in which no two actors work on the same provision.
OneAtATime == \A a, b \in Actor : a # b => Held(a) \cap Held(b) \subseteq {0}

SerialSpec == Init /\ [][Next /\ OneAtATime']_vars

----------------------------------------------------------------------------
(***************************************************************************)
(* Properties.                                                             *)
(***************************************************************************)

\* Every column, instance, node and local variable keeps a value of its type.
TypeOK ==
    /\ status \in [Prov -> Status \cup {Absent, Erased}]
    /\ instance \in [Prov -> Instance \cup {NoInst}]
    /\ node_id \in [Prov -> NodeId \cup {NoNode}]
    /\ completed \in [Prov -> BOOLEAN]
    /\ old \in [Prov -> BOOLEAN]
    /\ cloud \in [Instance -> Prov \cup {0, -1}]
    /\ nodes \in [NodeId -> Instance \cup {NoInst, Unused, Gone}]
    /\ pc \in [Actor -> Labels]
    /\ ctx \in [Actor -> Ctx]
    /\ unlinked \subseteq Prov

SM == INSTANCE StateMachine
          WITH Row <- Prov, State <- Status, Initial <- "pending", state <- status

\* The table cloud_provisions behaves as the resource's state machine
\* promises, whatever fails, when no two actors work on the same provision.
ImplementsStateMachine == SM!Spec

\* The provider is asked for an instance only while the provision is
\* "pending", and to destroy one only while the provision that it was
\* created for is "destroying": the worker acts on a snapshot, a command on
\* the row map it was given.
CloudFollowsStatus ==
    [][\A i \in Instance : cloud'[i] # cloud[i] =>
          IF cloud'[i] \in Prov THEN status[cloud'[i]] = "pending"
          ELSE cloud[i] \in Prov => status[cloud[i]] = "destroying"]_cloud

\* A "ready" provision has its node, although node_id is written in one
\* statement and the state in later ones, and requests, hang-ups and crashes
\* come between.  The exceptions are the ones the code makes: stepFinalize
\* ignores an error of the Update of node_id, and a PATCH may clear the column.
ReadyHasNode ==
    \A p \in Prov : status[p] = "ready" => node_id[p] # NoNode \/ p \in unlinked

\* "Fail after 5 minutes to avoid stuck provisions" (the comment on the timeout
\* of stepFinalize): once clients leave it alone, a provision does not stay in
\* a state the worker is responsible for.
ProvisionsSettle ==
    <>[](\A r \in Req : pc[r] = "idle") =>
        \A p \in Prov, s \in {"pending", "creating", "configuring", "destroying"} :
            (status[p] = s) ~> (status[p] # s)
=============================================================================
