-------------------------- MODULE DeploymentProofs --------------------------
(***************************************************************************)
(* Theorems about DeploymentLifecycle, for every number of deployments,    *)
(* nodes, ports and overlapping requests: type correctness, the safety     *)
(* invariants that hold however requests overlap, and what holds when no   *)
(* two requests about the same deployment do.                              *)
(***************************************************************************)
EXTENDS DeploymentLifecycle, FiniteSetTheorems, WellFoundedInduction, TLAPS

(***************************************************************************)
(* A non-empty set of naturals has a least element, so that AllocatePort,  *)
(* which chooses the least free port, returns a port.                      *)
(***************************************************************************)
LEMMA SmallestElement ==
    ASSUME NEW S, S \subseteq Nat, S # {}
    PROVE  \E x \in S : \A y \in S : x <= y
<1> DEFINE R == {ss \in Nat \X Nat : ss[1] < ss[2]}
<1>1. IsWellFoundedOn(R, Nat)
  BY NatLessThanWellFounded DEF OpToRel
<1>2. PICK x \in S : \A y \in S : ~(<<y, x>> \in R)
  <2> HIDE DEF R
  <2> QED BY <1>1, WFMin, Zenon
<1>3. ASSUME NEW y \in S PROVE x <= y
  <2>1. ~(y < x)
    BY <1>2
  <2> QED BY <2>1
<1> QED BY <1>2, <1>3

\* AllocatePort returns a free port of the range whenever there is one.
LEMMA AllocatedPortIsFree ==
    ASSUME NEW used, ~(Port \subseteq used)
    PROVE  AllocatePort(used) \in Port \ used
<1>1. Port \ used \subseteq Nat /\ Port \ used # {}
  BY ConstantsAssumption DEF Port
<1>2. \E p \in Port \ used : \A q \in Port \ used : p <= q
  BY <1>1, SmallestElement
<1> QED BY <1>2 DEF AllocatePort

-----------------------------------------------------------------------------
(***************************************************************************)
(* Type correctness.  TypeOK is not inductive: what TransitionUpdate       *)
(* writes into status is the local variable to, which must be a status     *)
(* whenever Transition is under way, and a request that is under way must  *)
(* be about some deployment.                                               *)
(***************************************************************************)
RequestsOK ==
    \A r \in Req :
        /\ pc[r] # "idle" => ctx[r].d \in Depl
        /\ pc[r] \in {"check", "update", "readback"} => ctx[r].to \in Status

TypeInv == TypeOK /\ RequestsOK

\* The initial state has the types of the strengthened type invariant.
LEMMA InitTypeInv == Init => TypeInv
BY ConstantsAssumption
   DEF Init, TypeInv, TypeOK, RequestsOK, Blank, Ctx, Labels, Ops, Callers,
       Events, Absent

\* What a request that goes on may leave in pc and ctx.
LEMMA GotoType ==
    ASSUME TypeInv, NEW r \in Req, NEW label \in Labels, NEW c \in Ctx,
           label # "idle" => c.d \in Depl,
           label \in {"check", "update", "readback"} => c.to \in Status,
           Goto(r, label, c)
    PROVE  /\ pc' \in [Req -> Labels]
           /\ ctx' \in [Req -> Ctx]
           /\ RequestsOK'
BY DEF Goto, TypeInv, TypeOK, RequestsOK

\* A request that returns leaves a blank slot.
LEMMA ReturnType ==
    ASSUME TypeInv, NEW r \in Req, Return(r)
    PROVE  pc' \in [Req -> Labels] /\ ctx' \in [Req -> Ctx] /\ RequestsOK'
<1>1. Blank \in Ctx /\ "idle" \in Labels
  BY DEF Blank, Ctx, Ops, Callers, Labels
<1> QED BY <1>1, GotoType DEF Return

\* The end of a command handler keeps the types of pc and ctx.
LEMMA DoneType ==
    ASSUME TypeInv, NEW r \in Req, pc[r] # "idle", Done(r)
    PROVE  pc' \in [Req -> Labels] /\ ctx' \in [Req -> Ctx] /\ RequestsOK'
<1>1. ctx[r] \in Ctx /\ ctx[r].d \in Depl /\ "verify" \in Labels
  BY DEF TypeInv, TypeOK, RequestsOK, Labels
<1>2. CASE ctx[r].op = "delete"
  BY <1>1, <1>2, GotoType DEF Done
<1>3. CASE ctx[r].op # "delete"
  BY <1>3, ReturnType DEF Done
<1> QED BY <1>2, <1>3

\* A call of Transition keeps the types of pc and ctx.
LEMMA CallTransitionType ==
    ASSUME TypeInv, NEW r \in Req, pc[r] # "idle",
           NEW by \in Callers, NEW to \in Status, CallTransition(r, by, to)
    PROVE  pc' \in [Req -> Labels] /\ ctx' \in [Req -> Ctx] /\ RequestsOK'
<1> DEFINE c == [ctx[r] EXCEPT !.by = by, !.to = to]
<1>1. c \in Ctx /\ c.d \in Depl /\ c.to \in Status /\ "check" \in Labels
  BY DEF TypeInv, TypeOK, RequestsOK, Ctx, Labels
<1>2. Goto(r, "check", c)
  BY DEF CallTransition
<1> HIDE DEF c
<1> QED BY <1>1, <1>2, GotoType

\* An error of Transition keeps the types of pc and ctx.
LEMMA RefusedType ==
    ASSUME TypeInv, NEW r \in Req, pc[r] # "idle", Refused(r)
    PROVE  pc' \in [Req -> Labels] /\ ctx' \in [Req -> Ctx] /\ RequestsOK'
<1>1. ctx[r] \in Ctx /\ ctx[r].d \in Depl /\ "erase" \in Labels
  BY DEF TypeInv, TypeOK, RequestsOK, Labels
<1>2. Goto(r, "erase", ctx[r]) \/ Return(r) \/ Done(r)
  BY DEF Refused
<1> QED BY <1>1, <1>2, GotoType, ReturnType, DoneType

\* The row map given to a command handler is well typed.
LEMMA DispatchedType ==
    ASSUME TypeInv, NEW r \in Req, pc[r] = "readback", Dispatched(r)
    PROVE  pc' \in [Req -> Labels] /\ ctx' \in [Req -> Ctx] /\ RequestsOK'
<1> DEFINE row == [ctx[r] EXCEPT !.node = node_id[ctx[r].d],
                                 !.port = proxy_port[ctx[r].d]]
           command == OnEnter[ctx[r].to]
<1>1. ctx[r] \in Ctx /\ ctx[r].d \in Depl /\ ctx[r].to \in Status
  BY DEF TypeInv, TypeOK, RequestsOK
<1>2. row \in Ctx /\ row.d \in Depl
  BY <1>1 DEF TypeInv, TypeOK, Ctx
<1>3. command \in {"schedule", "start", "stop", "remove", "idle"}
  BY <1>1 DEF OnEnter, Status
<1>4. \/ Done(r)
      \/ command # "idle" /\ Goto(r, command, row)
      \/ Goto(r, "start", row)
      \/ Goto(r, "bill", ctx[r])
  BY DEF Dispatched
<1>5. {"schedule", "start", "stop", "remove", "bill"} \subseteq Labels
  BY DEF Labels
<1> HIDE DEF row, command
<1> QED BY <1>1, <1>2, <1>3, <1>4, <1>5, GotoType, DoneType

\* What the orchestrator does keeps the types of container and bound.
DockerOK ==
    /\ container \in [Depl -> [Node -> {"none", "exited", "running"}]]
    /\ bound \in [Depl -> [Node -> Port \cup {0}]]

\* A command that leaves the node alone keeps the types of its containers.
LEMMA DockerUnchanged ==
    ASSUME TypeInv, UNCHANGED docker
    PROVE  DockerOK'
BY DEF TypeInv, TypeOK, DockerOK, docker

\* Changing one container keeps the types.
LEMMA SetContainerType ==
    ASSUME TypeInv, NEW d \in Depl, NEW n \in Node, NEW p \in Port \cup {0},
           NEW st \in {"none", "exited", "running"}, SetContainer(d, n, st, p)
    PROVE  DockerOK'
BY DEF TypeInv, TypeOK, DockerOK, SetContainer

\* Orchestrator.StartDeployment keeps the types when it succeeds.
LEMMA StartContainersType ==
    ASSUME TypeInv, NEW d \in Depl, NEW n \in Node, NEW p \in Port \cup {0},
           StartContainers(d, n, p)
    PROVE  DockerOK'
<1>1. BindingOf(d, n, p) \in Port \cup {0}
  BY DEF BindingOf, TypeInv, TypeOK
<1> QED BY <1>1, SetContainerType DEF StartContainers

\* ... and wherever it fails.
LEMMA StartContainersFailsType ==
    ASSUME TypeInv, NEW d \in Depl, NEW n \in Node, NEW p \in Port \cup {0},
           StartContainersFails(d, n, p)
    PROVE  DockerOK'
<1>1. BindingOf(d, n, p) \in Port \cup {0}
  BY DEF BindingOf, TypeInv, TypeOK
<1> QED BY <1>1, SetContainerType, StartContainersType, DockerUnchanged
        DEF StartContainersFails

\* Orchestrator.StopDeployment keeps the types.
LEMMA StopContainersType ==
    ASSUME TypeInv, NEW d \in Depl, NEW n \in Node, StopContainers(d, n)
    PROVE  DockerOK'
<1>1. bound[d][n] \in Port \cup {0}
  BY DEF TypeInv, TypeOK
<1> QED BY <1>1, SetContainerType, DockerUnchanged DEF StopContainers

\* Orchestrator.RemoveDeployment keeps the types.
LEMMA RemoveContainersType ==
    ASSUME TypeInv, NEW d \in Depl, NEW n \in Node, RemoveContainers(d, n)
    PROVE  DockerOK'
BY SetContainerType, StopContainersType DEF RemoveContainers

\* What a request holds when the API accepts it is well typed.
LEMMA RequestType ==
    ASSUME NEW op \in Ops, NEW d \in Depl, NEW to \in Status \cup {"none"}
    PROVE  LET c == Request(op, d, "api", to)
           IN  c \in Ctx /\ c.d = d /\ c.to = to
BY DEF Request, Blank, Ctx, Callers, Ops

\* Whatever ports it takes to be used, scheduleDeployment keeps the types.
LEMMA SchedulePortType ==
    ASSUME TypeInv, NEW r \in Req, NEW used, SchedulePort(r, used)
    PROVE  TypeInv'
<1>1. pc[r] # "idle" /\ "assign" \in Labels
  BY DEF SchedulePort, Labels
<1>2. ctx[r] \in Ctx /\ ctx[r].d \in Depl
  BY <1>1 DEF TypeInv, TypeOK, RequestsOK
<1>3. CASE Done(r)
  BY <1>1, <1>3, DoneType DEF SchedulePort, TypeInv, TypeOK, rows, docker
<1>4. CASE \E c \in Ctx : c.d = ctx[r].d /\ Goto(r, "assign", c)
  <2>1. pc' \in [Req -> Labels] /\ ctx' \in [Req -> Ctx] /\ RequestsOK'
    BY <1>1, <1>2, <1>4, GotoType
  <2> QED BY <2>1 DEF SchedulePort, TypeInv, TypeOK, rows, docker
<1>5. ASSUME ~(Port \subseteq used)
      PROVE  LET c == [ctx[r] EXCEPT !.port = AllocatePort(used)]
             IN  c \in Ctx /\ c.d = ctx[r].d
  <2>1. AllocatePort(used) \in Port
    BY <1>5, AllocatedPortIsFree
  <2> QED BY <2>1, <1>2 DEF Ctx
<1> QED BY <1>2, <1>3, <1>4, <1>5 DEF SchedulePort

\* A failing store call changes nothing but where the request goes on.
LEMMA StoreFailsType ==
    ASSUME TypeInv, NEW r \in Req, StoreFails(r)
    PROVE  TypeInv'
<1>1. CASE SchedulePort(r, {})
  BY <1>1, SchedulePortType
<1>2. CASE ~SchedulePort(r, {})
  <2>1. pc[r] # "idle" /\ UNCHANGED <<rows, docker, lastEvent, renoded>>
    BY <1>2 DEF StoreFails
  <2>2. ctx[r] \in Ctx /\ ctx[r].d \in Depl /\ "erase" \in Labels
    BY <2>1 DEF TypeInv, TypeOK, RequestsOK, Labels
  <2>3. "schedule" \in Callers /\ "starting" \in Status
    BY DEF Callers, Status
  <2>4. \/ Refused(r) \/ CallTransition(r, "schedule", "starting")
        \/ Done(r) \/ Goto(r, "erase", ctx[r]) \/ Return(r)
    BY <1>2 DEF StoreFails
  <2>5. pc' \in [Req -> Labels] /\ ctx' \in [Req -> Ctx] /\ RequestsOK'
    BY <2>1, <2>2, <2>3, <2>4, RefusedType, CallTransitionType, DoneType,
       GotoType, ReturnType
  <2> QED BY <2>1, <2>5 DEF TypeInv, TypeOK, rows, docker
<1> QED BY <1>1, <1>2

\* Every step keeps the type invariant: one step of the proof per action.
LEMMA NextTypeInv == TypeInv /\ [Next]_vars => TypeInv'
<1> SUFFICES ASSUME TypeInv, [Next]_vars PROVE TypeInv'
  OBVIOUS
<1> USE ConstantsAssumption
<1>a. ASSUME NEW r \in Req
      PROVE  ctx[r] \in Ctx /\ (pc[r] # "idle" => ctx[r].d \in Depl)
  BY DEF TypeInv, TypeOK, RequestsOK
<1>1. ASSUME NEW r \in Req, Client(r) PROVE TypeInv'
  <2>1. UNCHANGED <<rows, docker, lastEvent, renoded>>
    BY <1>1 DEF Client, CreateRequest, StartRequest, StopRequest,
                TransitionRequest, DeleteRequest
  <2>2. PICK label \in {"insert", "check", "erase"}, c \in Ctx :
            /\ Goto(r, label, c)
            /\ c.d \in Depl
            /\ label = "check" => c.to \in Status
    <3>1. CASE CreateRequest(r)
      BY <3>1 DEF CreateRequest, Request, Blank, Ctx, Ops, Callers
    <3>2. CASE \E d \in Depl : StartRequest(r, d)
      <4>1. PICK d \in Depl : StartRequest(r, d)
        BY <3>2
      <4>2. StartTarget(status[d]) \in Status
        BY <4>1 DEF StartRequest, StartTarget, Status
      <4> QED BY <4>1, <4>2, RequestType DEF StartRequest, Ops
    <3>3. CASE \E d \in Depl : StopRequest(r, d)
      BY <3>3, RequestType DEF StopRequest, Ops, Status
    <3>4. CASE \E d \in Depl : TransitionRequest(r, d)
      BY <3>4, RequestType DEF TransitionRequest, Ops
    <3>5. CASE \E d \in Depl : DeleteRequest(r, d)
      <4>1. "deleting" \in Status /\ "delete" \in Ops
        BY DEF Status, Ops
      <4> QED BY <3>5, <4>1, RequestType DEF DeleteRequest
    <3> QED BY <1>1, <3>1, <3>2, <3>3, <3>4, <3>5 DEF Client
  <2>3. pc' \in [Req -> Labels] /\ ctx' \in [Req -> Ctx] /\ RequestsOK'
    <3>1. label \in Labels
      BY DEF Labels
    <3> QED BY <2>2, <3>1, GotoType
  <2> QED BY <2>1, <2>3 DEF TypeInv, TypeOK, rows, docker
<1>2. ASSUME NEW r \in Req, Continue(r) PROVE TypeInv'
  <2>1. CASE Insert(r)
    <3>1. Goto(r, "bill", ctx[r]) /\ pc[r] # "idle" /\ "bill" \in Labels
      BY <2>1 DEF Insert, Labels
    <3>2. pc' \in [Req -> Labels] /\ ctx' \in [Req -> Ctx] /\ RequestsOK'
      BY <1>a, <3>1, GotoType
    <3>3. /\ status' \in [Depl -> Status \cup {Absent, Erased}]
          /\ node_id' \in [Depl -> Node \cup {NoNode}]
      BY <2>1, <1>a, <3>1 DEF Insert, TypeInv, TypeOK, Status, Ctx
    <3> QED BY <2>1, <3>2, <3>3 DEF Insert, TypeInv, TypeOK, docker
  <2>2. CASE TransitionCheck(r)
    <3>1. Goto(r, "update", ctx[r]) \/ Refused(r)
      BY <2>2 DEF TransitionCheck
    <3>2. pc[r] # "idle" /\ ctx[r].to \in Status /\ "update" \in Labels
      BY <2>2 DEF TransitionCheck, TypeInv, RequestsOK, Labels
    <3>3. pc' \in [Req -> Labels] /\ ctx' \in [Req -> Ctx] /\ RequestsOK'
      BY <1>a, <3>1, <3>2, GotoType, RefusedType
    <3> QED BY <2>2, <3>3 DEF TransitionCheck, TypeInv, TypeOK, rows, docker
  <2>3. CASE TransitionUpdate(r)
    <3>1. pc[r] # "idle" /\ ctx[r].to \in Status /\ "readback" \in Labels
      BY <2>3 DEF TransitionUpdate, TypeInv, RequestsOK, Labels
    <3>2. Goto(r, "readback", ctx[r]) \/ Refused(r)
      BY <2>3 DEF TransitionUpdate
    <3>3. pc' \in [Req -> Labels] /\ ctx' \in [Req -> Ctx] /\ RequestsOK'
      BY <1>a, <3>1, <3>2, GotoType, RefusedType
    <3>4. status' \in [Depl -> Status \cup {Absent, Erased}]
      BY <2>3, <3>1 DEF TransitionUpdate, TypeInv, TypeOK
    <3> QED BY <2>3, <3>3, <3>4 DEF TransitionUpdate, TypeInv, TypeOK, docker
  <2>14. CASE TransitionReturn(r)
    <3>1. pc' \in [Req -> Labels] /\ ctx' \in [Req -> Ctx] /\ RequestsOK'
      BY <2>14, RefusedType, DispatchedType DEF TransitionReturn
    <3> QED BY <2>14, <3>1 DEF TransitionReturn, TypeInv, TypeOK, rows, docker
  <2>4. CASE ScheduleFails(r)
    <3>1. pc' \in [Req -> Labels] /\ ctx' \in [Req -> Ctx] /\ RequestsOK'
      BY <2>4, CallTransitionType DEF ScheduleFails, Callers, Status
    <3> QED BY <2>4, <3>1 DEF ScheduleFails, TypeInv, TypeOK, rows, docker
  <2>5. CASE ScheduleDeployment(r)
    BY <2>5, SchedulePortType DEF ScheduleDeployment
  <2>6. CASE AssignNode(r)
    <3>1. pc' \in [Req -> Labels] /\ ctx' \in [Req -> Ctx] /\ RequestsOK'
      BY <2>6, CallTransitionType DEF AssignNode, Callers, Status
    <3>2. /\ node_id' \in [Depl -> Node \cup {NoNode}]
          /\ proxy_port' \in [Depl -> Port \cup {0}]
      BY <2>6, <1>a DEF AssignNode, TypeInv, TypeOK, Ctx
    <3> QED BY <2>6, <3>1, <3>2 DEF AssignNode, TypeInv, TypeOK, docker
  <2>7. CASE StartDeployment(r)
    <3>1. pc' \in [Req -> Labels] /\ ctx' \in [Req -> Ctx] /\ RequestsOK'
      BY <2>7, CallTransitionType DEF StartDeployment, Callers, Status
    <3>2. DockerOK'
      BY <2>7, <1>a, StartContainersType DEF StartDeployment, Ctx
    <3> QED BY <2>7, <3>1, <3>2 DEF StartDeployment, TypeInv, TypeOK, DockerOK, rows
  <2>8. CASE StartDeploymentFails(r)
    <3>1. pc' \in [Req -> Labels] /\ ctx' \in [Req -> Ctx] /\ RequestsOK'
      BY <2>8, CallTransitionType DEF StartDeploymentFails, Callers, Status
    <3>2. DockerOK'
      BY <2>8, <1>a, StartContainersFailsType, DockerUnchanged
         DEF StartDeploymentFails, Ctx
    <3> QED BY <2>8, <3>1, <3>2
            DEF StartDeploymentFails, TypeInv, TypeOK, DockerOK, rows
  <2>9. CASE StopDeployment(r)
    <3>1. pc' \in [Req -> Labels] /\ ctx' \in [Req -> Ctx] /\ RequestsOK'
      BY <2>9, CallTransitionType DEF StopDeployment, Callers, Status
    <3>2. DockerOK'
      BY <2>9, <1>a, StopContainersType, DockerUnchanged DEF StopDeployment, Ctx
    <3> QED BY <2>9, <3>1, <3>2 DEF StopDeployment, TypeInv, TypeOK, DockerOK, rows
  <2>10. CASE DeleteDeployment(r)
    <3>1. pc' \in [Req -> Labels] /\ ctx' \in [Req -> Ctx] /\ RequestsOK'
      BY <2>10, CallTransitionType DEF DeleteDeployment, Callers, Status
    <3>2. DockerOK'
      BY <2>10, <1>a, RemoveContainersType, DockerUnchanged DEF DeleteDeployment, Ctx
    <3> QED BY <2>10, <3>1, <3>2
            DEF DeleteDeployment, TypeInv, TypeOK, DockerOK, rows
  <2>11. CASE RecordEvent(r)
    <3>1. pc' \in [Req -> Labels] /\ ctx' \in [Req -> Ctx] /\ RequestsOK'
      BY <2>11, DoneType DEF RecordEvent
    <3>2. lastEvent' \in [Depl -> Events]
      BY <2>11 DEF RecordEvent, EventOf, Events, TypeInv, TypeOK
    <3> QED BY <2>11, <3>1, <3>2 DEF RecordEvent, TypeInv, TypeOK, rows, docker
  <2>12. CASE VerifyDelete(r)
    <3>1. pc[r] # "idle" /\ "erase" \in Labels
      BY <2>12 DEF VerifyDelete, Labels
    <3>2. pc' \in [Req -> Labels] /\ ctx' \in [Req -> Ctx] /\ RequestsOK'
      BY <2>12, <1>a, <3>1, GotoType, ReturnType DEF VerifyDelete
    <3> QED BY <2>12, <3>2 DEF VerifyDelete, TypeInv, TypeOK, rows, docker
  <2>13. CASE EraseRow(r)
    <3>1. pc' \in [Req -> Labels] /\ ctx' \in [Req -> Ctx] /\ RequestsOK'
      BY <2>13, ReturnType DEF EraseRow
    <3>2. status' \in [Depl -> Status \cup {Absent, Erased}]
      BY <2>13 DEF EraseRow, TypeInv, TypeOK
    <3> QED BY <2>13, <3>1, <3>2 DEF EraseRow, TypeInv, TypeOK, docker
  <2> QED BY <1>2, <2>1, <2>2, <2>3, <2>4, <2>5, <2>6, <2>7, <2>8, <2>9,
             <2>10, <2>11, <2>12, <2>13, <2>14 DEF Continue
<1>3. ASSUME NEW r \in Req, Disconnect(r) PROVE TypeInv'
  BY <1>3, ReturnType DEF Disconnect, TypeInv, TypeOK, rows, docker
<1>4. ASSUME NEW d \in Depl, Patch(d) PROVE TypeInv'
  <2>1. \A n : {d} \X Disturbs(d, n) \subseteq Depl \X {"cleared", "moved"}
    BY DEF Disturbs
  <2>2. renoded' \subseteq Depl \X {"cleared", "moved"}
    BY <1>4, <2>1 DEF Patch, TypeInv, TypeOK
  <2> QED BY <1>4, <2>2 DEF Patch, TypeInv, TypeOK, RequestsOK, docker
<1>5. CASE Crash
  <2>1. Blank \in Ctx /\ "idle" \in Labels
    BY DEF Blank, Ctx, Ops, Callers, Labels
  <2> QED BY <1>5, <2>1 DEF Crash, TypeInv, TypeOK, RequestsOK, rows, docker
<1>6. CASE UNCHANGED vars
  BY <1>6 DEF vars, TypeInv, TypeOK, RequestsOK
<1>7. ASSUME NEW r \in Req, StoreFails(r) PROVE TypeInv'
  BY <1>7, StoreFailsType
<1> QED BY <1>1, <1>2, <1>3, <1>4, <1>5, <1>6, <1>7 DEF Next

\* Every reachable state is of the type the module declares.
THEOREM TypeCorrect == Spec => []TypeOK
<1>1. TypeInv => TypeOK
  BY DEF TypeInv
<1> QED BY <1>1, InitTypeInv, NextTypeInv, PTL DEF Spec

-----------------------------------------------------------------------------
(***************************************************************************)
(* The safety invariants of DeploymentLifecycle that hold however requests *)
(* overlap, crash or are cut off, for every value of the constants but     *)
(* the columns that clients PATCH, which each theorem restricts to what it *)
(* needs.                                                                  *)
(***************************************************************************)

(***************************************************************************)
(* Shape of a step: who may change what.                                   *)
(***************************************************************************)

\* Nothing of request r changes.
SameRequest(r) == pc'[r] = pc[r] /\ ctx'[r] = ctx[r]

\* Nothing of deployment d changes, in the table or on the nodes.
SameDeployment(d) ==
    /\ status'[d] = status[d]
    /\ node_id'[d] = node_id[d]
    /\ proxy_port'[d] = proxy_port[d]
    /\ container'[d] = container[d]

\* Goto moves one request and no other.
LEMMA GotoShape ==
    ASSUME TypeInv, NEW r \in Req, NEW label, NEW c, Goto(r, label, c)
    PROVE  /\ pc'[r] = label /\ ctx'[r] = c
           /\ \A q \in Req \ {r} : SameRequest(q)
BY DEF Goto, TypeInv, TypeOK, SameRequest

\* What follows a command handler keeps to the deployment of the request.
After(r) ==
    /\ pc'[r] \in Labels \ {"insert"}
    /\ ctx'[r].d \in {ctx[r].d, NoDepl}
    /\ \A q \in Req \ {r} : SameRequest(q)

\* Goto decides where a request is and what it holds.
LEMMA GotoAfter ==
    ASSUME TypeInv, NEW r \in Req, NEW label \in Labels \ {"insert"}, NEW c,
           c.d = ctx[r].d, Goto(r, label, c)
    PROVE  After(r)
BY GotoShape DEF After

\* A request that returns is idle.
LEMMA ReturnAfter ==
    ASSUME TypeInv, NEW r \in Req, Return(r)
    PROVE  After(r) /\ pc'[r] = "idle" /\ ctx'[r] = Blank
BY GotoShape DEF After, Return, Blank, Labels

\* A command handler that ends returns or goes on to the check of a delete.
LEMMA DoneAfter ==
    ASSUME TypeInv, NEW r \in Req, Done(r)
    PROVE  After(r) /\ pc'[r] \in {"idle", "verify"}
<1>1. CASE ctx[r].op = "delete"
  BY <1>1, GotoShape DEF After, Done, Labels
<1>2. CASE ctx[r].op # "delete"
  BY <1>2, ReturnAfter DEF Done
<1> QED BY <1>1, <1>2

\* A call of Transition keeps everything but its caller and its target.
LEMMA CallTransitionAfter ==
    ASSUME TypeInv, NEW r \in Req, NEW by, NEW to, CallTransition(r, by, to)
    PROVE  After(r) /\ pc'[r] = "check"
<1> DEFINE c == [ctx[r] EXCEPT !.by = by, !.to = to]
<1>1. ctx[r] \in Ctx /\ "check" \in Labels
  BY DEF TypeInv, TypeOK, Labels
<1>2. c.d = ctx[r].d
  BY <1>1 DEF Ctx
<1>3. Goto(r, "check", c)
  BY DEF CallTransition
<1> HIDE DEF c
<1> QED BY <1>1, <1>2, <1>3, GotoShape, GotoAfter

\* An error of Transition leads to no statement but the delete's own.
LEMMA RefusedAfter ==
    ASSUME TypeInv, NEW r \in Req, Refused(r)
    PROVE  After(r) /\ pc'[r] \in {"idle", "verify", "erase"}
<1>1. Goto(r, "erase", ctx[r]) \/ Return(r) \/ Done(r)
  BY DEF Refused
<1>2. "erase" \in Labels
  BY DEF Labels
<1> QED BY <1>1, <1>2, GotoShape, GotoAfter, ReturnAfter, DoneAfter

\* A command handler is given the row that Transition has written.
LEMMA DispatchedAfter ==
    ASSUME TypeInv, NEW r \in Req, pc[r] = "readback", Dispatched(r)
    PROVE  /\ After(r)
           /\ \/ pc'[r] \in {"idle", "verify", "bill"}
              \/ /\ pc'[r] \in {"schedule", "start", "stop", "remove"}
                 /\ ctx'[r].d = ctx[r].d
                 /\ ctx'[r].node = node_id[ctx[r].d]
<1> DEFINE row == [ctx[r] EXCEPT !.node = node_id[ctx[r].d],
                                 !.port = proxy_port[ctx[r].d]]
           command == OnEnter[ctx[r].to]
<1>1. ctx[r] \in Ctx /\ ctx[r].to \in Status
  BY DEF TypeInv, TypeOK, RequestsOK
<1>2. row.d = ctx[r].d /\ row.node = node_id[ctx[r].d]
  BY <1>1 DEF Ctx
<1>3. command \in {"schedule", "start", "stop", "remove", "idle"}
  BY <1>1 DEF OnEnter, Status
<1>4. \/ Done(r)
      \/ command # "idle" /\ Goto(r, command, row)
      \/ Goto(r, "start", row)
      \/ Goto(r, "bill", ctx[r])
  BY DEF Dispatched
<1>5. {"schedule", "start", "stop", "remove", "bill"} \subseteq Labels \ {"insert"}
  BY DEF Labels
<1> HIDE DEF row, command
<1>6. CASE Done(r)
  BY <1>6, DoneAfter
<1>7. CASE command # "idle" /\ Goto(r, command, row)
  <2>1. command \in Labels \ {"insert"}
    BY <1>3, <1>5, <1>7
  <2>2. After(r)
    BY <2>1, <1>2, <1>7, GotoAfter
  <2> QED BY <2>2, <1>2, <1>3, <1>7, GotoShape
<1>8. CASE Goto(r, "start", row)
  BY <1>8, <1>2, <1>5, GotoShape, GotoAfter
<1>9. CASE Goto(r, "bill", ctx[r])
  BY <1>9, <1>5, GotoShape, GotoAfter
<1> QED BY <1>4, <1>6, <1>7, <1>8, <1>9

\* The orchestrator touches the containers of its deployment on its node.
OnlyOn(d, n) ==
    /\ \A e \in Depl \ {d} : container'[e] = container[e]
    /\ \A m \in Node \ {n} : container'[d][m] = container[d][m]

\* One container of one deployment on one node changes.
LEMMA SetContainerOnlyOn ==
    ASSUME TypeInv, NEW d \in Depl, NEW n \in Node, NEW st, NEW p,
           SetContainer(d, n, st, p)
    PROVE  OnlyOn(d, n)
BY DEF TypeInv, TypeOK, SetContainer, OnlyOn

\* The orchestrator touches no other deployment and no other node.
LEMMA OrchestratorOnlyOn ==
    ASSUME TypeInv, NEW d \in Depl, NEW n \in Node, NEW p,
           \/ StartContainers(d, n, p)
           \/ StartContainersFails(d, n, p)
           \/ StopContainers(d, n)
           \/ RemoveContainers(d, n)
           \/ UNCHANGED docker
    PROVE  OnlyOn(d, n)
<1>1. UNCHANGED docker => OnlyOn(d, n)
  BY DEF docker, OnlyOn
<1> QED BY <1>1, SetContainerOnlyOn
        DEF StartContainers, StartContainersFails, StopContainers, RemoveContainers
\* Scheduling ends in the assignment of the selected node, or in an error.
LEMMA SchedulePortAfter ==
    ASSUME TypeInv, NEW r \in Req, NEW used, SchedulePort(r, used)
    PROVE  /\ After(r) /\ pc[r] = "schedule" /\ UNCHANGED <<rows, docker>>
           /\ \/ pc'[r] \in {"idle", "verify"}
              \/ /\ pc'[r] = "assign" /\ ctx[r].node # NoNode
                 /\ ctx'[r].d = ctx[r].d /\ ctx'[r].node = ctx[r].node
<1> DEFINE c == [ctx[r] EXCEPT !.port = AllocatePort(used)]
<1>1. c.d = ctx[r].d /\ c.node = ctx[r].node
  BY DEF Ctx, TypeInv, TypeOK
<1>2. Done(r) \/ Goto(r, "assign", ctx[r]) \/ Goto(r, "assign", c)
  BY DEF SchedulePort
<1>3. "assign" \in Labels \ {"insert"}
  BY DEF Labels
<1> HIDE DEF c
<1>4. CASE Done(r)
  BY <1>4, DoneAfter DEF SchedulePort
<1>5. CASE Goto(r, "assign", ctx[r])
  BY <1>3, <1>5, GotoShape, GotoAfter DEF SchedulePort
<1>6. CASE Goto(r, "assign", c)
  BY <1>1, <1>3, <1>6, GotoShape, GotoAfter DEF SchedulePort
<1> QED BY <1>2, <1>4, <1>5, <1>6

\* A failing store call leads on to fewer statements and writes nothing.
LEMMA StoreFailsAfter ==
    ASSUME TypeInv, NEW r \in Req, StoreFails(r)
    PROVE  /\ After(r) /\ pc[r] # "idle" /\ UNCHANGED <<rows, docker>>
           /\ \/ pc'[r] = "idle"
              \/ pc[r] # "insert" /\ pc'[r] \in {"check", "verify", "erase"}
              \/ /\ pc[r] = "schedule"
                 /\ pc'[r] = "assign" /\ ctx[r].node # NoNode
                 /\ ctx'[r].d = ctx[r].d /\ ctx'[r].node = ctx[r].node
<1>1. UNCHANGED <<rows, docker>>
  BY DEF StoreFails
<1>2. CASE pc[r] \in {"check", "update", "readback"} /\ Refused(r)
  BY <1>1, <1>2, RefusedAfter
<1>3. CASE pc[r] = "assign" /\ CallTransition(r, "schedule", "starting")
  BY <1>1, <1>3, CallTransitionAfter
<1>4. CASE pc[r] = "bill" /\ Done(r)
  BY <1>1, <1>4, DoneAfter
<1>5. CASE pc[r] = "verify" /\ Goto(r, "erase", ctx[r])
  BY <1>1, <1>5, GotoShape, GotoAfter DEF Labels
<1>6. CASE pc[r] \in {"insert", "erase"} /\ Return(r)
  BY <1>1, <1>6, ReturnAfter
<1>7. CASE SchedulePort(r, {})
  BY <1>1, <1>7, SchedulePortAfter
<1> QED BY <1>2, <1>3, <1>4, <1>5, <1>6, <1>7 DEF StoreFails

\* What a request that is under way does next.
Step(r) == Continue(r) \/ StoreFails(r)

\* Only a PATCH is recorded in renoded.
LEMMA MarksKept ==
    ASSUME NEW r \in Req, Client(r) \/ Step(r) \/ Disconnect(r) \/ Crash
    PROVE  renoded' = renoded
BY DEF Client, CreateRequest, StartRequest, StopRequest, TransitionRequest,
       DeleteRequest, Step, Continue, Insert, TransitionCheck, TransitionUpdate,
       TransitionReturn, ScheduleFails, ScheduleDeployment, SchedulePort,
       AssignNode, StartDeployment, StartDeploymentFails, StopDeployment,
       DeleteDeployment, RecordEvent, VerifyDelete, EraseRow, StoreFails,
       Disconnect, Crash

-----------------------------------------------------------------------------
\* A request that is under way changes no other request, no deployment but its
\* own, and never goes back to the insertion of a row.
LEMMA ContinueShape ==
    ASSUME TypeInv, NEW r \in Req, Step(r)
    PROVE  /\ pc[r] # "idle" /\ ctx[r].d \in Depl
           /\ After(r)
           /\ \A d \in Depl \ {ctx[r].d} : SameDeployment(d)
<1>1. pc[r] # "idle" /\ ctx[r].d \in Depl /\ ctx[r] \in Ctx
  <2>1. pc[r] # "idle"
    BY StoreFailsAfter
       DEF Step, Continue, Insert, TransitionCheck, TransitionUpdate,
           TransitionReturn, ScheduleFails, ScheduleDeployment, SchedulePort,
           AssignNode, StartDeployment, StartDeploymentFails, StopDeployment,
           DeleteDeployment, RecordEvent, VerifyDelete, EraseRow
  <2> QED BY <2>1 DEF TypeInv, TypeOK, RequestsOK
<1>2. CASE Insert(r)
  <2>1. After(r)
    BY <1>2, GotoAfter DEF Insert, Labels
  <2> QED BY <1>1, <1>2, <2>1 DEF Insert, SameDeployment, docker, TypeInv, TypeOK
<1>3. CASE TransitionCheck(r)
  <2>1. After(r)
    BY <1>3, GotoAfter, RefusedAfter DEF TransitionCheck, Labels
  <2> QED BY <1>1, <1>3, <2>1 DEF TransitionCheck, SameDeployment, docker, rows
<1>4. CASE TransitionUpdate(r)
  <2>1. After(r)
    BY <1>4, GotoAfter, RefusedAfter DEF TransitionUpdate, Labels
  <2> QED BY <1>1, <1>4, <2>1
          DEF TransitionUpdate, SameDeployment, docker, TypeInv, TypeOK
<1>12. CASE TransitionReturn(r)
  <2>1. After(r)
    BY <1>12, DispatchedAfter, RefusedAfter DEF TransitionReturn
  <2> QED BY <1>1, <1>12, <2>1 DEF TransitionReturn, SameDeployment, docker, rows
<1>5. CASE ScheduleFails(r)
  BY <1>1, <1>5, CallTransitionAfter DEF ScheduleFails, SameDeployment, docker, rows
<1>6. CASE ScheduleDeployment(r)
  BY <1>1, <1>6, SchedulePortAfter DEF ScheduleDeployment, SameDeployment, docker, rows
<1>7. CASE AssignNode(r)
  <2>1. After(r)
    BY <1>7, CallTransitionAfter DEF AssignNode
  <2> QED BY <1>1, <1>7, <2>1 DEF AssignNode, SameDeployment, docker, TypeInv, TypeOK
<1>8. CASE StartDeployment(r) \/ StartDeploymentFails(r)
           \/ StopDeployment(r) \/ DeleteDeployment(r)
  <2>1. After(r)
    BY <1>8, CallTransitionAfter
       DEF StartDeployment, StartDeploymentFails, StopDeployment, DeleteDeployment
  <2>2. UNCHANGED rows
    BY <1>8 DEF StartDeployment, StartDeploymentFails, StopDeployment, DeleteDeployment
  <2>3. UNCHANGED docker \/ OnlyOn(ctx[r].d, ctx[r].node)
    <3>1. ctx[r].node = NoNode \/ ctx[r].node \in Node
      BY <1>1 DEF Ctx
    <3> QED BY <1>1, <1>8, <3>1, OrchestratorOnlyOn
            DEF StartDeployment, StartDeploymentFails, StopDeployment, DeleteDeployment
  <2> QED BY <1>1, <2>1, <2>2, <2>3 DEF SameDeployment, OnlyOn, docker, rows
<1>9. CASE RecordEvent(r)
  BY <1>1, <1>9, DoneAfter DEF RecordEvent, SameDeployment, docker, rows
<1>10. CASE VerifyDelete(r)
  <2>1. After(r)
    BY <1>10, GotoAfter, ReturnAfter DEF VerifyDelete, Labels
  <2> QED BY <1>1, <1>10, <2>1 DEF VerifyDelete, SameDeployment, docker, rows
<1>11. CASE EraseRow(r)
  BY <1>1, <1>11, ReturnAfter DEF EraseRow, SameDeployment, docker, TypeInv, TypeOK
<1>13. CASE StoreFails(r)
  BY <1>1, <1>13, StoreFailsAfter DEF SameDeployment, docker, rows
<1> QED BY <1>2, <1>3, <1>4, <1>5, <1>6, <1>7, <1>8, <1>9, <1>10, <1>11, <1>12, <1>13
        DEF Step, Continue

\* A client's request changes nothing yet: it takes a slot, and either chooses
\* an id nobody has, or names a row it has read.
LEMMA ClientShape ==
    ASSUME TypeInv, NEW r \in Req, Client(r)
    PROVE  /\ UNCHANGED <<rows, docker>>
           /\ \A q \in Req \ {r} : SameRequest(q)
           /\ ctx'[r].d \in Depl
           /\ \/ /\ pc'[r] = "insert" /\ status[ctx'[r].d] = Absent
                 /\ \A q \in Req : ctx[q].d # ctx'[r].d
              \/ pc'[r] \in {"check", "erase"} /\ Exists(ctx'[r].d)
<1>1. UNCHANGED <<rows, docker>>
  BY DEF Client, CreateRequest, StartRequest, StopRequest, TransitionRequest,
         DeleteRequest
<1>2. CASE CreateRequest(r)
  <2>1. PICK d \in Depl, n \in Node \cup {NoNode} :
            /\ status[d] = Absent
            /\ \A q \in Req : ctx[q].d # d
            /\ Goto(r, "insert", [Request("create", d, "none", "none") EXCEPT !.node = n])
    BY <1>2 DEF CreateRequest
  <2>2. [Request("create", d, "none", "none") EXCEPT !.node = n].d = d
    BY DEF Request, Blank
  <2>3. \E c : c.d = d /\ Goto(r, "insert", c)
    BY <2>1, <2>2, Zenon
  <2>4. pc'[r] = "insert" /\ ctx'[r].d = d /\ \A q \in Req \ {r} : SameRequest(q)
    BY <2>3, GotoShape
  <2> QED BY <1>1, <2>1, <2>4
<1>3. ASSUME NEW d \in Depl,
             StartRequest(r, d) \/ StopRequest(r, d)
               \/ TransitionRequest(r, d) \/ DeleteRequest(r, d)
      PROVE  /\ \A q \in Req \ {r} : SameRequest(q)
             /\ pc'[r] \in {"check", "erase"} /\ ctx'[r].d = d /\ Exists(d)
  <2>1. Exists(d)
    <3>1. StartTarget(status[d]) # "none" => Exists(d)
      BY DEF StartTarget, Exists, Status
    <3> QED BY <1>3, <3>1
            DEF StartRequest, StopRequest, TransitionRequest, DeleteRequest
  <2>2. \A op, to : Request(op, d, "api", to).d = d
    BY DEF Request, Blank
  <2>3. \E op, to : \E label \in {"check", "erase"} :
            Goto(r, label, Request(op, d, "api", to))
    BY <1>3 DEF StartRequest, StopRequest, TransitionRequest, DeleteRequest
  <2> QED BY <2>1, <2>2, <2>3, GotoShape
<1> QED BY <1>1, <1>2, <1>3 DEF Client

\* A request that is cut off, and all of them in a crash, leave their slot.
LEMMA FaultShape ==
    ASSUME TypeInv, Crash \/ \E r \in Req : Disconnect(r)
    PROVE  /\ UNCHANGED <<rows, docker>>
           /\ \A q \in Req : SameRequest(q) \/ (pc'[q] = "idle" /\ ctx'[q] = Blank)
<1>1. CASE Crash
  BY <1>1 DEF Crash
<1>2. ASSUME NEW r \in Req, Disconnect(r)
      PROVE  /\ UNCHANGED <<rows, docker>>
             /\ \A q \in Req : SameRequest(q) \/ (pc'[q] = "idle" /\ ctx'[q] = Blank)
  BY <1>2, ReturnAfter DEF Disconnect, After
<1> QED BY <1>1, <1>2

-----------------------------------------------------------------------------
(***************************************************************************)
(* The id of a row that is about to be inserted is nobody else's: no other *)
(* request can read or write the row before it exists.  All invariants     *)
(* below need this of Store.Create.                                        *)
(***************************************************************************)
FreshId ==
    \A r \in Req : pc[r] = "insert" =>
        /\ status[ctx[r].d] = Absent
        /\ \A q \in Req \ {r} : ctx[q].d # ctx[r].d

BaseInv == TypeInv /\ FreshId

\* No id is in use at the start.
LEMMA InitBaseInv == Init => BaseInv
<1>1. Init => FreshId
  BY DEF Init, FreshId
<1> QED BY <1>1, InitTypeInv DEF BaseInv

\* Every step keeps ids of requests under way from being taken twice.
LEMMA NextBaseInv == BaseInv /\ [Next]_vars => BaseInv'
<1> SUFFICES ASSUME BaseInv, [Next]_vars PROVE BaseInv'
  OBVIOUS
<1> USE ConstantsAssumption
<1>1. TypeInv /\ TypeInv'
  BY NextTypeInv DEF BaseInv
<1>2. ASSUME NEW r \in Req, Client(r) PROVE FreshId'
  <2>1. \A q \in Req : pc[q] = "insert" => status[ctx[q].d] = Absent
    BY DEF BaseInv, FreshId
  <2>2. \A d : Exists(d) => status[d] # Absent
    BY DEF Exists, Status, Absent
  <2> QED BY <1>1, <1>2, <2>1, <2>2, ClientShape
          DEF BaseInv, FreshId, SameRequest, rows
<1>3. ASSUME NEW r \in Req, Step(r) PROVE FreshId'
  <2> SUFFICES ASSUME NEW q \in Req, pc'[q] = "insert"
               PROVE  /\ status'[ctx'[q].d] = Absent
                      /\ \A p \in Req \ {q} : ctx'[p].d # ctx'[q].d
    BY DEF FreshId
  <2>1. q # r /\ SameRequest(q)
    BY <1>1, <1>3, ContinueShape DEF After
  <2>2. /\ ctx[q].d \in Depl /\ status[ctx[q].d] = Absent
        /\ \A p \in Req \ {q} : ctx[p].d # ctx[q].d
    BY <2>1 DEF BaseInv, FreshId, TypeInv, RequestsOK, SameRequest
  <2>3. SameDeployment(ctx[q].d)
    BY <1>1, <1>3, <2>1, <2>2, ContinueShape
  <2>4. ASSUME NEW p \in Req \ {q} PROVE ctx'[p].d # ctx[q].d
    BY <1>1, <1>3, <2>2, ContinueShape DEF After, SameRequest
  <2> QED BY <2>1, <2>2, <2>3, <2>4 DEF SameRequest, SameDeployment
<1>4. ASSUME Crash \/ \E r \in Req : Disconnect(r) PROVE FreshId'
  <2>1. \A q \in Req : pc[q] = "insert" => ctx[q].d \in Depl
    BY DEF BaseInv, TypeInv, RequestsOK
  <2> QED BY <1>1, <1>4, <2>1, FaultShape
          DEF BaseInv, FreshId, SameRequest, rows, Blank
<1>5. ASSUME NEW d \in Depl, Patch(d) PROVE FreshId'
  <2>1. \A e \in Depl : status[e] = Absent => status'[e] = status[e]
    <3>1. status[d] # Absent
      BY <1>5 DEF Patch, Exists, Status, Absent
    <3>2. \A e \in Depl \ {d} : status'[e] = status[e]
      BY <1>1, <1>5 DEF Patch, TypeInv, TypeOK
    <3> QED BY <3>1, <3>2
  <2>2. \A q \in Req : pc[q] = "insert" => ctx[q].d \in Depl
    BY DEF BaseInv, TypeInv, RequestsOK
  <2> QED BY <1>5, <2>1, <2>2 DEF Patch, BaseInv, FreshId
<1>6. CASE UNCHANGED vars
  BY <1>1, <1>6 DEF vars, BaseInv, FreshId
<1> QED BY <1>1, <1>2, <1>3, <1>4, <1>5, <1>6 DEF Next, Step, BaseInv

-----------------------------------------------------------------------------
(***************************************************************************)
(* How a request that is under way comes to a statement, and what its      *)
(* statements write.                                                       *)
(***************************************************************************)

\* Transition writes a state only after its checks; a node is assigned only
\* when one was selected; a command runs only when Transition has written the
\* state that dispatches it, on the node of the row it has read back.
LEMMA ContinueLabels ==
    ASSUME TypeInv, NEW r \in Req, Step(r)
    PROVE  /\ pc'[r] = "update" =>
                /\ UNCHANGED <<rows, docker>> /\ ctx'[r] = ctx[r]
                /\ CanTransition(status[ctx[r].d], ctx[r].to)
                /\ Guard(ctx[r].d, ctx[r].to)
           /\ pc'[r] = "readback" =>
                /\ pc[r] = "update" /\ ctx'[r] = ctx[r]
                /\ status'[ctx[r].d] = ctx[r].to
           /\ pc'[r] = "assign" =>
                /\ UNCHANGED <<rows, docker>> /\ pc[r] = "schedule"
                /\ ctx[r].node # NoNode
                /\ ctx'[r].d = ctx[r].d /\ ctx'[r].node = ctx[r].node
           /\ pc'[r] \in {"schedule", "start", "stop", "remove"} =>
                /\ UNCHANGED <<rows, docker>> /\ pc[r] = "readback"
                /\ ctx'[r].d = ctx[r].d
                /\ ctx'[r].node = node_id[ctx[r].d]
           /\ pc[r] = "insert" /\ pc'[r] # "idle" =>
                status'[ctx[r].d] = "pending"
<1>1. ctx[r].d \in Depl
  BY ContinueShape
<1>2. CASE TransitionCheck(r)
  <2>1. CASE CanTransition(status[ctx[r].d], ctx[r].to) /\ Guard(ctx[r].d, ctx[r].to)
    BY <1>2, <2>1, GotoShape DEF TransitionCheck
  <2>2. CASE ~(CanTransition(status[ctx[r].d], ctx[r].to) /\ Guard(ctx[r].d, ctx[r].to))
    BY <1>2, <2>2, RefusedAfter DEF TransitionCheck
  <2> QED BY <2>1, <2>2
<1>3. CASE TransitionUpdate(r)
  <2>1. CASE Exists(ctx[r].d)
    <3>1. status'[ctx[r].d] = ctx[r].to
      BY <1>1, <1>3, <2>1 DEF TransitionUpdate, TypeInv, TypeOK
    <3> QED BY <1>3, <2>1, <3>1, GotoShape DEF TransitionUpdate
  <2>2. CASE ~Exists(ctx[r].d)
    BY <1>3, <2>2, RefusedAfter DEF TransitionUpdate
  <2> QED BY <2>1, <2>2
<1>4. CASE TransitionReturn(r)
  BY <1>4, DispatchedAfter, RefusedAfter DEF TransitionReturn
<1>5. CASE ScheduleDeployment(r)
  BY <1>5, SchedulePortAfter DEF ScheduleDeployment
<1>6. CASE StoreFails(r)
  BY <1>6, StoreFailsAfter
<1>7. CASE Insert(r)
  <2>1. pc'[r] = "bill" /\ status'[ctx[r].d] = "pending"
    BY <1>1, <1>7, GotoShape DEF Insert, TypeInv, TypeOK
  <2> QED BY <2>1
<1>8. CASE /\ pc[r] # "insert"
           /\ pc'[r] \in {"idle", "check", "verify", "erase"}
  BY <1>8
<1>9. CASE ScheduleFails(r) \/ AssignNode(r) \/ StartDeployment(r)
            \/ StartDeploymentFails(r) \/ StopDeployment(r) \/ DeleteDeployment(r)
  BY <1>8, <1>9, CallTransitionAfter
     DEF ScheduleFails, AssignNode, StartDeployment, StartDeploymentFails,
         StopDeployment, DeleteDeployment
<1>10. CASE RecordEvent(r)
  BY <1>8, <1>10, DoneAfter DEF RecordEvent
<1>11. CASE VerifyDelete(r)
  BY <1>8, <1>11, ReturnAfter, GotoShape DEF VerifyDelete
<1>12. CASE EraseRow(r)
  BY <1>8, <1>12, ReturnAfter DEF EraseRow
<1> QED BY <1>2, <1>3, <1>4, <1>5, <1>6, <1>7, <1>9, <1>10, <1>11, <1>12
        DEF Step, Continue

\* The statements that write a column, and what they write into it.
LEMMA ContinueWrites ==
    ASSUME TypeInv, NEW r \in Req, Step(r)
    PROVE  LET d == ctx[r].d
           IN  /\ \/ status' = status
                  \/ pc[r] = "insert" /\ status'[d] = "pending"
                  \/ pc[r] = "update" /\ Exists(d) /\ status'[d] = ctx[r].to
                  \/ pc[r] = "erase" /\ status'[d] = Erased
               /\ \/ node_id' = node_id
                  \/ pc[r] = "insert" /\ status'[d] = "pending"
                  \/ pc[r] = "assign" /\ node_id'[d] = ctx[r].node
               /\ proxy_port' = proxy_port \/ pc[r] = "assign"
               /\ \/ UNCHANGED docker
                  \/ /\ pc[r] \in {"start", "stop", "remove"}
                     /\ ctx[r].node \in Node /\ OnlyOn(d, ctx[r].node)
<1>1. ctx[r].d \in Depl /\ (ctx[r].node = NoNode \/ ctx[r].node \in Node)
  BY ContinueShape DEF TypeInv, TypeOK, Ctx
<1>2. CASE Insert(r)
  BY <1>1, <1>2 DEF Insert, TypeInv, TypeOK
<1>3. CASE TransitionUpdate(r)
  BY <1>1, <1>3 DEF TransitionUpdate, TypeInv, TypeOK
<1>4. CASE AssignNode(r)
  BY <1>1, <1>4 DEF AssignNode, TypeInv, TypeOK
<1>5. CASE EraseRow(r)
  BY <1>1, <1>5 DEF EraseRow, TypeInv, TypeOK
<1>6. CASE StartDeployment(r) \/ StartDeploymentFails(r)
            \/ StopDeployment(r) \/ DeleteDeployment(r)
  <2>1. UNCHANGED docker \/ (ctx[r].node \in Node /\ OnlyOn(ctx[r].d, ctx[r].node))
    BY <1>1, <1>6, OrchestratorOnlyOn
       DEF StartDeployment, StartDeploymentFails, StopDeployment, DeleteDeployment
  <2> QED BY <1>6, <2>1
          DEF StartDeployment, StartDeploymentFails, StopDeployment,
              DeleteDeployment, rows
<1>7. CASE TransitionCheck(r) \/ TransitionReturn(r) \/ ScheduleFails(r)
            \/ ScheduleDeployment(r) \/ RecordEvent(r) \/ VerifyDelete(r)
            \/ StoreFails(r)
  BY <1>7 DEF TransitionCheck, TransitionReturn, ScheduleFails, ScheduleDeployment,
              SchedulePort, RecordEvent, VerifyDelete, StoreFails, rows
<1> QED BY <1>2, <1>3, <1>4, <1>5, <1>6, <1>7 DEF Step, Continue

-----------------------------------------------------------------------------
(***************************************************************************)
(* NodeAssigned.  Transition checks the guard of "starting" in one         *)
(* statement and writes in another.  The strengthening says that what was  *)
(* checked stays true in between unless a client clears node_id just then, *)
(* because no statement of a request takes a node away from a row that     *)
(* others can see.                                                         *)
(***************************************************************************)
Uncleared(d) == <<d, "cleared">> \notin renoded

UpdatesKeepNode ==
    \A r \in Req :
        /\ /\ pc[r] = "update" /\ ctx[r].to \notin {"pending", "scheduled"}
           /\ Uncleared(ctx[r].d)
           => node_id[ctx[r].d] # NoNode
        /\ pc[r] = "assign" => ctx[r].node # NoNode

NodeInv == BaseInv /\ NodeAssigned /\ UpdatesKeepNode

\* Every state but the first two is entered from a state that has a node, or
\* through the guard.
LEMMA EnteredWithNode ==
    ASSUME NodeAssigned, NEW d \in Depl, NEW to,
           CanTransition(status[d], to), Guard(d, to)
    PROVE  to # "pending" /\ (to # "scheduled" /\ Uncleared(d) => node_id[d] # NoNode)
<1>1. status[d] \in Status /\ to \in Transitions[status[d]]
  BY DEF CanTransition
<1>2. to # "pending" /\ (to \in {"scheduled", "starting"}
                            \/ status[d] \notin {"pending", "scheduled"})
  BY <1>1 DEF Transitions, Status
<1> QED BY <1>1, <1>2 DEF NodeAssigned, Guard, Uncleared

\* Every step keeps the node invariant when status is not patched.
LEMMA NextNodeInv ==
    ASSUME PatchStatus = {}
    PROVE  NodeInv /\ [Next]_vars => NodeInv'
<1> SUFFICES ASSUME NodeInv, [Next]_vars PROVE NodeInv'
  OBVIOUS
<1>1. BaseInv /\ TypeInv /\ BaseInv'
  BY NextBaseInv DEF NodeInv, BaseInv
<1>2. ASSUME NEW r \in Req, Client(r) PROVE NodeInv'
  <2>3. renoded' = renoded
    BY <1>2, MarksKept
  <2>1. NodeAssigned'
    BY <1>1, <1>2, <2>3, ClientShape DEF NodeInv, NodeAssigned, rows
  <2>2. UpdatesKeepNode'
    BY <1>1, <1>2, <2>3, ClientShape
       DEF NodeInv, UpdatesKeepNode, Uncleared, SameRequest, rows
  <2> QED BY <1>1, <2>1, <2>2 DEF NodeInv
<1>3. ASSUME NEW r \in Req, Step(r) PROVE NodeInv'
  <2>4. renoded' = renoded
    BY <1>3, MarksKept
  <2>1. ASSUME NEW d \in Depl, node_id[d] # NoNode,
               pc[r] = "insert" => d # ctx[r].d
        PROVE  node_id'[d] # NoNode
    <3>1. CASE d # ctx[r].d
      BY <1>1, <1>3, <2>1, <3>1, ContinueShape DEF SameDeployment
    <3>2. CASE d = ctx[r].d
      BY <1>1, <1>3, <2>1, <3>2, ContinueWrites DEF NodeInv, UpdatesKeepNode
    <3> QED BY <3>1, <3>2
  <2>2. NodeAssigned'
    <3> SUFFICES ASSUME NEW d \in Depl,
                        status'[d] \in Status \ {"pending", "scheduled"},
                        Uncleared(d)
                 PROVE  node_id'[d] # NoNode
      BY <2>4 DEF NodeAssigned, Uncleared
    <3>1. CASE d # ctx[r].d
      BY <1>1, <1>3, <3>1, ContinueShape
         DEF NodeInv, NodeAssigned, Uncleared, SameDeployment
    <3>2. CASE d = ctx[r].d /\ status' = status
      <4>1. pc[r] # "insert"
        BY <1>1, <3>2 DEF BaseInv, FreshId, Absent, Status
      <4> QED BY <2>1, <3>2, <4>1 DEF NodeInv, NodeAssigned, Uncleared
    <3>3. CASE d = ctx[r].d /\ pc[r] = "update" /\ status'[d] = ctx[r].to
      BY <2>1, <3>3 DEF NodeInv, UpdatesKeepNode
    <3> QED BY <1>1, <1>3, <3>1, <3>2, <3>3, ContinueWrites DEF Erased, Status
  <2>3. UpdatesKeepNode'
    <3>1. ASSUME NEW q \in Req \ {r}
          PROVE  /\ /\ pc'[q] = "update" /\ ctx'[q].to \notin {"pending", "scheduled"}
                    /\ Uncleared(ctx'[q].d)
                    => node_id'[ctx'[q].d] # NoNode
                 /\ pc'[q] = "assign" => ctx'[q].node # NoNode
      <4>1. SameRequest(q)
        BY <1>1, <1>3, ContinueShape DEF After
      <4>2. pc[q] = "update" => ctx[q].d \in Depl
        BY <1>1 DEF TypeInv, RequestsOK
      <4>3. pc[r] = "insert" => ctx[q].d # ctx[r].d
        BY <1>1 DEF BaseInv, FreshId
      <4> QED BY <2>1, <4>1, <4>2, <4>3 DEF NodeInv, UpdatesKeepNode, SameRequest
    <3>2. /\ pc'[r] = "update" /\ ctx'[r].to \notin {"pending", "scheduled"}
          /\ Uncleared(ctx'[r].d)
          => node_id'[ctx'[r].d] # NoNode
      BY <1>1, <1>3, ContinueLabels, ContinueShape, EnteredWithNode DEF NodeInv, rows
    <3>3. pc'[r] = "assign" => ctx'[r].node # NoNode
      BY <1>1, <1>3, ContinueLabels
    <3> QED BY <2>4, <3>1, <3>2, <3>3 DEF UpdatesKeepNode, Uncleared
  <2> QED BY <1>1, <2>2, <2>3 DEF NodeInv
<1>4. ASSUME Crash \/ \E r \in Req : Disconnect(r) PROVE NodeInv'
  <2>3. renoded' = renoded
    BY <1>4, MarksKept DEF Crash
  <2>1. NodeAssigned'
    BY <1>1, <1>4, <2>3, FaultShape DEF NodeInv, NodeAssigned, rows
  <2>2. UpdatesKeepNode'
    BY <1>1, <1>4, <2>3, FaultShape
       DEF NodeInv, UpdatesKeepNode, Uncleared, SameRequest, rows
  <2> QED BY <1>1, <2>1, <2>2 DEF NodeInv
<1>5. ASSUME NEW d \in Depl, Patch(d) PROVE NodeInv'
  <2>1. status' = status /\ pc' = pc /\ ctx' = ctx
    BY <1>1, <1>5 DEF Patch, TypeInv, TypeOK
  <2>2. PICK n : /\ node_id' = [node_id EXCEPT ![d] = n]
                 /\ renoded' = renoded \cup ({d} \X Disturbs(d, n))
    BY <1>5 DEF Patch
  <2>3. \A r \in Req : pc[r] = "update" => ctx[r].d \in Depl
    BY <1>1 DEF TypeInv, RequestsOK
  <2>4. \A e \in Depl : <<e, "cleared">> \notin renoded' =>
            /\ Uncleared(e)
            /\ \/ node_id'[e] = node_id[e] \/ node_id'[e] # NoNode
               \/ /\ status[e] \in {"pending", "scheduled"}
                  /\ \A r \in Req : ~(pc[r] = "update" /\ ctx[r].d = e)
    <3>1. node_id \in [Depl -> Node \cup {NoNode}]
      BY <1>1 DEF TypeInv, TypeOK
    <3>2. ASSUME <<d, "cleared">> \notin renoded'
          PROVE  \/ n = node_id[d] \/ n # NoNode
                 \/ /\ status[d] \in {"pending", "scheduled"}
                    /\ \A r \in Req : ~(pc[r] = "update" /\ ctx[r].d = d)
      <4>1. "cleared" \notin Disturbs(d, n)
        BY <2>2, <3>2
      <4> QED BY <4>1 DEF Disturbs
    <3> QED BY <2>2, <3>1, <3>2 DEF Uncleared
  <2>5. NodeAssigned'
    BY <2>1, <2>4 DEF NodeInv, NodeAssigned, Uncleared
  <2>6. UpdatesKeepNode'
    BY <2>1, <2>3, <2>4 DEF NodeInv, UpdatesKeepNode, Uncleared
  <2> QED BY <1>1, <2>5, <2>6 DEF NodeInv
<1>6. CASE UNCHANGED vars
  BY <1>1, <1>6 DEF vars, NodeInv, NodeAssigned, UpdatesKeepNode, Uncleared
<1> QED BY <1>2, <1>3, <1>4, <1>5, <1>6 DEF Next, Step

\* As long as clients leave the column status to the state machine, every
\* deployment past scheduling has a node, whatever requests overlap and
\* whatever crashes, and whatever clients PATCH into node_id: only a PATCH
\* that clears it after scheduling, or between the guard and the UPDATE of a
\* Transition, leaves startDeployment with a row it was not meant for.
THEOREM NodeAlwaysAssigned ==
    ASSUME PatchStatus = {}
    PROVE  Spec => []NodeAssigned
<1>1. Init => NodeInv
  <2>1. Init => NodeAssigned /\ UpdatesKeepNode
    BY DEF Init, NodeAssigned, UpdatesKeepNode, Absent, Status
  <2> QED BY <2>1, InitBaseInv DEF NodeInv
<1>2. NodeInv => NodeAssigned
  BY DEF NodeInv
<1>3. NodeInv /\ [Next]_vars => NodeInv'
  BY NextNodeInv
<1> QED BY <1>1, <1>2, <1>3, PTL DEF Spec

-----------------------------------------------------------------------------
(***************************************************************************)
(* ContainersOnAssignedNode.  A command handler acts on the node of the    *)
(* row map it was given, which is not read again.  The strengthening says  *)
(* that only a PATCH makes this snapshot stale: node_id is written by the  *)
(* insertion, and what AssignNode writes is the value it has.              *)
(***************************************************************************)
Unmoved(d) == <<d, "moved">> \notin renoded

HomeInv ==
    /\ BaseInv
    /\ \A d \in Depl, n \in Node :
           container[d][n] # "none" /\ Unmoved(d) => node_id[d] = n
    /\ \A d \in Depl : status[d] = Absent /\ Unmoved(d) => node_id[d] = NoNode
    /\ \A r \in Req : pc[r] \in Commands /\ Unmoved(ctx[r].d) =>
           ctx[r].node = node_id[ctx[r].d]

\* Every step keeps containers at home.
LEMMA NextHomeInv == HomeInv /\ [Next]_vars => HomeInv'
<1> SUFFICES ASSUME HomeInv, [Next]_vars PROVE HomeInv'
  OBVIOUS
<1>1. BaseInv /\ TypeInv /\ BaseInv'
  BY NextBaseInv DEF HomeInv, BaseInv
<1>2. ASSUME NEW r \in Req, Client(r) PROVE HomeInv'
  <2>1. pc'[r] \notin Commands /\ UNCHANGED <<rows, docker>>
    BY <1>1, <1>2, ClientShape DEF Commands
  <2>2. \A q \in Req : pc'[q] \in Commands => SameRequest(q)
    BY <1>1, <1>2, <2>1, ClientShape
  <2>3. renoded' = renoded
    BY <1>2, MarksKept
  <2> QED BY <1>1, <2>1, <2>2, <2>3 DEF HomeInv, Unmoved, SameRequest, rows, docker
<1>3. ASSUME NEW r \in Req, Step(r) PROVE HomeInv'
  <2> DEFINE d == ctx[r].d
  <2>0. renoded' = renoded
    BY <1>3, MarksKept
  <2>1. d \in Depl /\ \A e \in Depl \ {d} : SameDeployment(e)
    BY <1>1, <1>3, ContinueShape
  <2>2. \/ node_id' = node_id
        \/ pc[r] = "insert" /\ status'[d] = "pending"
        \/ node_id'[d] = node_id[d]
        \/ ~Unmoved(d)
    BY <1>1, <1>3, ContinueWrites DEF HomeInv, Commands
  <2>3. pc[r] = "insert" => status[d] = Absent
    BY <1>1 DEF BaseInv, FreshId
  <2>4. ASSUME NEW e \in Depl, NEW n \in Node, container'[e][n] # "none", Unmoved(e)
        PROVE  node_id'[e] = n
    <3>1. CASE e # d
      BY <2>1, <2>4, <3>1 DEF HomeInv, SameDeployment
    <3>2. CASE e = d /\ container'[d][n] = container[d][n]
      <4>1. node_id[d] = n
        BY <2>4, <3>2 DEF HomeInv
      <4>2. pc[r] # "insert"
        BY <2>1, <2>3, <2>4, <3>2, <4>1, ConstantsAssumption DEF HomeInv
      <4> QED BY <2>2, <2>4, <3>2, <4>1, <4>2
    <3>3. CASE e = d /\ container'[d][n] # container[d][n]
      <4>1. /\ pc[r] \in {"start", "stop", "remove"}
            /\ ctx[r].node \in Node /\ OnlyOn(d, ctx[r].node)
        BY <1>1, <1>3, <3>3, ContinueWrites DEF docker
      <4>2. n = ctx[r].node /\ ctx[r].node = node_id[d]
        BY <2>4, <3>3, <4>1 DEF OnlyOn, HomeInv, Commands
      <4> QED BY <2>2, <2>4, <3>3, <4>1, <4>2
    <3> QED BY <3>1, <3>2, <3>3
  <2>5. ASSUME NEW e \in Depl, status'[e] = Absent, Unmoved(e)
        PROVE  node_id'[e] = NoNode
    <3>1. CASE e # d
      BY <2>1, <2>5, <3>1 DEF HomeInv, SameDeployment
    <3>2. CASE e = d
      <4>1. status'[d] # "pending"
        BY <2>5, <3>2 DEF Absent
      <4>2. status' = status
        <5>1. pc[r] = "update" => ctx[r].to \in Status
          BY <1>1 DEF TypeInv, RequestsOK
        <5> QED BY <1>1, <1>3, <2>5, <3>2, <4>1, <5>1, ContinueWrites
                DEF Absent, Erased, Status
      <4> QED BY <2>2, <2>5, <3>2, <4>1, <4>2 DEF HomeInv
    <3> QED BY <3>1, <3>2
  <2>6. ASSUME NEW q \in Req, pc'[q] \in Commands, Unmoved(ctx'[q].d)
        PROVE  ctx'[q].node = node_id'[ctx'[q].d]
    <3>1. CASE q # r
      <4>1. SameRequest(q)
        BY <1>1, <1>3, <3>1, ContinueShape DEF After
      <4>2. ctx[q].d \in Depl /\ ctx[q].node = node_id[ctx[q].d]
        BY <1>1, <2>6, <4>1
           DEF SameRequest, HomeInv, TypeInv, RequestsOK, Commands
      <4>3. pc[r] = "insert" => ctx[q].d # d
        BY <1>1, <3>1 DEF BaseInv, FreshId
      <4>4. node_id'[ctx[q].d] = node_id[ctx[q].d]
        BY <2>1, <2>2, <2>6, <4>1, <4>2, <4>3 DEF SameDeployment, SameRequest
      <4> QED BY <4>1, <4>2, <4>4 DEF SameRequest
    <3>2. CASE q = r
      <4>1. CASE pc'[r] = "assign"
        BY <1>1, <1>3, <2>6, <3>2, <4>1, ContinueLabels DEF HomeInv, Commands, rows
      <4>2. CASE pc'[r] \in {"schedule", "start", "stop", "remove"}
        BY <1>1, <1>3, <3>2, <4>2, ContinueLabels DEF rows
      <4> QED BY <2>6, <3>2, <4>1, <4>2 DEF Commands
    <3> QED BY <3>1, <3>2
  <2> QED BY <1>1, <2>0, <2>4, <2>5, <2>6 DEF HomeInv, Unmoved
<1>4. ASSUME Crash \/ \E r \in Req : Disconnect(r) PROVE HomeInv'
  <2>1. \A q \in Req : pc'[q] \in Commands => SameRequest(q)
    BY <1>1, <1>4, FaultShape DEF Commands
  <2>2. renoded' = renoded
    BY <1>4, MarksKept DEF Crash
  <2> QED BY <1>1, <1>4, <2>1, <2>2, FaultShape
          DEF HomeInv, Unmoved, SameRequest, rows, docker
<1>5. ASSUME NEW d \in Depl, Patch(d) PROVE HomeInv'
  <2>1. pc' = pc /\ ctx' = ctx /\ container' = container /\ Exists(d)
    BY <1>5 DEF Patch, docker
  <2>2. PICK n : /\ node_id' = [node_id EXCEPT ![d] = n]
                 /\ renoded' = renoded \cup ({d} \X Disturbs(d, n))
    BY <1>5 DEF Patch
  <2>3. \A e \in Depl : status'[e] = Absent => status[e] = Absent /\ e # d
    <3>1. \A e \in Depl \ {d} : status'[e] = status[e]
      BY <1>1, <1>5 DEF Patch, TypeInv, TypeOK
    <3>2. status'[d] # Absent
      BY <1>1, <1>5, ConstantsAssumption
         DEF Patch, TypeInv, TypeOK, Exists, Status, Absent
    <3> QED BY <3>1, <3>2
  <2>4. \A e \in Depl : <<e, "moved">> \notin renoded' =>
            /\ Unmoved(e)
            /\ \/ node_id'[e] = node_id[e]
               \/ /\ e = d /\ \A m \in Node : container[e][m] = "none"
                  /\ \A r \in Req : ~(pc[r] \in Commands /\ ctx[r].d = e)
    <3>1. node_id \in [Depl -> Node \cup {NoNode}]
      BY <1>1 DEF TypeInv, TypeOK
    <3>2. ASSUME <<d, "moved">> \notin renoded'
          PROVE  \/ n = node_id[d]
                 \/ /\ \A m \in Node : container[d][m] = "none"
                    /\ \A r \in Req : ~(pc[r] \in Commands /\ ctx[r].d = d)
      <4>1. "moved" \notin Disturbs(d, n)
        BY <2>2, <3>2
      <4> QED BY <4>1 DEF Disturbs
    <3> QED BY <2>2, <3>1, <3>2 DEF Unmoved
  <2>5. \A r \in Req : pc[r] \in Commands => ctx[r].d \in Depl
    BY <1>1 DEF TypeInv, RequestsOK, Commands
  <2>6. ASSUME NEW e \in Depl, NEW m \in Node, container'[e][m] # "none",
               <<e, "moved">> \notin renoded'
        PROVE  node_id'[e] = m
    BY <2>1, <2>4, <2>6 DEF HomeInv
  <2>7. ASSUME NEW e \in Depl, status'[e] = Absent, <<e, "moved">> \notin renoded'
        PROVE  node_id'[e] = NoNode
    BY <2>3, <2>4, <2>7 DEF HomeInv
  <2>8. ASSUME NEW r \in Req, pc'[r] \in Commands, <<ctx'[r].d, "moved">> \notin renoded'
        PROVE  ctx'[r].node = node_id'[ctx'[r].d]
    BY <2>1, <2>4, <2>5, <2>8 DEF HomeInv
  <2> QED BY <1>1, <2>6, <2>7, <2>8 DEF HomeInv, Unmoved
<1>6. CASE UNCHANGED vars
  BY <1>1, <1>6 DEF vars, HomeInv, Unmoved
<1> QED BY <1>2, <1>3, <1>4, <1>5, <1>6 DEF Next, Step

\* Whatever clients PATCH, all containers of a deployment are on the node its
\* row names, unless they changed node_id while it had containers or while a
\* command was at work: stop and delete look for them in the right place.
THEOREM ContainersAlwaysOnAssignedNode == Spec => []ContainersOnAssignedNode
<1>1. Init => HomeInv
  BY InitBaseInv DEF HomeInv, Init, Commands
<1>2. HomeInv => ContainersOnAssignedNode
  BY DEF HomeInv, ContainersOnAssignedNode, Unmoved
<1>3. HomeInv /\ [Next]_vars => HomeInv'
  BY NextHomeInv
<1> QED BY <1>1, <1>2, <1>3, PTL DEF Spec

\* Where clients leave node_id alone, no deployment is ever moved.
StayInv == HomeInv /\ renoded = {}

\* Every step keeps all deployments where they are when node_id is not patched.
LEMMA NextStayInv ==
    ASSUME PatchNode = {}
    PROVE  StayInv /\ [Next]_vars => StayInv'
<1> SUFFICES ASSUME StayInv, [Next]_vars PROVE renoded' = {}
  BY NextHomeInv DEF StayInv
<1>1. ASSUME NEW d \in Depl, Patch(d) PROVE renoded' = {}
  <2>1. node_id \in [Depl -> Node \cup {NoNode}]
    BY DEF StayInv, HomeInv, BaseInv, TypeInv, TypeOK
  <2>2. renoded' = renoded \cup ({d} \X Disturbs(d, node_id[d]))
    BY <1>1 DEF Patch
  <2>3. Disturbs(d, node_id[d]) = {}
    BY DEF Disturbs
  <2> QED BY <2>2, <2>3 DEF StayInv
<1>2. CASE UNCHANGED vars
  BY <1>2 DEF vars, StayInv
<1> QED BY <1>1, <1>2, MarksKept DEF Next, Step, StayInv, Crash

-----------------------------------------------------------------------------
(***************************************************************************)
(* PendingIsFresh.  A command that is under way must not find its          *)
(* deployment back in "pending": the strengthening says that no statement  *)
(* but the insertion writes that state, and that commands only run on rows *)
(* that have left it.                                                      *)
(***************************************************************************)
New == {"pending", Absent}

FreshInv ==
    /\ BaseInv
    /\ \A d \in Depl : status[d] \in New =>
           proxy_port[d] = 0 /\ \A n \in Node : container[d][n] = "none"
    /\ \A r \in Req : pc[r] \in Commands \cup {"readback"} =>
           status[ctx[r].d] \notin New
    /\ \A r \in Req : pc[r] = "update" => ctx[r].to # "pending"

\* Every step keeps pending deployments fresh when nothing is patched.
LEMMA NextFreshInv ==
    ASSUME PatchStatus = {}, PatchPort = {}
    PROVE  FreshInv /\ [Next]_vars => FreshInv'
<1> SUFFICES ASSUME FreshInv, [Next]_vars PROVE FreshInv'
  OBVIOUS
<1>1. BaseInv /\ TypeInv /\ BaseInv'
  BY NextBaseInv DEF FreshInv, BaseInv
<1>2. ASSUME NEW r \in Req, Client(r) PROVE FreshInv'
  <2>1. pc'[r] \notin Commands \cup {"update", "readback"} /\ UNCHANGED <<rows, docker>>
    BY <1>1, <1>2, ClientShape DEF Commands
  <2>2. \A q \in Req : pc'[q] \in Commands \cup {"update", "readback"} => SameRequest(q)
    BY <1>1, <1>2, <2>1, ClientShape
  <2> QED BY <1>1, <2>1, <2>2 DEF FreshInv, SameRequest, rows, docker
<1>3. ASSUME NEW r \in Req, Step(r) PROVE FreshInv'
  <2> DEFINE d == ctx[r].d
  <2>1. d \in Depl /\ \A e \in Depl \ {d} : SameDeployment(e)
    BY <1>1, <1>3, ContinueShape
  <2>2. \/ status' = status
        \/ pc[r] = "insert" /\ status[d] = Absent
        \/ status'[d] \notin New
    <3>1. pc[r] = "update" => ctx[r].to \in Status \ {"pending"}
      BY <1>1 DEF TypeInv, RequestsOK, FreshInv
    <3>2. pc[r] = "insert" => status[d] = Absent
      BY <1>1 DEF BaseInv, FreshId
    <3> QED BY <1>1, <1>3, <3>1, <3>2, ContinueWrites DEF New, Absent, Erased, Status
  <2>3. pc[r] \in Commands \cup {"readback"} => status[d] \notin New
    BY DEF FreshInv
  <2>4. ASSUME NEW e \in Depl, status'[e] \in New
        PROVE  proxy_port'[e] = 0 /\ \A n \in Node : container'[e][n] = "none"
    <3>1. CASE e # d
      BY <2>1, <2>4, <3>1 DEF FreshInv, SameDeployment
    <3>2. CASE e = d
      <4>1. status[d] \in New
        BY <2>2, <2>4, <3>2 DEF New
      <4>2. pc[r] \notin Commands
        BY <2>3, <4>1
      <4>3. proxy_port' = proxy_port /\ container' = container
        BY <1>1, <1>3, <4>2, ContinueWrites DEF Commands, docker
      <4> QED BY <2>1, <3>2, <4>1, <4>3 DEF FreshInv
    <3> QED BY <3>1, <3>2
  <2>5. ASSUME NEW q \in Req, pc'[q] \in Commands \cup {"readback"}
        PROVE  status'[ctx'[q].d] \notin New
    <3>1. CASE q # r
      <4>1. SameRequest(q)
        BY <1>1, <1>3, <3>1, ContinueShape DEF After
      <4>2. ctx[q].d \in Depl /\ status[ctx[q].d] \notin New
        BY <1>1, <2>5, <4>1
           DEF SameRequest, FreshInv, TypeInv, RequestsOK, Commands
      <4>3. CASE ctx[q].d # d
        BY <2>1, <4>1, <4>2, <4>3 DEF SameDeployment, SameRequest
      <4>4. CASE ctx[q].d = d
        BY <2>2, <4>1, <4>2, <4>4 DEF SameRequest, New
      <4> QED BY <4>3, <4>4
    <3>2. CASE q = r
      <4>1. CASE pc'[r] = "assign"
        BY <1>1, <1>3, <2>3, <3>2, <4>1, ContinueLabels DEF Commands, rows
      <4>2. CASE pc'[r] \in {"schedule", "start", "stop", "remove"}
        BY <1>1, <1>3, <2>3, <3>2, <4>2, ContinueLabels DEF rows
      <4>3. CASE pc'[r] = "readback"
        <5>1. pc[r] = "update" /\ ctx'[r].d = d /\ status'[d] = ctx[r].to
          BY <1>1, <1>3, <4>3, ContinueLabels
        <5>2. ctx[r].to \in Status /\ ctx[r].to # "pending"
          BY <1>1, <5>1 DEF TypeInv, RequestsOK, FreshInv
        <5> QED BY <3>2, <5>1, <5>2 DEF New, Absent, Status
      <4> QED BY <2>5, <3>2, <4>1, <4>2, <4>3 DEF Commands
    <3> QED BY <3>1, <3>2
  <2>6. ASSUME NEW q \in Req, pc'[q] = "update" PROVE ctx'[q].to # "pending"
    <3>1. CASE q # r
      BY <1>1, <1>3, <2>6, <3>1, ContinueShape DEF After, SameRequest, FreshInv
    <3>2. CASE q = r
      <4>1. CanTransition(status[d], ctx[r].to) /\ ctx'[r] = ctx[r]
        BY <1>1, <1>3, <2>6, <3>2, ContinueLabels
      <4>2. ctx[r].to # "pending"
        BY <4>1 DEF CanTransition, Transitions, Status
      <4> QED BY <3>2, <4>1, <4>2
    <3> QED BY <3>1, <3>2
  <2> QED BY <1>1, <2>4, <2>5, <2>6 DEF FreshInv
<1>4. ASSUME Crash \/ \E r \in Req : Disconnect(r) PROVE FreshInv'
  <2>1. \A q \in Req : pc'[q] \in Commands \cup {"update", "readback"} => SameRequest(q)
    BY <1>1, <1>4, FaultShape DEF Commands
  <2> QED BY <1>1, <1>4, <2>1, FaultShape DEF FreshInv, SameRequest, rows, docker
<1>5. ASSUME NEW d \in Depl, Patch(d) PROVE FreshInv'
  <2>1. /\ status' = status /\ proxy_port' = proxy_port /\ container' = container
        /\ pc' = pc /\ ctx' = ctx
    BY <1>1, <1>5 DEF Patch, TypeInv, TypeOK, docker
  <2> QED BY <1>1, <2>1 DEF FreshInv
<1>6. CASE UNCHANGED vars
  BY <1>1, <1>6 DEF vars, FreshInv
<1> QED BY <1>2, <1>3, <1>4, <1>5, <1>6 DEF Next, Step

\* As long as clients do not PATCH status or proxy_port, a "pending" deployment
\* is one that was never started, whatever overlaps: no late write of a
\* command brings back a deployment that has containers or a port.
THEOREM PendingAlwaysFresh ==
    ASSUME PatchStatus = {}, PatchPort = {}
    PROVE  Spec => []PendingIsFresh
<1>1. Init => FreshInv
  BY InitBaseInv DEF FreshInv, Init, Commands
<1>2. FreshInv => PendingIsFresh
  BY DEF FreshInv, PendingIsFresh, New
<1>3. FreshInv /\ [Next]_vars => FreshInv'
  BY NextFreshInv
<1> QED BY <1>1, <1>2, <1>3, PTL DEF Spec

-----------------------------------------------------------------------------
(***************************************************************************)
(* What holds when no two requests about the same deployment overlap,      *)
(* through crashes and cancelled requests, and however requests about      *)
(* different deployments interleave.                                       *)
(*                                                                         *)
(* Store.Transition reads, decides and writes in separate statements, and  *)
(* the comment on it says that it is atomic.  Without overlap it is, as    *)
(* far as the column status can tell: the table deployments implements     *)
(* StateMachine.                                                           *)
(***************************************************************************)

(***************************************************************************)
(* What Transition has checked still holds when it writes, and a request   *)
(* under way is about a row that was created.                              *)
(***************************************************************************)
SerialInv ==
    /\ BaseInv
    /\ OneAtATime
    /\ \A r \in Req : pc[r] = "update" => CanTransition(status[ctx[r].d], ctx[r].to)
    /\ \A r \in Req : pc[r] \notin {"idle", "insert"} => status[ctx[r].d] # Absent

\* No request is under way at the start.
LEMMA InitSerialInv == Init => SerialInv
<1>1. Init => OneAtATime
  BY DEF Init, OneAtATime, Blank
<1> QED BY <1>1, InitBaseInv DEF SerialInv, Init

\* A request under way turns no row of another request into one that was never
\* created, and none at all.
LEMMA NeverAbsentAgain ==
    ASSUME TypeInv, NEW r \in Req, Step(r), NEW d \in Depl, status[d] # Absent
    PROVE  status'[d] # Absent
<1>1. CASE d # ctx[r].d
  BY <1>1, ContinueShape DEF SameDeployment
<1>2. CASE d = ctx[r].d
  <2>1. pc[r] = "update" => ctx[r].to \in Status
    BY DEF TypeInv, RequestsOK
  <2> QED BY <1>2, <2>1, ContinueWrites DEF Absent, Erased, Status
<1> QED BY <1>1, <1>2

\* Without overlap every step keeps the invariant of the refinement.
LEMMA NextSerialInv ==
    ASSUME PatchStatus = {}
    PROVE  SerialInv /\ [Next /\ OneAtATime']_vars => SerialInv'
<1> SUFFICES ASSUME SerialInv, [Next /\ OneAtATime']_vars PROVE SerialInv'
  OBVIOUS
<1>1. BaseInv /\ TypeInv /\ BaseInv'
  <2>1. [Next]_vars
    OBVIOUS
  <2> QED BY <2>1, NextBaseInv DEF SerialInv, BaseInv
<1>2. ASSUME NEW r \in Req, Client(r), OneAtATime' PROVE SerialInv'
  <2>1. pc'[r] # "update" /\ UNCHANGED <<rows, docker>>
    BY <1>1, <1>2, ClientShape
  <2>2. pc'[r] \notin {"idle", "insert"} => status[ctx'[r].d] # Absent
    BY <1>1, <1>2, ClientShape DEF Exists, Absent, Status
  <2>3. \A q \in Req \ {r} : SameRequest(q)
    BY <1>1, <1>2, ClientShape
  <2> QED BY <1>1, <1>2, <2>1, <2>2, <2>3 DEF SerialInv, SameRequest, rows
<1>3. ASSUME NEW r \in Req, Step(r), OneAtATime' PROVE SerialInv'
  <2>1. ctx[r].d \in Depl /\ NoDepl \notin Depl
    BY <1>1, <1>3, ContinueShape, ConstantsAssumption
  <2>2. ASSUME NEW q \in Req \ {r}, pc'[q] \notin {"idle", "insert"}
        PROVE  /\ SameRequest(q) /\ ctx[q].d \in Depl
               /\ SameDeployment(ctx[q].d)
    <3>1. SameRequest(q)
      BY <1>1, <1>3, ContinueShape DEF After
    <3>2. ctx[q].d \in Depl
      BY <1>1, <2>2, <3>1 DEF TypeInv, RequestsOK, SameRequest
    <3>3. ctx[q].d # ctx[r].d
      BY <2>1, <3>2 DEF SerialInv, OneAtATime
    <3> QED BY <1>1, <1>3, <3>1, <3>2, <3>3, ContinueShape
  <2>3. ASSUME NEW q \in Req, pc'[q] = "update"
        PROVE  CanTransition(status'[ctx'[q].d], ctx'[q].to)
    <3>1. CASE q = r
      BY <1>1, <1>3, <2>3, <3>1, ContinueLabels DEF rows
    <3>2. CASE q # r
      BY <2>2, <2>3, <3>2 DEF SerialInv, SameRequest, SameDeployment
    <3> QED BY <3>1, <3>2
  <2>4. ASSUME NEW q \in Req, pc'[q] \notin {"idle", "insert"}
        PROVE  status'[ctx'[q].d] # Absent
    <3>1. CASE q = r
      <4>1. ctx'[r].d = ctx[r].d
        <5>1. ctx'[r].d \in Depl
          BY <1>1, <2>4, <3>1 DEF BaseInv, TypeInv, RequestsOK
        <5> QED BY <1>1, <1>3, <2>1, <5>1, ContinueShape DEF After
      <4>2. CASE pc[r] = "insert"
        <5>1. status'[ctx[r].d] = "pending"
          BY <1>1, <1>3, <2>4, <3>1, <4>2, ContinueLabels
        <5> QED BY <3>1, <4>1, <5>1 DEF Absent
      <4>3. CASE pc[r] # "insert"
        <5>1. pc[r] # "idle"
          BY <1>1, <1>3, ContinueShape
        <5>2. status[ctx[r].d] # Absent
          BY <4>3, <5>1 DEF SerialInv
        <5> QED BY <1>1, <1>3, <2>1, <3>1, <4>1, <5>2, NeverAbsentAgain
      <4> QED BY <4>2, <4>3
    <3>2. CASE q # r
      BY <2>2, <2>4, <3>2 DEF SerialInv, SameRequest, SameDeployment
    <3> QED BY <3>1, <3>2
  <2> QED BY <1>1, <1>3, <2>3, <2>4 DEF SerialInv
<1>4. ASSUME Crash \/ \E r \in Req : Disconnect(r), OneAtATime' PROVE SerialInv'
  <2>1. \A q \in Req : pc'[q] # "idle" => SameRequest(q)
    BY <1>1, <1>4, FaultShape
  <2> QED BY <1>1, <1>4, <2>1, FaultShape DEF SerialInv, SameRequest, rows
<1>5. ASSUME NEW d \in Depl, Patch(d), OneAtATime' PROVE SerialInv'
  <2>1. status' = status /\ pc' = pc /\ ctx' = ctx
    BY <1>1, <1>5 DEF Patch, TypeInv, TypeOK
  <2> QED BY <1>1, <1>5, <2>1 DEF SerialInv, CanTransition
<1>6. CASE UNCHANGED vars
  BY <1>1, <1>6 DEF vars, SerialInv, OneAtATime, CanTransition
<1> QED BY <1>2, <1>3, <1>4, <1>5, <1>6 DEF Next, Step

-----------------------------------------------------------------------------
\* Every step of the requests is a step of the state machine or leaves status.
LEMMA StepRefines ==
    ASSUME PatchStatus = {}
    PROVE  SerialInv /\ [Next /\ OneAtATime']_vars => [SM!Next]_status
<1> SUFFICES ASSUME SerialInv, [Next /\ OneAtATime']_vars
             PROVE  SM!Next \/ status' = status
  OBVIOUS
<1>1. TypeInv
  BY DEF SerialInv, BaseInv
<1>2. ASSUME NEW r \in Req, Step(r) PROVE SM!Next \/ status' = status
  <2> DEFINE d == ctx[r].d
  <2>1. d \in Depl /\ status \in [Depl -> Status \cup {Absent, Erased}]
    BY <1>1, <1>2, ContinueShape DEF TypeInv, TypeOK
  <2>2. CASE Insert(r)
    <3>1. SM!Create(d)
      BY <2>2 DEF Insert, SM!Create, SerialInv, BaseInv, FreshId
    <3> QED BY <2>1, <3>1 DEF SM!Next
  <2>3. CASE TransitionUpdate(r) /\ Exists(d)
    <3>1. status[d] \in Status /\ ctx[r].to \in Transitions[status[d]]
      BY <2>3 DEF TransitionUpdate, SerialInv, CanTransition
    <3>2. SM!Transition(d)
      BY <2>3, <3>1 DEF TransitionUpdate, SM!Transition
    <3> QED BY <2>1, <3>2 DEF SM!Next
  <2>4. CASE TransitionUpdate(r) /\ ~Exists(d)
    BY <2>4 DEF TransitionUpdate
  <2>5. CASE EraseRow(r)
    <3>1. CASE status[d] \in Status
      BY <2>1, <2>5, <3>1 DEF EraseRow, SM!Delete, SM!Next
    <3>2. CASE status[d] \notin Status
      <4>1. status[d] = Erased
        BY <2>1, <2>5, <3>2 DEF EraseRow, SerialInv
      <4> QED BY <2>1, <2>5, <4>1 DEF EraseRow
    <3> QED BY <3>1, <3>2
  <2>6. CASE TransitionCheck(r) \/ TransitionReturn(r) \/ StoreFails(r) \/ ScheduleFails(r) \/ ScheduleDeployment(r)
              \/ RecordEvent(r) \/ VerifyDelete(r) \/ StartDeployment(r)
              \/ StartDeploymentFails(r) \/ StopDeployment(r) \/ DeleteDeployment(r)
    BY <2>6 DEF TransitionCheck, TransitionReturn, StoreFails, ScheduleFails,
                ScheduleDeployment, SchedulePort, RecordEvent,
                VerifyDelete, StartDeployment, StartDeploymentFails,
                StopDeployment, DeleteDeployment, rows
  <2>7. CASE AssignNode(r)
    BY <2>7 DEF AssignNode
  <2> QED BY <1>2, <2>2, <2>3, <2>4, <2>5, <2>6, <2>7 DEF Step, Continue
<1>3. ASSUME NEW r \in Req, Client(r) PROVE status' = status
  BY <1>1, <1>3, ClientShape DEF rows
<1>4. ASSUME Crash \/ \E r \in Req : Disconnect(r) PROVE status' = status
  BY <1>1, <1>4, FaultShape DEF rows
<1>5. ASSUME NEW d \in Depl, Patch(d) PROVE status' = status
  BY <1>1, <1>5 DEF Patch, TypeInv, TypeOK
<1>6. CASE UNCHANGED vars
  BY <1>6 DEF vars
<1> QED BY <1>2, <1>3, <1>4, <1>5, <1>6 DEF Next, Step

\* When requests about the same deployment do not overlap, and clients leave
\* the column status alone, the handlers and Store.Transition implement the
\* state machine of DeploymentResource: through crashes and cancelled requests
\* too, and however requests about different deployments interleave.
THEOREM SerialRequestsImplementStateMachine ==
    ASSUME PatchStatus = {}
    PROVE  SerialSpec => ImplementsStateMachine
<1>1. Init => SM!Init
  BY DEF Init, SM!Init
<1>2. SerialInv /\ [Next /\ OneAtATime']_vars => SerialInv'
  BY NextSerialInv
<1>3. SerialInv /\ [Next /\ OneAtATime']_vars => [SM!Next]_status
  BY StepRefines
<1> QED BY <1>1, <1>2, <1>3, InitSerialInv, PTL
        DEF SerialSpec, ImplementsStateMachine, SM!Spec

-----------------------------------------------------------------------------
(***************************************************************************)
(* What a request knows of its deployment, when no other request is about  *)
(* it: label l, local variables c, and of the deployment the status s, the *)
(* port p and whether its container runs on its node (up).                 *)
(***************************************************************************)
\* What clients can make Transition ask for.
Asked == Targets \cup {"scheduled", "starting", "stopping", "deleting"}

\* A caller of Transition asks for its own state.
CallerOK(c) ==
    /\ c.by \in Callers \ {"none"}
    /\ c.by = "api" => c.to \in Asked
    /\ c.by = "schedule" => c.to = "starting"
    /\ c.by = "start" => c.to = "running"
    /\ c.by = "stop" => c.to = "stopped"
    /\ c.by = "remove" => c.to = "deleted"
    /\ c.by = "fail" => c.to = "failed"

\* The usage event that goes with a status.
Due(s) == CASE s = "pending" -> "created"
            [] s = "running" -> "started"
            [] s = "stopped" -> "stopped"
            [] OTHER -> "none"

Knows(l, c, s, p, up) ==
    /\ l = "insert" => c.by = "none"
    /\ l \in {"check", "update", "readback"} => CallerOK(c)
    /\ l \in {"check", "update"} /\ c.by = "start" => up
    /\ l = "readback" => s = c.to
    /\ l \in {"schedule", "assign"} => s = "scheduled"
    /\ l = "start" => s = "starting"
    /\ l \in {"schedule", "start"} => c.port = p
    /\ l = "stop" => s = "stopping"
    /\ l = "remove" => s = "deleting"
    /\ l = "bill" => Due(s) \in {EventOf(c.by), "none"}

Up(d) == container[d][node_id[d]] = "running"

KnowsOwn(r) == Knows(pc[r], ctx[r], status[ctx[r].d], proxy_port[ctx[r].d], Up(ctx[r].d))

Untouched == {Absent, "pending", "scheduled"}

Sound(d) ==
    /\ status[d] \in Untouched => \A n \in Node : container[d][n] = "none"
    /\ \A n \in Node : container[d][n] # "none" => bound[d][n] = proxy_port[d]
    /\ "running" \notin Targets /\ status[d] = "running" => Up(d)

RunInv ==
    /\ SerialInv /\ StayInv
    /\ \A r \in Req : pc[r] # "idle" => KnowsOwn(r)
    /\ \A d \in Depl : Sound(d)

\* At first no deployment exists and no request is under way.
LEMMA InitRunInv == Init => RunInv
<1> SUFFICES ASSUME Init PROVE RunInv
  OBVIOUS
<1>1. SerialInv
  BY InitSerialInv
<1>2. StayInv
  BY InitBaseInv DEF StayInv, HomeInv, Init, Commands
<1>3. \A d \in Depl : Sound(d)
  BY DEF Init, Sound, Absent
<1>4. \A r \in Req : pc[r] = "idle"
  BY DEF Init
<1> QED BY <1>1, <1>2, <1>3, <1>4 DEF RunInv

\* A request under way leaves the bindings and the usage events of other
\* deployments alone.
LEMMA StepElsewhere ==
    ASSUME TypeInv, NEW r \in Req, Step(r), NEW e \in Depl \ {ctx[r].d}
    PROVE  /\ SameDeployment(e) /\ bound'[e] = bound[e] /\ lastEvent'[e] = lastEvent[e]
<1>1. SameDeployment(e) /\ ctx[r].d \in Depl
  BY ContinueShape
<1>2. bound'[e] = bound[e] \/ UNCHANGED bound
  <2>1. ASSUME NEW n, NEW st, NEW p, SetContainer(ctx[r].d, n, st, p)
        PROVE  bound'[e] = bound[e]
    BY <1>1, <2>1 DEF SetContainer, TypeInv, TypeOK
  <2>2. CASE StartDeployment(r) \/ StartDeploymentFails(r)
             \/ StopDeployment(r) \/ DeleteDeployment(r)
    BY <2>1, <2>2
       DEF StartDeployment, StartDeploymentFails, StopDeployment, DeleteDeployment,
           StartContainers, StartContainersFails, StopContainers, RemoveContainers, docker
  <2>3. CASE Insert(r) \/ TransitionCheck(r) \/ TransitionUpdate(r) \/ TransitionReturn(r)
             \/ ScheduleFails(r) \/ ScheduleDeployment(r) \/ AssignNode(r)
             \/ RecordEvent(r) \/ VerifyDelete(r) \/ EraseRow(r) \/ StoreFails(r)
    BY <2>3 DEF Insert, TransitionCheck, TransitionUpdate, TransitionReturn,
                ScheduleFails, ScheduleDeployment, SchedulePort, AssignNode,
                RecordEvent, VerifyDelete, EraseRow, StoreFails, docker
  <2> QED BY <2>2, <2>3 DEF Step, Continue
<1>3. lastEvent'[e] = lastEvent[e] \/ UNCHANGED lastEvent
  <2>1. CASE RecordEvent(r)
    BY <1>1, <2>1 DEF RecordEvent, TypeInv, TypeOK
  <2>2. CASE ~RecordEvent(r)
    BY <2>2 DEF Step, Continue, Insert, TransitionCheck, TransitionUpdate,
                TransitionReturn, ScheduleFails, ScheduleDeployment, SchedulePort,
                AssignNode, VerifyDelete, EraseRow, StoreFails, StartDeployment,
                StartDeploymentFails, StopDeployment, DeleteDeployment
  <2> QED BY <2>1, <2>2
<1> QED BY <1>1, <1>2, <1>3

\* A call of Transition, and what the request holds at its first statement.
LEMMA CallHolds ==
    ASSUME TypeInv, NEW r \in Req, NEW by, NEW to, CallTransition(r, by, to)
    PROVE  /\ pc'[r] = "check" /\ ctx'[r].by = by /\ ctx'[r].to = to
           /\ ctx'[r].d = ctx[r].d
<1> DEFINE c == [ctx[r] EXCEPT !.by = by, !.to = to]
<1>1. c.by = by /\ c.to = to /\ c.d = ctx[r].d
  BY DEF Ctx, TypeInv, TypeOK
<1>2. Goto(r, "check", c)
  BY DEF CallTransition
<1> HIDE DEF c
<1> QED BY <1>1, <1>2, GotoShape

\* What clients ask for.
LEMMA ClientHolds ==
    ASSUME TypeInv, NEW r \in Req, Client(r)
    PROVE  /\ pc'[r] \in {"insert", "check", "erase"} /\ UNCHANGED lastEvent
           /\ pc[r] = "idle"
           /\ pc'[r] = "insert" => ctx'[r].by = "none"
           /\ pc'[r] = "check" => ctx'[r].by = "api" /\ ctx'[r].to \in Asked
<1>1. UNCHANGED lastEvent /\ pc[r] = "idle"
  BY DEF Client, CreateRequest, StartRequest, StopRequest, TransitionRequest,
         DeleteRequest
<1>2. CASE CreateRequest(r)
  <2>1. PICK d \in Depl, n \in Node \cup {NoNode} :
            Goto(r, "insert", [Request("create", d, "none", "none") EXCEPT !.node = n])
    BY <1>2 DEF CreateRequest
  <2>2. [Request("create", d, "none", "none") EXCEPT !.node = n].by = "none"
    BY DEF Request, Blank
  <2>3. \E c : c.by = "none" /\ Goto(r, "insert", c)
    BY <2>1, <2>2, Zenon
  <2> QED BY <1>1, <2>3, GotoShape
<1>3. ASSUME NEW d \in Depl,
             StartRequest(r, d) \/ StopRequest(r, d)
               \/ TransitionRequest(r, d) \/ DeleteRequest(r, d)
      PROVE  /\ pc'[r] \in {"check", "erase"}
             /\ pc'[r] = "check" => ctx'[r].by = "api" /\ ctx'[r].to \in Asked
  <2>1. StartTarget(status[d]) # "none" => StartTarget(status[d]) \in Asked
    BY DEF StartTarget, Asked
  <2>2. \A op, to : Request(op, d, "api", to).by = "api" /\ Request(op, d, "api", to).to = to
    BY DEF Request, Blank
  <2>3. \/ \E op : \E to \in Asked : Goto(r, "check", Request(op, d, "api", to))
        \/ \E op, to : Goto(r, "erase", Request(op, d, "api", to))
    BY <1>3, <2>1 DEF StartRequest, StopRequest, TransitionRequest, DeleteRequest, Asked
  <2> QED BY <2>2, <2>3, GotoShape
<1> QED BY <1>1, <1>2, <1>3 DEF Client

\* Containers keep the port of the row when the orchestrator is given it.
LEMMA BindingsKept ==
    ASSUME TypeInv, NEW d \in Depl, NEW n \in Node, NEW p,
           \A m \in Node : container[d][m] # "none" => bound[d][m] = p,
           \/ StartContainers(d, n, p)
           \/ StartContainersFails(d, n, p)
           \/ StopContainers(d, n)
           \/ RemoveContainers(d, n)
           \/ UNCHANGED docker
    PROVE  \A m \in Node : container'[d][m] # "none" => bound'[d][m] = p
<1>1. ASSUME NEW st, NEW x, SetContainer(d, n, st, x), st = "none" \/ x = p
      PROVE  \A m \in Node : container'[d][m] # "none" => bound'[d][m] = p
  BY <1>1 DEF SetContainer, TypeInv, TypeOK
<1>2. BindingOf(d, n, p) = p
  BY DEF BindingOf
<1>3. container[d][n] = "running" => bound[d][n] = p
  OBVIOUS
<1>4. ASSUME UNCHANGED docker
      PROVE  \A m \in Node : container'[d][m] # "none" => bound'[d][m] = p
  BY <1>4 DEF docker
<1> QED BY <1>1, <1>2, <1>3, <1>4
        DEF StartContainers, StartContainersFails, StopContainers, RemoveContainers

-----------------------------------------------------------------------------
(***************************************************************************)
(* One step of a request: what it knows afterwards, and what holds of its  *)
(* deployment.                                                             *)
(***************************************************************************)
KnowsAfter(r) ==
    Knows(pc'[r], ctx'[r], status'[ctx[r].d], proxy_port'[ctx[r].d],
          container'[ctx[r].d][node_id'[ctx[r].d]] = "running")

\* At these labels there is nothing to know.
LEMMA KnowsNothing ==
    ASSUME NEW l \in {"idle", "verify", "erase"}, NEW c, NEW s, NEW p, NEW up
    PROVE  Knows(l, c, s, p, up)
BY DEF Knows

\* At a call of Transition by a command handler.
LEMMA KnowsCall ==
    ASSUME NEW c, NEW s, NEW p, NEW up, CallerOK(c), c.by = "start" => up
    PROVE  Knows("check", c, s, p, up)
BY DEF Knows

\* The handlers' calls ask for the states that are theirs.
LEMMA CallsOK ==
    ASSUME TypeInv, NEW r \in Req, NEW by, NEW to, CallTransition(r, by, to),
           <<by, to>> \in {<<"schedule", "starting">>, <<"start", "running">>,
                           <<"stop", "stopped">>, <<"remove", "deleted">>,
                           <<"fail", "failed">>},
           by = "start" => container'[ctx[r].d][node_id'[ctx[r].d]] = "running"
    PROVE  KnowsAfter(r)
<1>1. pc'[r] = "check" /\ ctx'[r].by = by /\ ctx'[r].to = to
  BY CallHolds
<1>2. CallerOK(ctx'[r])
  BY <1>1 DEF CallerOK, Callers
<1> QED BY <1>1, <1>2, KnowsCall DEF KnowsAfter

\* Steps that leave the row and the containers alone.
LEMMA SoundKept ==
    ASSUME NEW d \in Depl, Sound(d), UNCHANGED <<rows, docker>>
    PROVE  Sound(d)'
BY DEF Sound, Up, rows, docker

\* What a request knows at readback is what its command handler is given.
LEMMA DispatchedKnows ==
    ASSUME TypeInv, NEW r \in Req, pc[r] = "readback", KnowsOwn(r), Dispatched(r),
           UNCHANGED <<rows, docker>>
    PROVE  KnowsAfter(r)
<1> DEFINE d == ctx[r].d
           row == [ctx[r] EXCEPT !.node = node_id[d], !.port = proxy_port[d]]
           command == OnEnter[ctx[r].to]
<1>1. ctx[r] \in Ctx /\ ctx[r].to \in Status /\ d \in Depl
  BY DEF TypeInv, TypeOK, RequestsOK
<1>2. row.port = proxy_port[d] /\ row.by = ctx[r].by
  BY <1>1 DEF Ctx
<1>3. CallerOK(ctx[r]) /\ status[d] = ctx[r].to
  BY DEF KnowsOwn, Knows
<1>4. status' = status /\ proxy_port' = proxy_port
  BY DEF rows
<1>5. command \in {"schedule", "start", "stop", "remove", "idle"}
      /\ (command = "schedule" => ctx[r].to = "scheduled")
      /\ (command = "start" => ctx[r].to = "starting")
      /\ (command = "stop" => ctx[r].to = "stopping")
      /\ (command = "remove" => ctx[r].to = "deleting")
  BY <1>1 DEF OnEnter, Status
<1>6. \/ Done(r)
      \/ command # "idle" /\ Goto(r, command, row)
      \/ ctx[r].by = "schedule" /\ Goto(r, "start", row)
      \/ ctx[r].by \notin {"api", "schedule", "fail"} /\ Goto(r, "bill", ctx[r])
  BY DEF Dispatched
<1>7. CASE Done(r)
  BY <1>7, DoneAfter, KnowsNothing DEF KnowsAfter
<1> HIDE DEF row, command
<1>8. CASE command # "idle" /\ Goto(r, command, row)
  <2>1. pc'[r] = command /\ ctx'[r] = row
    BY <1>8, GotoShape
  <2> QED BY <1>2, <1>3, <1>4, <1>5, <1>8, <2>1 DEF KnowsAfter, Knows
<1>9. CASE ctx[r].by = "schedule" /\ Goto(r, "start", row)
  <2>1. pc'[r] = "start" /\ ctx'[r] = row
    BY <1>9, GotoShape
  <2>2. ctx[r].to = "starting"
    BY <1>3, <1>9 DEF CallerOK
  <2> QED BY <1>2, <1>3, <1>4, <2>1, <2>2 DEF KnowsAfter, Knows
<1>10. CASE ctx[r].by \notin {"api", "schedule", "fail"} /\ Goto(r, "bill", ctx[r])
  <2>1. pc'[r] = "bill" /\ ctx'[r] = ctx[r]
    BY <1>10, GotoShape
  <2>2. ctx[r].by \in {"start", "stop", "remove"}
    BY <1>3, <1>10 DEF CallerOK, Callers
  <2>3. Due(ctx[r].to) \in {EventOf(ctx[r].by), "none"}
    BY <1>3, <2>2 DEF CallerOK, Due, EventOf
  <2> QED BY <1>3, <1>4, <2>1, <2>3 DEF KnowsAfter, Knows
<1> QED BY <1>6, <1>7, <1>8, <1>9, <1>10

\* A step keeps what a request knows and what holds of its deployment: one
\* step of the proof per action.
LEMMA StepKnows ==
    ASSUME RunInv, NEW r \in Req, Step(r), NEW d \in Depl, d = ctx[r].d
    PROVE  KnowsAfter(r) /\ Sound(d)'
<1>1. TypeInv /\ BaseInv /\ d \in Depl /\ pc[r] # "idle"
  BY ContinueShape DEF RunInv, SerialInv, BaseInv
<1>2. KnowsOwn(r) /\ Sound(d)
  BY <1>1 DEF RunInv
<1>3. CASE Insert(r)
  <2>1. /\ pc'[r] = "bill" /\ ctx'[r] = ctx[r] /\ ctx[r].by = "none" /\ status[d] = Absent
    BY <1>1, <1>2, <1>3, GotoShape DEF Insert, KnowsOwn, Knows, BaseInv, FreshId
  <2>2. /\ status'[d] = "pending" /\ UNCHANGED docker
    BY <1>1, <1>3 DEF Insert, TypeInv, TypeOK
  <2>3. \A n \in Node : container'[d][n] = "none"
    BY <1>2, <2>1, <2>2 DEF Sound, Untouched, docker
  <2>4. Due("pending") = EventOf("none")
    BY DEF Due, EventOf
  <2> QED BY <2>1, <2>2, <2>3, <2>4 DEF KnowsAfter, Knows, Sound
<1>4. CASE TransitionCheck(r)
  <2>1. UNCHANGED <<rows, docker>>
    BY <1>4 DEF TransitionCheck
  <2>2. CASE Goto(r, "update", ctx[r])
    <3>1. pc[r] = "check" /\ pc'[r] = "update" /\ ctx'[r] = ctx[r]
      BY <1>1, <1>4, <2>2, GotoShape DEF TransitionCheck
    <3>2. KnowsAfter(r)
      BY <1>2, <2>1, <3>1 DEF KnowsAfter, KnowsOwn, Knows, Up, rows, docker
    <3> QED BY <1>1, <1>2, <2>1, <3>2, SoundKept
  <2>3. CASE Refused(r)
    BY <1>1, <1>2, <2>1, <2>3, RefusedAfter, KnowsNothing, SoundKept DEF KnowsAfter
  <2> QED BY <1>4, <2>2, <2>3 DEF TransitionCheck
<1>5. CASE TransitionUpdate(r)
  <2>1. CASE ~Exists(d)
    <3>1. Refused(r) /\ UNCHANGED <<rows, docker>>
      BY <1>5, <2>1 DEF TransitionUpdate, rows
    <3> QED BY <1>1, <1>2, <3>1, RefusedAfter, KnowsNothing, SoundKept DEF KnowsAfter
  <2>2. CASE Exists(d)
    <3>1. /\ pc[r] = "update" /\ status'[d] = ctx[r].to
          /\ pc'[r] = "readback" /\ ctx'[r] = ctx[r]
          /\ UNCHANGED <<node_id, proxy_port, container, bound>>
      BY <1>1, <1>5, <2>2, GotoShape DEF TransitionUpdate, TypeInv, TypeOK, docker
    <3>2. CallerOK(ctx[r]) /\ (ctx[r].by = "start" => Up(d))
      BY <1>2, <3>1 DEF KnowsOwn, Knows
    <3>3. KnowsAfter(r)
      BY <3>1, <3>2 DEF KnowsAfter, Knows
    <3>4. ctx[r].to \in Untouched => status[d] \in Untouched
      <4>1. status[d] \in Status /\ ctx[r].to \in Transitions[status[d]]
        BY <3>1 DEF RunInv, SerialInv, CanTransition
      <4> QED BY <4>1 DEF Transitions, Status, Untouched, Absent
    <3>5. "running" \notin Targets /\ ctx[r].to = "running" => Up(d)
      BY <3>2 DEF CallerOK, Callers, Asked
    <3> QED BY <1>2, <3>1, <3>3, <3>4, <3>5 DEF Sound, Up
  <2> QED BY <2>1, <2>2
<1>6. CASE TransitionReturn(r)
  <2>1. pc[r] = "readback" /\ UNCHANGED <<rows, docker>>
    BY <1>6 DEF TransitionReturn
  <2>2. CASE Dispatched(r)
    BY <1>1, <1>2, <2>1, <2>2, DispatchedKnows, SoundKept
  <2>3. CASE Refused(r)
    BY <1>1, <1>2, <2>1, <2>3, RefusedAfter, KnowsNothing, SoundKept DEF KnowsAfter
  <2> QED BY <1>6, <2>2, <2>3 DEF TransitionReturn
<1>7. CASE ScheduleFails(r)
  BY <1>1, <1>2, <1>7, CallsOK, SoundKept DEF ScheduleFails
<1>8. ASSUME NEW used, SchedulePort(r, used) PROVE KnowsAfter(r) /\ Sound(d)'
  <2>1. /\ pc[r] = "schedule" /\ UNCHANGED <<rows, docker>>
        /\ pc'[r] \in {"idle", "verify", "assign"}
    BY <1>1, <1>8, SchedulePortAfter
  <2>2. status'[d] = "scheduled"
    BY <1>2, <2>1 DEF KnowsOwn, Knows, rows
  <2>3. KnowsAfter(r)
    BY <2>1, <2>2 DEF KnowsAfter, Knows
  <2> QED BY <1>1, <1>2, <2>1, <2>3, SoundKept
<1>9. CASE ScheduleDeployment(r)
  BY <1>8, <1>9 DEF ScheduleDeployment
<1>10. CASE AssignNode(r)
  <2>1. /\ pc[r] = "assign" /\ CallTransition(r, "schedule", "starting")
        /\ status' = status /\ UNCHANGED docker
    BY <1>10 DEF AssignNode
  <2>2. status'[d] = "scheduled" /\ status[d] = "scheduled"
    BY <1>2, <2>1 DEF KnowsOwn, Knows
  <2>3. \A n \in Node : container'[d][n] = "none"
    BY <1>2, <2>1, <2>2 DEF Sound, Untouched, docker
  <2>4. Sound(d)'
    BY <2>2, <2>3 DEF Sound
  <2> QED BY <1>1, <2>1, <2>4, CallsOK
<1>11. ctx[r].node \in Node \cup {NoNode} /\ NoNode \notin Node
  BY <1>1, ConstantsAssumption DEF TypeInv, TypeOK, Ctx
<1>12. \A m \in Node : container[d][m] # "none" => bound[d][m] = proxy_port[d]
  BY <1>2 DEF Sound
<1>13. ASSUME UNCHANGED rows, status[d] \notin Untouched \cup {"running"},
              \A m \in Node : container'[d][m] # "none" => bound'[d][m] = proxy_port[d]
       PROVE  Sound(d)'
  BY <1>13 DEF Sound, rows
<1>14. CASE StartDeployment(r)
  <2>1. /\ pc[r] = "start" /\ ctx[r].node \in Node /\ UNCHANGED rows
        /\ StartContainers(d, ctx[r].node, ctx[r].port)
        /\ CallTransition(r, "start", "running")
    BY <1>11, <1>14 DEF StartDeployment
  <2>2. status[d] = "starting" /\ ctx[r].port = proxy_port[d]
    BY <1>2, <2>1 DEF KnowsOwn, Knows
  <2>3. ctx[r].node = node_id[d] /\ node_id' = node_id
    BY <2>1 DEF RunInv, StayInv, HomeInv, Unmoved, Commands, rows
  <2>4. container'[d][ctx[r].node] = "running"
    BY <1>1, <2>1 DEF StartContainers, SetContainer, TypeInv, TypeOK
  <2>5. KnowsAfter(r)
    BY <1>1, <2>1, <2>3, <2>4, CallsOK
  <2>6. \A m \in Node : container'[d][m] # "none" => bound'[d][m] = proxy_port[d]
    BY <1>1, <1>12, <2>1, <2>2, BindingsKept
  <2> QED BY <1>13, <2>1, <2>2, <2>5, <2>6 DEF Untouched, Absent
<1>15. CASE StartDeploymentFails(r)
  <2>1. /\ pc[r] = "start" /\ UNCHANGED rows /\ CallTransition(r, "fail", "failed")
        /\ \/ UNCHANGED docker
           \/ /\ ctx[r].node \in Node
              /\ StartContainersFails(d, ctx[r].node, ctx[r].port)
    BY <1>11, <1>15 DEF StartDeploymentFails
  <2>2. status[d] = "starting" /\ ctx[r].port = proxy_port[d]
    BY <1>2, <2>1 DEF KnowsOwn, Knows
  <2>3. \A m \in Node : container'[d][m] # "none" => bound'[d][m] = proxy_port[d]
    BY <1>1, <1>12, <2>1, <2>2, BindingsKept DEF docker
  <2> QED BY <1>1, <1>13, <2>1, <2>2, <2>3, CallsOK DEF Untouched, Absent
<1>16. CASE StopDeployment(r)
  <2>1. /\ pc[r] = "stop" /\ UNCHANGED rows /\ CallTransition(r, "stop", "stopped")
        /\ \/ UNCHANGED docker
           \/ ctx[r].node \in Node /\ StopContainers(d, ctx[r].node)
    BY <1>11, <1>16 DEF StopDeployment
  <2>2. status[d] = "stopping"
    BY <1>2, <2>1 DEF KnowsOwn, Knows
  <2>3. \A m \in Node : container'[d][m] # "none" => bound'[d][m] = proxy_port[d]
    BY <1>1, <1>12, <2>1, BindingsKept DEF docker
  <2> QED BY <1>1, <1>13, <2>1, <2>2, <2>3, CallsOK DEF Untouched, Absent
<1>17. CASE DeleteDeployment(r)
  <2>1. /\ pc[r] = "remove" /\ UNCHANGED rows /\ CallTransition(r, "remove", "deleted")
        /\ \/ UNCHANGED docker
           \/ ctx[r].node \in Node /\ RemoveContainers(d, ctx[r].node)
    BY <1>11, <1>17 DEF DeleteDeployment
  <2>2. status[d] = "deleting"
    BY <1>2, <2>1 DEF KnowsOwn, Knows
  <2>3. \A m \in Node : container'[d][m] # "none" => bound'[d][m] = proxy_port[d]
    BY <1>1, <1>12, <2>1, BindingsKept DEF docker
  <2> QED BY <1>1, <1>13, <2>1, <2>2, <2>3, CallsOK DEF Untouched, Absent
<1>18. CASE RecordEvent(r)
  BY <1>1, <1>2, <1>18, DoneAfter, KnowsNothing, SoundKept DEF RecordEvent, KnowsAfter
<1>19. CASE VerifyDelete(r)
  <2>1. pc'[r] \in {"idle", "erase"} /\ UNCHANGED <<rows, docker>>
    BY <1>1, <1>19, ReturnAfter, GotoShape DEF VerifyDelete
  <2> QED BY <1>1, <1>2, <2>1, KnowsNothing, SoundKept DEF KnowsAfter
<1>20. CASE EraseRow(r)
  <2>1. pc'[r] = "idle" /\ UNCHANGED <<node_id, proxy_port, docker>> /\ status'[d] = Erased
    BY <1>1, <1>20, ReturnAfter DEF EraseRow, TypeInv, TypeOK
  <2>2. Sound(d)'
    BY <1>2, <2>1 DEF Sound, Untouched, Absent, Erased, docker
  <2> QED BY <2>1, <2>2, KnowsNothing DEF KnowsAfter
<1>21. CASE StoreFails(r)
  <2>1. UNCHANGED <<rows, docker>>
    BY <1>21 DEF StoreFails
  <2>2. CASE CallTransition(r, "schedule", "starting")
    BY <1>1, <1>2, <2>1, <2>2, CallsOK, SoundKept
  <2>3. CASE SchedulePort(r, {})
    BY <1>8, <2>3
  <2>4. CASE Refused(r) \/ Done(r) \/ Goto(r, "erase", ctx[r]) \/ Return(r)
    <3>1. pc'[r] \in {"idle", "verify", "erase"}
      BY <1>1, <2>4, RefusedAfter, DoneAfter, GotoShape, ReturnAfter
    <3> QED BY <1>1, <1>2, <2>1, <3>1, KnowsNothing, SoundKept DEF KnowsAfter
  <2> QED BY <1>21, <2>2, <2>3, <2>4 DEF StoreFails
<1> QED
  BY <1>3, <1>4, <1>5, <1>6, <1>7, <1>9, <1>10, <1>14, <1>15, <1>16, <1>17, <1>18,
     <1>19, <1>20, <1>21
  DEF Step, Continue

\* What another request knows, and what holds of its deployment, depends on
\* that deployment alone.
LEMMA OthersKnow ==
    ASSUME RunInv, NEW r \in Req, Step(r), NEW q \in Req \ {r}, pc'[q] # "idle"
    PROVE  /\ SameRequest(q) /\ ctx[q].d \in Depl \ {ctx[r].d}
           /\ KnowsOwn(q)'
<1>1. TypeInv
  BY DEF RunInv, SerialInv, BaseInv
<1>2. SameRequest(q) /\ ctx[r].d \in Depl
  BY <1>1, ContinueShape DEF After
<1>3. ctx[q].d \in Depl /\ pc[q] # "idle"
  BY <1>1, <1>2 DEF TypeInv, RequestsOK, SameRequest
<1>4. ctx[q].d # ctx[r].d
  BY <1>2, <1>3, ConstantsAssumption DEF RunInv, SerialInv, OneAtATime
<1>5. SameDeployment(ctx[q].d)
  BY <1>1, <1>3, <1>4, StepElsewhere
<1>6. Knows(pc[q], ctx[q], status[ctx[q].d], proxy_port[ctx[q].d], Up(ctx[q].d))
  BY <1>3 DEF RunInv, KnowsOwn
<1>7. Knows(pc'[q], ctx'[q], status'[ctx'[q].d], proxy_port'[ctx'[q].d],
            container'[ctx'[q].d][node_id'[ctx'[q].d]] = "running")
  BY <1>2, <1>5, <1>6 DEF Up, SameRequest, SameDeployment
<1> QED BY <1>2, <1>3, <1>4, <1>7 DEF KnowsOwn, Up

LEMMA StepRunInv ==
    ASSUME RunInv, SerialInv', StayInv', NEW r \in Req, Step(r)
    PROVE  RunInv'
<1>1. TypeInv /\ TypeInv'
  BY DEF RunInv, SerialInv, BaseInv
<1>2. PICK d \in Depl : d = ctx[r].d
  BY <1>1, ContinueShape
<1>3. KnowsAfter(r) /\ Sound(d)'
  BY <1>2, StepKnows
<1>4. ASSUME NEW e \in Depl \ {d} PROVE Sound(e)'
  <2>1. SameDeployment(e) /\ bound'[e] = bound[e]
    BY <1>1, <1>2, StepElsewhere
  <2>2. Sound(e)
    BY DEF RunInv
  <2> QED BY <2>1, <2>2 DEF Sound, Up, SameDeployment
<1>5. ASSUME pc'[r] # "idle" PROVE KnowsOwn(r)'
  <2>1. ctx'[r].d = ctx[r].d
    <3>1. ctx'[r].d \in Depl
      BY <1>1, <1>5 DEF TypeInv, RequestsOK
    <3> QED BY <1>1, <3>1, ContinueShape, ConstantsAssumption DEF After
  <2> QED BY <1>3, <2>1 DEF KnowsAfter, KnowsOwn, Up
<1>6. \A q \in Req : pc'[q] # "idle" => KnowsOwn(q)'
  BY <1>5, OthersKnow
<1>7. \A e \in Depl : Sound(e)'
  BY <1>3, <1>4
<1> QED BY <1>6, <1>7 DEF RunInv

\* A request that has only just come knows what it asks for.
LEMMA ClientRunInv ==
    ASSUME RunInv, SerialInv', StayInv', NEW r \in Req, Client(r)
    PROVE  RunInv'
<1>1. TypeInv
  BY DEF RunInv, SerialInv, BaseInv
<1>2. UNCHANGED <<rows, docker>> /\ \A q \in Req \ {r} : SameRequest(q)
  BY <1>1, ClientShape
<1>3. \A e \in Depl : Sound(e)'
  BY <1>2, SoundKept DEF RunInv
<1>4. ASSUME NEW q \in Req, pc'[q] # "idle" PROVE KnowsOwn(q)'
  <2>1. CASE q = r
    <3>1. /\ pc'[r] \in {"insert", "check", "erase"}
          /\ pc'[r] = "insert" => ctx'[r].by = "none"
          /\ pc'[r] = "check" => CallerOK(ctx'[r]) /\ ctx'[r].by = "api"
      BY <1>1, ClientHolds DEF CallerOK, Callers
    <3> QED BY <2>1, <3>1 DEF KnowsOwn, Knows
  <2>2. CASE q # r
    <3>1. SameRequest(q) /\ KnowsOwn(q)
      BY <1>2, <1>4, <2>2 DEF RunInv, SameRequest
    <3> QED BY <1>2, <3>1 DEF KnowsOwn, Up, SameRequest, rows, docker
  <2> QED BY <2>1, <2>2
<1> QED BY <1>3, <1>4 DEF RunInv

\* Every step of serial requests keeps it, when no column is patched.
LEMMA NextRunInv ==
    ASSUME PatchStatus = {}, PatchNode = {}, PatchPort = {}
    PROVE  RunInv /\ [Next /\ OneAtATime']_vars => RunInv'
<1> SUFFICES ASSUME RunInv, [Next /\ OneAtATime']_vars PROVE RunInv'
  OBVIOUS
<1>1. SerialInv' /\ StayInv' /\ TypeInv
  <2>1. [Next]_vars
    OBVIOUS
  <2> QED BY <2>1, NextSerialInv, NextStayInv DEF RunInv, SerialInv, BaseInv
<1>2. ASSUME NEW r \in Req, Client(r) PROVE RunInv'
  BY <1>1, <1>2, ClientRunInv
<1>3. ASSUME NEW r \in Req, Step(r) PROVE RunInv'
  BY <1>1, <1>3, StepRunInv
<1>4. ASSUME UNCHANGED <<rows, docker>>,
             \A q \in Req : SameRequest(q) \/ pc'[q] = "idle"
      PROVE  RunInv'
  <2>1. \A e \in Depl : Sound(e)'
    BY <1>4, SoundKept DEF RunInv
  <2>2. ASSUME NEW q \in Req, pc'[q] # "idle" PROVE KnowsOwn(q)'
    <3>1. SameRequest(q) /\ KnowsOwn(q)
      BY <1>4, <2>2 DEF RunInv, SameRequest
    <3> QED BY <1>4, <3>1 DEF KnowsOwn, Up, SameRequest, rows, docker
  <2> QED BY <1>1, <2>1, <2>2 DEF RunInv
<1>5. ASSUME Crash \/ \E r \in Req : Disconnect(r) PROVE RunInv'
  BY <1>1, <1>4, <1>5, FaultShape
<1>6. ASSUME NEW d \in Depl, Patch(d) PROVE RunInv'
  <2>1. UNCHANGED <<rows, docker>> /\ UNCHANGED <<pc, ctx>>
    BY <1>1, <1>6 DEF Patch, TypeInv, TypeOK, rows
  <2> QED BY <1>4, <2>1 DEF SameRequest
<1>7. CASE UNCHANGED vars
  BY <1>4, <1>7 DEF vars, SameRequest, rows, docker
<1> QED BY <1>2, <1>3, <1>5, <1>6, <1>7 DEF Next, Step

-----------------------------------------------------------------------------
\* Without overlap, and as long as clients leave the columns alone, the App
\* Proxy finds the container of a deployment at the port of its row: the port
\* is written while there is no container, and startDeployment is given the
\* row as it was written.
THEOREM RoutesReachContainers ==
    ASSUME PatchStatus = {}, PatchNode = {}, PatchPort = {}
    PROVE  SerialSpec => []RouteReachesContainer
<1>1. RunInv => RouteReachesContainer
  BY DEF RunInv, Sound, RouteReachesContainer
<1>2. RunInv /\ [Next /\ OneAtATime']_vars => RunInv'
  BY NextRunInv
<1> QED BY <1>1, <1>2, InitRunInv, PTL DEF SerialSpec

\* Without overlap, and unless clients write "running" themselves, by PATCH or
\* by POST .../transition/running, a deployment that is shown as running has
\* its containers running: startDeployment has started them and neither
\* stopDeployment nor deleteDeployment has been at work since.
THEOREM RunningDeploymentsHaveContainers ==
    ASSUME PatchStatus = {}, PatchNode = {}, PatchPort = {}, "running" \notin Targets
    PROVE  SerialSpec => []RunningHasContainers
<1>1. RunInv => RunningHasContainers
  BY DEF RunInv, Sound, Up, RunningHasContainers
<1>2. RunInv /\ [Next /\ OneAtATime']_vars => RunInv'
  BY NextRunInv
<1> QED BY <1>1, <1>2, InitRunInv, PTL DEF SerialSpec

-----------------------------------------------------------------------------
(***************************************************************************)
(* BillingFollowsStatus.  The status is written in one statement and the   *)
(* usage event in a later one: in between a request owes the event, and    *)
(* when nothing fails it pays.                                             *)
(***************************************************************************)
Owes(r) == pc[r] = "bill" \/ (pc[r] = "readback" /\ ctx[r].by \in {"start", "stop"})

Billed(d) ==
    Due(status[d]) # "none" =>
        \/ lastEvent[d] = Due(status[d])
        \/ \E r \in Req : ctx[r].d = d /\ Owes(r)

BillInv == RunInv /\ \A d \in Depl : Billed(d)

\* A step of a request on its own deployment.
LEMMA StepBilled ==
    ASSUME RunInv, SerialInv', Faults = {}, Targets \cap {"running", "stopped"} = {},
           NEW r \in Req, Step(r), NEW d \in Depl, d = ctx[r].d, Billed(d)
    PROVE  Billed(d)'
<1>1. TypeInv /\ pc[r] # "idle" /\ BaseInv
  BY ContinueShape DEF RunInv, SerialInv, BaseInv
<1>2. KnowsOwn(r) /\ KnowsAfter(r)
  BY <1>1, StepKnows DEF RunInv
<1>3. \A q \in Req \ {r} : SameRequest(q) /\ ctx[q].d # d
  BY <1>1, ContinueShape, ConstantsAssumption DEF RunInv, SerialInv, OneAtATime, After
<1>4. ASSUME status'[d] = status[d], lastEvent'[d] = lastEvent[d], ~Owes(r)
      PROVE  Billed(d)'
  BY <1>3, <1>4 DEF Billed
<1>5. ASSUME ctx'[r].d = d, pc'[r] = "bill" \/ (pc'[r] = "readback" /\ ctx'[r].by \in {"start", "stop"})
      PROVE  Billed(d)'
  BY <1>5 DEF Billed, Owes
<1>6. CASE Insert(r)
  BY <1>1, <1>5, <1>6, GotoShape DEF Insert
<1>7. CASE TransitionUpdate(r)
  <2>1. pc[r] = "update" /\ UNCHANGED lastEvent
    BY <1>7 DEF TransitionUpdate
  <2>2. CASE ~Exists(d)
    <3>1. status' = status
      BY <1>7, <2>2 DEF TransitionUpdate
    <3> QED BY <1>4, <2>1, <3>1 DEF Owes
  <2>3. CASE Exists(d)
    <3>1. /\ pc'[r] = "readback" /\ ctx'[r] = ctx[r] /\ status'[d] = ctx[r].to
      BY <1>1, <1>7, <2>3, GotoShape DEF TransitionUpdate, TypeInv, TypeOK
    <3>2. CASE ctx[r].by \in {"start", "stop"}
      BY <1>5, <3>1, <3>2
    <3>3. CASE ctx[r].by \notin {"start", "stop"}
      <4>1. ctx[r].to \notin {"running", "stopped"}
        BY <1>2, <2>1, <3>3 DEF KnowsOwn, Knows, CallerOK, Callers, Asked
      <4>2. ctx[r].to # "pending"
        <5>1. status[d] \in Status /\ ctx[r].to \in Transitions[status[d]]
          BY <2>1 DEF RunInv, SerialInv, CanTransition
        <5> QED BY <5>1 DEF Transitions, Status
      <4>3. Due(ctx[r].to) = "none"
        BY <4>1, <4>2 DEF Due
      <4> QED BY <3>1, <4>3 DEF Billed
    <3> QED BY <3>2, <3>3
  <2> QED BY <2>2, <2>3
<1>8. CASE TransitionReturn(r)
  <2>1. pc[r] = "readback" /\ status' = status /\ UNCHANGED lastEvent
    BY <1>8 DEF TransitionReturn, rows
  <2>2. CASE ~Owes(r)
    BY <1>4, <2>1, <2>2
  <2>3. CASE Owes(r)
    <3>1. ctx[r].by \in {"start", "stop"}
      BY <2>1, <2>3 DEF Owes
    <3>2. status[d] = ctx[r].to /\ ctx[r].to \in Status
      BY <1>1, <1>2, <2>1 DEF KnowsOwn, Knows, TypeInv, RequestsOK
    <3>3. Goto(r, "bill", ctx[r])
      BY <1>8, <3>1, <3>2 DEF TransitionReturn, Dispatched, Exists
    <3>4. pc'[r] = "bill" /\ ctx'[r] = ctx[r]
      BY <1>1, <3>3, GotoShape
    <3> QED BY <1>5, <3>4
  <2> QED BY <2>2, <2>3
<1>9. CASE RecordEvent(r)
  <2>1. /\ pc[r] = "bill" /\ status' = status
        /\ lastEvent'[d] = EventOf(ctx[r].by)
    BY <1>1, <1>9 DEF RecordEvent, TypeInv, TypeOK, rows
  <2>2. Due(status[d]) \in {EventOf(ctx[r].by), "none"}
    BY <1>2, <2>1 DEF KnowsOwn, Knows
  <2> QED BY <2>1, <2>2 DEF Billed
<1>10. CASE EraseRow(r)
  <2>1. status'[d] = Erased
    BY <1>1, <1>10 DEF EraseRow, TypeInv, TypeOK
  <2>2. Due(Erased) = "none"
    BY DEF Due, Erased
  <2> QED BY <2>1, <2>2 DEF Billed
<1>11. CASE TransitionCheck(r) \/ ScheduleFails(r) \/ ScheduleDeployment(r)
            \/ AssignNode(r) \/ StartDeployment(r) \/ StartDeploymentFails(r)
            \/ StopDeployment(r) \/ DeleteDeployment(r) \/ VerifyDelete(r)
  <2>1. pc[r] \notin {"bill", "readback"} /\ status' = status /\ UNCHANGED lastEvent
    BY <1>11 DEF TransitionCheck, ScheduleFails, ScheduleDeployment, SchedulePort,
                 AssignNode, StartDeployment, StartDeploymentFails, StopDeployment,
                 DeleteDeployment, VerifyDelete, rows
  <2> QED BY <1>4, <2>1 DEF Owes
<1>12. ~StoreFails(r)
  BY DEF StoreFails
<1> QED BY <1>6, <1>7, <1>8, <1>9, <1>10, <1>11, <1>12 DEF Step, Continue

LEMMA NextBillInv ==
    ASSUME PatchStatus = {}, PatchNode = {}, PatchPort = {}, Faults = {},
           Targets \cap {"running", "stopped"} = {}
    PROVE  BillInv /\ [Next /\ OneAtATime']_vars => BillInv'
<1> SUFFICES ASSUME BillInv, [Next /\ OneAtATime']_vars PROVE BillInv'
  OBVIOUS
<1>1. RunInv /\ RunInv' /\ TypeInv /\ SerialInv'
  BY NextRunInv DEF BillInv, RunInv, SerialInv, BaseInv
<1>2. ASSUME NEW r \in Req, Client(r) PROVE BillInv'
  <2>1. /\ status' = status /\ UNCHANGED lastEvent /\ pc[r] = "idle"
        /\ \A q \in Req \ {r} : SameRequest(q)
    BY <1>1, <1>2, ClientShape, ClientHolds DEF rows
  <2>2. \A q \in Req : Owes(q) => SameRequest(q)
    BY <2>1 DEF Owes
  <2>3. \A d \in Depl : Billed(d)'
    BY <2>1, <2>2 DEF BillInv, Billed, Owes, SameRequest
  <2> QED BY <1>1, <2>3 DEF BillInv
<1>3. ASSUME NEW r \in Req, Step(r) PROVE BillInv'
  <2>1. ASSUME NEW d \in Depl PROVE Billed(d)'
    <3>1. CASE d = ctx[r].d
      BY <1>1, <1>3, <3>1, StepBilled DEF BillInv
    <3>2. CASE d # ctx[r].d
      <4>1. status'[d] = status[d] /\ lastEvent'[d] = lastEvent[d]
        BY <1>1, <1>3, <3>2, StepElsewhere DEF SameDeployment
      <4>2. \A q \in Req : ctx[q].d = d => SameRequest(q)
        BY <1>1, <1>3, <3>2, ContinueShape DEF After
      <4> QED BY <4>1, <4>2 DEF BillInv, Billed, Owes, SameRequest
    <3> QED BY <3>1, <3>2
  <2> QED BY <1>1, <2>1 DEF BillInv
<1>4. ~Crash /\ \A r \in Req : ~Disconnect(r)
  BY DEF Crash, Disconnect
<1>5. ASSUME UNCHANGED <<status, lastEvent, pc, ctx>> PROVE BillInv'
  <2>1. \A d \in Depl : Billed(d)'
    BY <1>5 DEF BillInv, Billed, Owes
  <2> QED BY <1>1, <2>1 DEF BillInv
<1>6. ASSUME NEW d \in Depl, Patch(d) PROVE BillInv'
  <2>1. UNCHANGED <<status, lastEvent, pc, ctx>>
    BY <1>1, <1>6 DEF Patch, TypeInv, TypeOK
  <2> QED BY <1>5, <2>1
<1>7. CASE UNCHANGED vars
  BY <1>5, <1>7 DEF vars
<1> QED BY <1>2, <1>3, <1>4, <1>6, <1>7 DEF Next, Step

\* Without overlap, and when no store call fails and no process dies, the usage
\* events agree with the statuses whenever no request is under way, provided
\* that clients neither PATCH the columns nor POST .../transition/running or
\* .../transition/stopped, which record nothing.
THEOREM EventsFollowStatus ==
    ASSUME PatchStatus = {}, PatchNode = {}, PatchPort = {}, Faults = {},
           Targets \cap {"running", "stopped"} = {}
    PROVE  SerialSpec => []BillingFollowsStatus
<1>1. Init => BillInv
  <2>1. Due(Absent) = "none"
    BY DEF Due, Absent
  <2> QED BY <2>1, InitRunInv DEF BillInv, Billed, Init
<1>2. BillInv => BillingFollowsStatus
  <2> SUFFICES ASSUME BillInv, Quiescent, NEW d \in Depl
               PROVE  /\ status[d] = "pending" => lastEvent[d] = "created"
                      /\ status[d] = "running" => lastEvent[d] = "started"
                      /\ status[d] = "stopped" => lastEvent[d] = "stopped"
    BY DEF BillingFollowsStatus
  <2>1. \A r \in Req : ~Owes(r)
    BY DEF Quiescent, Owes
  <2>2. Due(status[d]) # "none" => lastEvent[d] = Due(status[d])
    BY <2>1 DEF BillInv, Billed
  <2> QED BY <2>2 DEF Due
<1>3. BillInv /\ [Next /\ OneAtATime']_vars => BillInv'
  BY NextBillInv
<1> QED BY <1>1, <1>2, <1>3, PTL DEF SerialSpec

-----------------------------------------------------------------------------
(***************************************************************************)
(* WithinPlan.  The rows that count against the plan, and those that a     *)
(* request is past its check of and may still add: an insertion, or the    *)
(* UPDATE of a row that has become "deleted" since.  When a create request *)
(* passes the check there is room for its row among those that count, and  *)
(* no more requests than there are can be past theirs.                     *)
(***************************************************************************)
Writers == {r \in Req : pc[r] \in {"insert", "update"}}

Coming == {ctx[r].d : r \in Writers}

PlanInv ==
    /\ BaseInv
    /\ MaxDeployments > 0 =>
           /\ IsFiniteSet(Active \cup Coming)
           /\ Cardinality(Active \cup Coming) <= MaxDeployments + Cardinality(Req) - 1

\* There are no more deployments than requests that are about them.
LEMMA ComingBounded ==
    ASSUME IsFiniteSet(Req), NEW W \in SUBSET Req, NEW c
    PROVE  /\ IsFiniteSet({c[r].d : r \in W})
           /\ Cardinality({c[r].d : r \in W}) <= Cardinality(Req)
<1> DEFINE T == {c[r].d : r \in W}
           f == [r \in W |-> c[r].d]
<1>1. IsFiniteSet(W) /\ Cardinality(W) <= Cardinality(Req)
  BY FS_Subset
<1>2. f \in Surjection(W, T)
  BY DEF Surjection
<1> HIDE DEF T, f
<1>3. IsFiniteSet(T) /\ Cardinality(T) <= Cardinality(W)
  BY <1>1, <1>2, FS_Surjection
<1>4. Cardinality(Req) \in Nat /\ Cardinality(T) \in Nat /\ Cardinality(W) \in Nat
  BY <1>1, <1>3, FS_CardinalityType
<1>5. IsFiniteSet(T) /\ Cardinality(T) <= Cardinality(Req)
  BY <1>1, <1>3, <1>4
<1> QED BY <1>5 DEF T

\* A request under way adds nothing to what counts or may come to count: what
\* it inserts or updates was coming, and what passes the check of Transition
\* counts already, for "deleted" has no successor.
LEMMA StepAddsNothing ==
    ASSUME BaseInv, NEW r \in Req, Step(r)
    PROVE  (Active \cup Coming)' \subseteq Active \cup Coming
<1>1. TypeInv
  BY DEF BaseInv
<1>2. PICK d \in Depl : d = ctx[r].d /\ \A e \in Depl \ {d} : status'[e] = status[e]
  BY <1>1, ContinueShape DEF SameDeployment
<1>3. ASSUME NEW e \in Depl, e \in Active' PROVE e \in Active \cup Coming
  <2>1. status'[e] \in Status \ {"deleted"}
    BY <1>3 DEF Active, Exists
  <2>2. CASE status'[e] = status[e]
    BY <2>1, <2>2 DEF Active, Exists
  <2>3. CASE e = d /\ pc[r] \in {"insert", "update"}
    BY <1>2, <2>3 DEF Coming, Writers
  <2>4. CASE e = d /\ status'[d] = Erased
    BY <2>1, <2>4 DEF Status, Erased
  <2> QED BY <1>1, <1>2, <2>2, <2>3, <2>4, ContinueWrites
<1>4. ASSUME NEW q \in Req, pc'[q] \in {"insert", "update"}
      PROVE  ctx'[q].d \in Active \cup Coming
  <2>1. CASE q # r
    <3>1. SameRequest(q)
      BY <1>1, <2>1, ContinueShape DEF After
    <3> QED BY <1>4, <3>1 DEF SameRequest, Coming, Writers
  <2>2. CASE q = r
    <3>1. pc'[r] = "update"
      BY <1>1, <1>4, <2>2, ContinueShape DEF After
    <3>2. ctx'[r] = ctx[r] /\ CanTransition(status[d], ctx[r].to)
      BY <1>1, <1>2, <3>1, ContinueLabels
    <3>3. status[d] \in Status \ {"deleted"}
      BY <3>2 DEF CanTransition, Transitions, Status
    <3> QED BY <1>2, <2>2, <3>2, <3>3 DEF Active, Exists
  <2> QED BY <2>1, <2>2
<1>5. Active' \subseteq Active \cup Coming
  BY <1>3 DEF Active
<1>6. Coming' \subseteq Active \cup Coming
  BY <1>4 DEF Coming, Writers
<1> QED BY <1>5, <1>6

\* Every step keeps the bound, when no store call fails and status is not patched.
LEMMA NextPlanInv ==
    ASSUME PatchStatus = {}, "store" \notin Faults, IsFiniteSet(Req)
    PROVE  PlanInv /\ [Next]_vars => PlanInv'
<1> SUFFICES ASSUME PlanInv, [Next]_vars PROVE PlanInv'
  OBVIOUS
<1> DEFINE All == Active \cup Coming
           Bound == MaxDeployments + Cardinality(Req) - 1
<1>1. BaseInv /\ TypeInv /\ BaseInv'
  BY NextBaseInv DEF PlanInv, BaseInv
<1> SUFFICES ASSUME MaxDeployments > 0
             PROVE  IsFiniteSet(All') /\ Cardinality(All') <= Bound
  BY <1>1 DEF PlanInv
<1>2. IsFiniteSet(All) /\ Cardinality(All) <= Bound
  BY DEF PlanInv
<1>3. /\ MaxDeployments \in Nat /\ Cardinality(Req) \in Nat /\ Cardinality(All) \in Nat
  BY <1>2, FS_CardinalityType, ConstantsAssumption
<1>4. ASSUME All' \subseteq All
      PROVE  IsFiniteSet(All') /\ Cardinality(All') <= Bound
  <2> HIDE DEF All
  <2>1. IsFiniteSet(All') /\ Cardinality(All') <= Cardinality(All)
    BY <1>2, <1>4, FS_Subset
  <2>2. Cardinality(All') \in Nat
    BY <2>1, FS_CardinalityType
  <2> QED BY <1>2, <1>3, <2>1, <2>2
<1>5. ASSUME NEW r \in Req, Client(r)
      PROVE  IsFiniteSet(All') /\ Cardinality(All') <= Bound
  <2>1. status' = status /\ \A q \in Req \ {r} : SameRequest(q)
    BY <1>1, <1>5, ClientShape DEF rows
  <2>2. Active' = Active
    BY <2>1 DEF Active, Exists
  <2>3. CASE CreateRequest(r)
    <3>1. Cardinality(Active) < MaxDeployments
      BY <2>3 DEF CreateRequest
    <3>2. IsFiniteSet(Active)
      BY <1>2, FS_Subset
    <3>3. IsFiniteSet(Coming') /\ Cardinality(Coming') <= Cardinality(Req)
      <4>1. Writers' \in SUBSET Req
        BY DEF Writers
      <4>2. PICK W \in SUBSET Req : W = Writers'
        BY <4>1
      <4>3. Coming' = {ctx'[q].d : q \in W}
        BY <4>2 DEF Coming
      <4>4. /\ IsFiniteSet({ctx'[q].d : q \in W})
            /\ Cardinality({ctx'[q].d : q \in W}) <= Cardinality(Req)
        BY ComingBounded
      <4> QED BY <4>3, <4>4
    <3>4. PICK C : C = Coming'
      OBVIOUS
    <3>5. /\ IsFiniteSet(Active \cup C)
          /\ Cardinality(Active \cup C) =
                 Cardinality(Active) + Cardinality(C) - Cardinality(Active \cap C)
      BY <3>2, <3>3, <3>4, FS_Union
    <3>6. IsFiniteSet(Active \cap C)
      BY <3>2, FS_Subset
    <3>7. /\ Cardinality(Active) \in Nat /\ Cardinality(C) \in Nat
          /\ Cardinality(Active \cap C) \in Nat
      BY <3>2, <3>3, <3>4, <3>6, FS_CardinalityType
    <3>8. Cardinality(Active \cup C) <= Bound
      BY <1>3, <3>1, <3>3, <3>4, <3>5, <3>7
    <3> QED BY <2>2, <3>4, <3>5, <3>8
  <2>4. CASE ~CreateRequest(r)
    <3>1. \E label \in {"check", "erase"} : \E c : Goto(r, label, c)
      BY <1>5, <2>4 DEF Client, StartRequest, StopRequest, TransitionRequest,
                        DeleteRequest
    <3>2. pc'[r] \notin {"insert", "update"}
      BY <1>1, <3>1, GotoShape
    <3>3. Coming' \subseteq Coming
      BY <2>1, <3>2 DEF Coming, Writers, SameRequest
    <3> QED BY <1>4, <2>2, <3>3
  <2> QED BY <2>3, <2>4
<1>6. ASSUME NEW r \in Req, Step(r)
      PROVE  IsFiniteSet(All') /\ Cardinality(All') <= Bound
  BY <1>1, <1>4, <1>6, StepAddsNothing
<1>7. ASSUME status' = status, \A q \in Req : SameRequest(q) \/ pc'[q] = "idle"
      PROVE  IsFiniteSet(All') /\ Cardinality(All') <= Bound
  <2>1. Active' = Active
    BY <1>7 DEF Active, Exists
  <2>2. Coming' \subseteq Coming
    BY <1>7 DEF Coming, Writers, SameRequest
  <2> QED BY <1>4, <2>1, <2>2
<1>8. ASSUME Crash \/ \E r \in Req : Disconnect(r)
      PROVE  status' = status /\ \A q \in Req : SameRequest(q) \/ pc'[q] = "idle"
  BY <1>1, <1>8, FaultShape DEF rows
<1>9. ASSUME NEW d \in Depl, Patch(d) PROVE status' = status /\ pc' = pc /\ ctx' = ctx
  BY <1>1, <1>9 DEF Patch, TypeInv, TypeOK
<1>10. CASE UNCHANGED vars
  BY <1>7, <1>10 DEF vars, SameRequest
<1> HIDE DEF All, Bound
<1> QED BY <1>5, <1>6, <1>7, <1>8, <1>9, <1>10 DEF Next, Step, SameRequest

\* However requests overlap, crash or are cut off, and as long as the rows can
\* be read and clients do not PATCH status, a customer has at most as many
\* deployments as the plan allows and there are other requests: one request at
\* a time keeps to the plan exactly, and the excess does not grow with the
\* number of attempts.
THEOREM PlanLimitHolds ==
    ASSUME PatchStatus = {}, "store" \notin Faults, IsFiniteSet(Req)
    PROVE  Spec => []WithinPlan
<1>1. Init => PlanInv
  <2> SUFFICES ASSUME Init PROVE PlanInv
    OBVIOUS
  <2>1. Active = {}
    BY DEF Init, Active, Exists, Absent, Status
  <2>2. Coming = {}
    BY DEF Init, Coming, Writers
  <2>3. IsFiniteSet(Active \cup Coming) /\ Cardinality(Active \cup Coming) = 0
    BY <2>1, <2>2, FS_EmptySet
  <2>4. Cardinality(Req) \in Nat
    BY FS_CardinalityType
  <2> QED BY <2>3, <2>4, InitBaseInv, ConstantsAssumption DEF PlanInv
<1>2. PlanInv => WithinPlan
  <2> SUFFICES ASSUME PlanInv, MaxDeployments > 0
               PROVE  Cardinality(Active) <= MaxDeployments + Cardinality(Req) - 1
    <3>1. {d \in Depl : status[d] \in Status \ {"deleted"}} = Active
      BY DEF Active, Exists
    <3> QED BY <3>1 DEF WithinPlan
  <2>1. /\ IsFiniteSet(Active \cup Coming)
        /\ Cardinality(Active \cup Coming) <= MaxDeployments + Cardinality(Req) - 1
    BY DEF PlanInv
  <2>2. IsFiniteSet(Active) /\ Cardinality(Active) <= Cardinality(Active \cup Coming)
    BY <2>1, FS_Subset
  <2>3. /\ Cardinality(Active) \in Nat /\ Cardinality(Active \cup Coming) \in Nat
        /\ Cardinality(Req) \in Nat /\ MaxDeployments \in Nat
    BY <2>1, <2>2, FS_CardinalityType, ConstantsAssumption
  <2> QED BY <2>1, <2>2, <2>3
<1>3. PlanInv /\ [Next]_vars => PlanInv'
  BY NextPlanInv
<1> QED BY <1>1, <1>2, <1>3, PTL DEF Spec

-----------------------------------------------------------------------------
(***************************************************************************)
(* PortWasFree, in the runs in which the used ports are read in one        *)
(* statement and the port is written in the next.                          *)
(***************************************************************************)
PortInv ==
    /\ RunInv
    /\ \A r \in Req : pc[r] = "assign" =>
           \/ ctx[r].port = proxy_port[ctx[r].d]
           \/ ctx[r].port \notin getUsedProxyPorts(ctx[r].node)

\* scheduleDeployment keeps the port of the row, or takes one that is free.
LEMMA ScheduledPortIsFree ==
    ASSUME RunInv, NEW r \in Req, ScheduleDeployment(r), pc'[r] = "assign"
    PROVE  \/ ctx'[r].port = proxy_port'[ctx'[r].d]
           \/ ctx'[r].port \notin getUsedProxyPorts(ctx[r].node)'
<1>1. TypeInv /\ pc[r] = "schedule" /\ UNCHANGED rows
  BY DEF RunInv, SerialInv, BaseInv, ScheduleDeployment, SchedulePort
<1>2. ctx[r] \in Ctx /\ ctx[r].port = proxy_port[ctx[r].d]
  BY <1>1 DEF TypeInv, TypeOK, RunInv, KnowsOwn, Knows
<1>3. PICK used : used = getUsedProxyPorts(ctx[r].node)
  OBVIOUS
<1>4. getUsedProxyPorts(ctx[r].node) =
          {proxy_port'[d] : d \in {e \in Depl : /\ node_id'[e] = ctx[r].node
                                               /\ status'[e] \in Status \ {"deleted", "stopped"}}}
  BY <1>1 DEF getUsedProxyPorts, rows
<1>5. CASE ctx[r].port # 0
  <2>1. Goto(r, "assign", ctx[r])
    BY <1>5 DEF ScheduleDeployment, SchedulePort
  <2>2. ctx'[r] = ctx[r]
    BY <1>1, <2>1, GotoShape
  <2> QED BY <1>1, <1>2, <2>2 DEF rows
<1>6. CASE ctx[r].port = 0 /\ Port \subseteq used
  <2>1. Done(r)
    BY <1>3, <1>6 DEF ScheduleDeployment, SchedulePort
  <2> QED BY <1>1, <2>1, DoneAfter
<1>7. CASE ctx[r].port = 0 /\ ~(Port \subseteq used)
  <2> DEFINE c == [ctx[r] EXCEPT !.port = AllocatePort(used)]
  <2>1. Goto(r, "assign", c)
    BY <1>3, <1>7 DEF ScheduleDeployment, SchedulePort
  <2>2. c.port = AllocatePort(used) /\ c.node = ctx[r].node
    BY <1>2 DEF Ctx
  <2> HIDE DEF c
  <2>3. ctx'[r].port = AllocatePort(used) /\ ctx'[r].node = ctx[r].node
    BY <1>1, <2>1, <2>2, GotoShape
  <2>4. AllocatePort(used) \notin used
    BY <1>7, AllocatedPortIsFree
  <2>5. getUsedProxyPorts(ctx[r].node)' = used
    BY <1>3, <1>4, <2>3 DEF getUsedProxyPorts
  <2> QED BY <2>3, <2>4, <2>5
<1> QED BY <1>5, <1>6, <1>7

LEMMA NextPortInv ==
    ASSUME PatchStatus = {}, PatchNode = {}, PatchPort = {}, "store" \notin Faults
    PROVE  PortInv /\ [Next /\ OneAtATime' /\ AssignFollows]_vars => PortInv'
<1> SUFFICES ASSUME PortInv, [Next /\ OneAtATime' /\ AssignFollows]_vars PROVE PortInv'
  OBVIOUS
<1>1. RunInv /\ RunInv' /\ TypeInv
  <2>1. [Next /\ OneAtATime']_vars
    OBVIOUS
  <2> QED BY <2>1, NextRunInv DEF PortInv, RunInv, SerialInv, BaseInv
<1>2. ASSUME NEW r \in Req, Client(r), AssignFollows PROVE PortInv'
  <2>1. \A q \in Req : pc'[q] # "assign"
    BY <1>1, <1>2, ClientHolds, ClientShape DEF AssignFollows, SameRequest
  <2> QED BY <1>1, <2>1 DEF PortInv
<1>3. ASSUME NEW r \in Req, Step(r), AssignFollows PROVE PortInv'
  <2>1. pc'[r] = "assign" => ScheduleDeployment(r)
    <3>1. pc'[r] = "assign" => pc[r] = "schedule"
      BY <1>1, <1>3, ContinueLabels
    <3>2. ~StoreFails(r) /\ (ScheduleFails(r) => pc'[r] = "check")
      BY <1>1, CallTransitionAfter DEF StoreFails, ScheduleFails
    <3> QED BY <1>3, <3>1, <3>2
            DEF Step, Continue, Insert, TransitionCheck, TransitionUpdate,
                TransitionReturn, AssignNode, StartDeployment, StartDeploymentFails,
                StopDeployment, DeleteDeployment, RecordEvent, VerifyDelete, EraseRow
  <2>2. \A q \in Req \ {r} : pc'[q] # "assign"
    BY <1>1, <1>3, ContinueShape DEF After, AssignFollows, SameRequest
  <2> QED BY <1>1, <2>1, <2>2, ScheduledPortIsFree DEF PortInv
<1>4. ASSUME UNCHANGED rows, \A q \in Req : SameRequest(q) \/ pc'[q] = "idle"
      PROVE  PortInv'
  <2>1. \A q \in Req : pc'[q] = "assign" => SameRequest(q)
    BY <1>4
  <2> QED BY <1>1, <1>4, <2>1 DEF PortInv, getUsedProxyPorts, SameRequest, rows
<1>5. ASSUME Crash \/ \E r \in Req : Disconnect(r) PROVE PortInv'
  BY <1>1, <1>4, <1>5, FaultShape
<1>6. ASSUME NEW d \in Depl, Patch(d) PROVE PortInv'
  <2>1. UNCHANGED rows /\ UNCHANGED <<pc, ctx>>
    BY <1>1, <1>6 DEF Patch, TypeInv, TypeOK, rows
  <2> QED BY <1>4, <2>1 DEF SameRequest
<1>7. CASE UNCHANGED vars
  BY <1>4, <1>7 DEF vars, SameRequest, rows
<1> QED BY <1>2, <1>3, <1>5, <1>6, <1>7 DEF Next, Step

\* A port changes only when scheduleDeployment writes what it has allocated.
LEMMA StepTakesFreePort ==
    ASSUME PatchStatus = {}, PatchNode = {}, PatchPort = {},
           PortInv, [Next]_vars, NEW d \in Depl, proxy_port'[d] # proxy_port[d],
           NEW e \in Depl \ {d}, status[e] \in Status \ {"stopped", "deleted"},
           node_id[e] = node_id[d]
    PROVE  proxy_port[e] # proxy_port'[d]
<1>1. TypeInv
  BY DEF PortInv, RunInv, SerialInv, BaseInv
<1>2. PICK r \in Req : Step(r)
  <2>1. ~Crash /\ \A r \in Req : ~Disconnect(r)
    BY <1>1, FaultShape DEF rows
  <2>2. \A r \in Req : ~Client(r)
    BY <1>1, ClientShape DEF rows
  <2>3. \A f \in Depl : ~Patch(f)
    BY <1>1 DEF Patch, TypeInv, TypeOK
  <2> QED BY <2>1, <2>2, <2>3 DEF Next, Step, vars
<1>3. d = ctx[r].d
  BY <1>1, <1>2, ContinueShape DEF SameDeployment
<1>4. AssignNode(r)
  BY <1>2 DEF Step, Continue, Insert, TransitionCheck, TransitionUpdate,
              TransitionReturn, ScheduleFails, ScheduleDeployment, SchedulePort,
              StartDeployment, StartDeploymentFails, StopDeployment,
              DeleteDeployment, RecordEvent, VerifyDelete, EraseRow, StoreFails, rows
<1>5. pc[r] = "assign" /\ proxy_port'[d] = ctx[r].port
  BY <1>1, <1>3, <1>4 DEF AssignNode, TypeInv, TypeOK
<1>6. ctx[r].port \notin getUsedProxyPorts(node_id[d])
  BY <1>3, <1>5 DEF PortInv, RunInv, StayInv, HomeInv, Unmoved, Commands
<1>7. proxy_port[e] \in getUsedProxyPorts(node_id[d])
  BY DEF getUsedProxyPorts
<1> QED BY <1>5, <1>6, <1>7

\* When requests about the same deployment do not overlap, nothing comes between
\* scheduleDeployment's look at the used ports and its Update, and the used
\* ports can be read, the port it writes is free on the node: through crashes
\* and cancelled requests, and for any range of ports.
THEOREM AllocatedPortsAreFree ==
    ASSUME PatchStatus = {}, PatchNode = {}, PatchPort = {}, "store" \notin Faults
    PROVE  AtomicAssignSpec => PortWasFree
<1>1. Init => PortInv
  BY InitRunInv DEF PortInv, Init
<1>2. PortInv /\ [Next /\ OneAtATime' /\ AssignFollows]_vars => PortInv'
  BY NextPortInv
<1>3. PortInv /\ [Next /\ OneAtATime' /\ AssignFollows]_vars =>
        [\A d \in Depl : proxy_port'[d] # proxy_port[d] =>
          \A e \in Depl \ {d} :
              /\ status[e] \in Status \ {"stopped", "deleted"}
              /\ node_id[e] = node_id[d]
              => proxy_port[e] # proxy_port'[d]]_proxy_port
  <2> SUFFICES ASSUME PortInv, [Next]_vars
               PROVE  \A d \in Depl : proxy_port'[d] # proxy_port[d] =>
                        \A e \in Depl \ {d} :
                            /\ status[e] \in Status \ {"stopped", "deleted"}
                            /\ node_id[e] = node_id[d]
                            => proxy_port[e] # proxy_port'[d]
    OBVIOUS
  <2> QED BY StepTakesFreePort
<1> QED BY <1>1, <1>2, <1>3, PTL DEF AtomicAssignSpec, PortWasFree
=============================================================================
