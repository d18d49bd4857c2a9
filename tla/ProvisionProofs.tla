-------------------------- MODULE ProvisionProofs --------------------------
(***************************************************************************)
(* The theorems of ProvisionLifecycle, for any number of provisions,       *)
(* instances, nodes and requests, and any size of the worker's batch.      *)
(***************************************************************************)
EXTENDS ProvisionLifecycle, FiniteSetTheorems, WellFoundedInduction,
        TLAPS

(***************************************************************************)
(* Types.  TypeOK is not inductive: what is written into status is the     *)
(* local variable to, the rows that are written are those of the local     *)
(* variable p, and a step of the worker needs a row of its snapshot.       *)
(***************************************************************************)
OKFor(l, c) ==
    /\ l \notin {"idle", "step"} => c.p \in Prov
    /\ l \in {"check", "update", "readback"} => c.to \in Status
    /\ l = "step" => c.todo # {}

ActorsOK == \A a \in Actor : OKFor(pc[a], ctx[a])

TypeInv == TypeOK /\ ActorsOK

(***************************************************************************)
(* What the steps have in common.  Most of them leave the table alone and  *)
(* take one actor to another label: it returns, goes on with its snapshot, *)
(* picks the next row of it, accepts a request, or goes on with the        *)
(* provision it is at.                                                     *)
(***************************************************************************)
InHandler(a) == pc[a] \notin {"idle", "step"}

Resumes(a, c) ==
    /\ c.p = 0 /\ c.todo # {}
    /\ \/ c.todo \subseteq ctx[a].todo
       \/ \A x \in c.todo : /\ Exists(x.p)
                            /\ x.status = status[x.p] /\ x.inst = instance[x.p]

Takes(a, c) ==
    /\ a = Worker /\ pc[a] = "step" /\ CurrentRow \in ctx[a].todo
    /\ c.p = CurrentRow.p /\ c.todo = ctx[a].todo \ {CurrentRow}

Picks(a, l, c) ==
    /\ Takes(a, c)
    /\ \/ l = "check" /\ c.to \in Status \ {"ready"}
       \/ l = "link" /\ c.node \in NodeId

Asks(a, l, c) ==
    /\ pc[a] = "idle"
    /\ c.p \in Prov /\ Exists(c.p) /\ c.todo = {}
    /\ l = "erase" \/ (l = "check" /\ c.to \in Targets \cup {"destroying", "pending"})

Keeps(a, c) == InHandler(a) /\ c.p = ctx[a].p /\ c.todo = ctx[a].todo

\* Without a write, "ready" is asked for when the row is gone.
GoesOn(a, l, c) ==
    /\ Keeps(a, c)
    /\ \/ l \in {"unlink", "erase", "verify"}
       \/ /\ l = "check" /\ c.to \in Status
          /\ c.to = "ready" => ~Exists(ctx[a].p)
       \/ /\ l = "update" /\ c.to \in Status
          /\ CanTransition(status[c.p], c.to)
          /\ pc[a] = "check" /\ c.to = ctx[a].to
       \/ /\ l = "destroy" /\ c.inst = instance[c.p]
          /\ pc[a] = "readback" /\ ctx[a].to = "destroying"

Moves(a, l, c) ==
    \/ l = "idle" /\ c = Blank
    \/ l = "step" /\ Resumes(a, c)
    \/ Picks(a, l, c) \/ Asks(a, l, c) \/ GoesOn(a, l, c)

Moving(a) == \E l \in Labels, c \in Ctx : Moves(a, l, c) /\ Goto(a, l, c)

-----------------------------------------------------------------------------
\* A non-empty set of naturals has a least element.
LEMMA LeastNatural ==
    ASSUME NEW T \in SUBSET Nat, T # {}
    PROVE  \E n \in T : \A m \in T : n <= m
<1> DEFINE R == {ss \in Nat \X Nat : ss[1] < ss[2]}
<1>1. R = OpToRel(<, Nat)
  BY DEF OpToRel
<1>2. IsWellFoundedOn(R, Nat)
  BY <1>1, NatLessThanWellFounded, Zenon
<1>3. PICK n \in T : \A m \in T : ~(<<m, n>> \in R)
  <2> HIDE DEF R
  <2> QED BY <1>2, WFMin, Zenon
<1>4. \A m \in T : ~(m < n)
  BY <1>3
<1> QED BY <1>3, <1>4

\* A step of the worker finds the row of its snapshot with the least id.
LEMMA CurrentRowIsThere ==
    ASSUME TypeInv, pc[Worker] = "step"
    PROVE  CurrentRow \in ctx[Worker].todo /\ CurrentRow \in Row
<1> DEFINE todo == ctx[Worker].todo
           ids == {x.p : x \in todo}
<1>1. todo \subseteq Row /\ todo # {}
  BY DEF TypeInv, TypeOK, ActorsOK, OKFor, Actor, Ctx
<1>2. ids \in SUBSET Nat /\ ids # {}
  <2>1. \A x \in todo : x.p \in Nat
    BY <1>1, ConstantsAssumption DEF Row, Prov
  <2> QED BY <1>1, <2>1
<1>3. PICK n \in ids : \A m \in ids : n <= m
  <2> HIDE DEF ids
  <2> QED BY <1>2, LeastNatural
<1>4. PICK x \in todo : x.p = n
  BY <1>3
<1>5. \A y \in todo : x.p <= y.p
  BY <1>3, <1>4
<1> HIDE DEF todo
<1>6. CurrentRow \in todo
  <2>1. CurrentRow = CHOOSE z \in todo : \A y \in todo : z.p <= y.p
    BY DEF CurrentRow, todo
  <2> QED BY <1>4, <1>5, <2>1
<1> QED BY <1>1, <1>6 DEF todo

\* The context of an actor has its type.
LEMMA ContextType ==
    ASSUME TypeInv, NEW a \in Actor
    PROVE  /\ ctx[a] \in Ctx /\ ctx[a].todo \subseteq Row
           /\ pc[a] \in Labels
           /\ InHandler(a) => ctx[a].p \in Prov
           /\ pc[a] \in {"check", "update", "readback"} => ctx[a].to \in Status
BY DEF TypeInv, TypeOK, ActorsOK, OKFor, Ctx, InHandler

\* A blank context is a context.
LEMMA BlankType ==
    /\ Blank \in Ctx /\ Blank.p = 0 /\ Blank.todo = {} /\ Blank.op = "none"
    /\ "idle" \in Labels
BY DEF Blank, Ctx, Ops, Callers, Labels

\* A handler that returns moves to "idle".
LEMMA ReturnMoves ==
    ASSUME NEW a \in Actor, Return(a)
    PROVE  Moving(a)
BY BlankType DEF Return, Moving, Moves

\* The end of a handler.
LEMMA DoneMoves ==
    ASSUME TypeInv, NEW a \in Actor, InHandler(a), Done(a)
    PROVE  Moving(a)
<1>1. ctx[a] \in Ctx /\ ctx[a].todo \subseteq Row /\ {"verify", "step"} \subseteq Labels
  BY ContextType DEF Labels
<1>2. CASE ctx[a].todo # {}
  <2> DEFINE c == [Blank EXCEPT !.op = "cycle", !.todo = ctx[a].todo]
  <2>1. c \in Ctx /\ c.p = 0 /\ c.todo = ctx[a].todo
    BY <1>1, BlankType DEF Blank, Ctx, Ops
  <2>2. Goto(a, "step", c)
    BY <1>2 DEF Done
  <2> HIDE DEF c
  <2>3. Moves(a, "step", c)
    BY <1>2, <2>1 DEF Moves, Resumes
  <2> QED BY <1>1, <2>1, <2>2, <2>3 DEF Moving
<1>3. CASE ctx[a].todo = {} /\ ctx[a].op = "delete"
  <2>1. Goto(a, "verify", ctx[a])
    BY <1>3 DEF Done
  <2>2. Moves(a, "verify", ctx[a])
    BY DEF Moves, GoesOn, Keeps
  <2> QED BY <1>1, <2>1, <2>2 DEF Moving
<1>4. CASE ctx[a].todo = {} /\ ctx[a].op # "delete"
  <2>1. Return(a)
    BY <1>4 DEF Done
  <2> QED BY <2>1, ReturnMoves
<1> QED BY <1>2, <1>3, <1>4

\* A call of Transition out of a handler.
LEMMA CallMoves ==
    ASSUME TypeInv, NEW a \in Actor, InHandler(a), NEW by \in Callers, NEW to \in Status,
           to = "ready" => ~Exists(ctx[a].p),
           CallTransition(a, by, to)
    PROVE  Moving(a)
<1> DEFINE c == [ctx[a] EXCEPT !.by = by, !.to = to]
<1>1. ctx[a] \in Ctx /\ "check" \in Labels
  BY ContextType DEF Labels
<1>2. c \in Ctx /\ c.p = ctx[a].p /\ c.todo = ctx[a].todo /\ c.to = to
  BY <1>1 DEF Ctx
<1>3. Goto(a, "check", c)
  BY DEF CallTransition
<1> HIDE DEF c
<1>4. Moves(a, "check", c)
  BY <1>2 DEF Moves, GoesOn, Keeps
<1> QED BY <1>1, <1>2, <1>3, <1>4 DEF Moving

\* An error of Transition.
LEMMA RefusedMoves ==
    ASSUME TypeInv, NEW a \in Actor, InHandler(a), Refused(a)
    PROVE  Moving(a)
<1>1. ctx[a] \in Ctx /\ {"erase", "unlink"} \subseteq Labels
  BY ContextType DEF Labels
<1>2. \/ Goto(a, "erase", ctx[a]) \/ Goto(a, "unlink", ctx[a])
      \/ Return(a) \/ Done(a)
  BY DEF Refused
<1>3. Moves(a, "erase", ctx[a]) /\ Moves(a, "unlink", ctx[a])
  BY DEF Moves, GoesOn, Keeps
<1>4. CASE Goto(a, "erase", ctx[a]) \/ Goto(a, "unlink", ctx[a])
  BY <1>1, <1>3, <1>4 DEF Moving
<1> QED BY <1>2, <1>4, ReturnMoves, DoneMoves

\* Transition succeeded: the command of "destroying" gets the row map.
LEMMA DispatchedMoves ==
    ASSUME TypeInv, NEW a \in Actor, pc[a] = "readback", Dispatched(a)
    PROVE  Moving(a)
<1> DEFINE c == [ctx[a] EXCEPT !.inst = instance[ctx[a].p], !.node = node_id[ctx[a].p]]
<1>1. ctx[a] \in Ctx /\ {"destroy", "unlink"} \subseteq Labels /\ InHandler(a)
  BY ContextType DEF Labels, InHandler
<1>2. instance[ctx[a].p] \in Instance \cup {NoInst} /\ node_id[ctx[a].p] \in NodeId \cup {NoNode}
  BY <1>1, ContextType DEF TypeInv, TypeOK
<1>3. c \in Ctx /\ c.p = ctx[a].p /\ c.todo = ctx[a].todo /\ c.inst = instance[ctx[a].p]
  BY <1>1, <1>2 DEF Ctx
<1>4. \/ ctx[a].to = "destroying" /\ Goto(a, "destroy", c)
      \/ Goto(a, "unlink", ctx[a])
      \/ Done(a)
  BY DEF Dispatched
<1> HIDE DEF c
<1>5. CASE ctx[a].to = "destroying" /\ Goto(a, "destroy", c)
  <2>1. Moves(a, "destroy", c)
    BY <1>1, <1>3, <1>5 DEF Moves, GoesOn, Keeps
  <2> QED BY <1>1, <1>3, <1>5, <2>1 DEF Moving
<1>6. CASE Goto(a, "unlink", ctx[a])
  <2>1. Moves(a, "unlink", ctx[a])
    BY <1>1 DEF Moves, GoesOn, Keeps
  <2> QED BY <1>1, <1>6, <2>1 DEF Moving
<1> QED BY <1>1, <1>4, <1>5, <1>6, DoneMoves

-----------------------------------------------------------------------------
\* The rows of the table that control reads.
Table == <<status, instance, node_id>>

\* An instance stays with the provision it was made for.
OwnersKept ==
    \A i \in Instance, p \in Prov : cloud[i] \in {p, -1} => cloud'[i] \in {p, -1}

\* The step leaves what no other action reads with its type.
OthersTyped ==
    /\ completed' \in [Prov -> BOOLEAN]
    /\ old' \in [Prov -> BOOLEAN]
    /\ cloud' \in [Instance -> Prov \cup {0, -1}]
    /\ nodes' \in [NodeId -> Instance \cup {NoInst, Unused, Gone}]

\* What went wrong with a node_id is not forgotten.
MarksKept == unlinked \subseteq unlinked' /\ unlinked' \subseteq Prov

(***************************************************************************)
(* The kinds of steps.                                                     *)
(***************************************************************************)
Quiet(a) == Moving(a) /\ UNCHANGED Table

Launches ==
    \E c \in Ctx :
        /\ Takes(Worker, c)
        /\ c.inst \in Instance /\ cloud'[c.inst] = c.p
        /\ Goto(Worker, "record", c)
        /\ UNCHANGED Table

Updates(a) ==
    /\ pc[a] = "update" /\ Exists(ctx[a].p)
    /\ status' = [status EXCEPT ![ctx[a].p] = ctx[a].to]
    /\ Goto(a, "readback", ctx[a])
    /\ UNCHANGED <<instance, node_id>>

Records ==
    /\ pc[Worker] = "record" /\ Exists(ctx[Worker].p)
    /\ instance' = [instance EXCEPT ![ctx[Worker].p] = ctx[Worker].inst]
    /\ \E c \in Ctx : Keeps(Worker, c) /\ c.to = "creating" /\ Goto(Worker, "check", c)
    /\ UNCHANGED <<status, node_id>>

\* The node is recorded, or it is remembered that it could not be.
Links ==
    /\ pc[Worker] = "link"
    /\ \/ node_id' = [node_id EXCEPT ![ctx[Worker].p] = ctx[Worker].node]
       \/ node_id' = node_id /\ ctx[Worker].p \in unlinked'
    /\ \E c \in Ctx : Keeps(Worker, c) /\ c.to = "ready" /\ Goto(Worker, "check", c)
    /\ UNCHANGED <<status, instance>>

Erases(a) ==
    /\ pc[a] = "erase" /\ Exists(ctx[a].p)
    /\ status' = [status EXCEPT ![ctx[a].p] = Erased]
    /\ Return(a)
    /\ UNCHANGED <<instance, node_id>>

\* The process dies.
Dies ==
    /\ pc' = [a \in Actor |-> "idle"]
    /\ ctx' = [a \in Actor |-> Blank]
    /\ UNCHANGED Table

ActorStep(a) == Quiet(a) \/ Updates(a) \/ Erases(a)

Kind ==
    \/ \E a \in Actor : ActorStep(a)
    \/ Launches \/ Records \/ Links
    \/ CreateProvision
    \/ \E p \in Prov : Patch(p)
    \/ Dies
    \/ UNCHANGED <<Table, pc, ctx>>

\* Nothing is heard of the provider and the nodes.
LEMMA QuietCloud ==
    ASSUME TypeInv, UNCHANGED <<completed, old, cloud, nodes>>
    PROVE  OwnersKept /\ OthersTyped
BY DEF TypeInv, TypeOK, OwnersKept, OthersTyped

\* The provider destroys an instance.
LEMMA DestroyCloud ==
    ASSUME TypeInv, NEW i \in Instance, DestroyInstance(i)
    PROVE  OwnersKept /\ cloud' \in [Instance -> Prov \cup {0, -1}]
<1>1. cloud' = [cloud EXCEPT ![i] = IF Live(i) THEN -1 ELSE cloud[i]]
  BY DEF DestroyInstance
<1> QED BY <1>1 DEF TypeInv, TypeOK, OwnersKept

\* The provider makes an instance.
LEMMA LaunchCloud ==
    ASSUME TypeInv, NEW i \in Instance, NEW p \in Prov, LaunchInstance(i, p)
    PROVE  /\ OwnersKept /\ cloud' \in [Instance -> Prov \cup {0, -1}]
           /\ cloud'[i] = p
<1>1. 0 \notin Prov /\ -1 # 0
  BY ConstantsAssumption DEF Prov
<1> QED BY <1>1 DEF TypeInv, TypeOK, OwnersKept, LaunchInstance

\* The local variables of a step function.
LEMMA RowCtxType ==
    ASSUME TypeInv, pc[Worker] = "step"
    PROVE  /\ RowCtx \in Ctx /\ Takes(Worker, RowCtx)
           /\ RowCtx.inst = CurrentRow.inst
           /\ CurrentRow.p \in Prov /\ CurrentRow.inst \in Instance \cup {NoInst}
<1>1. CurrentRow \in ctx[Worker].todo /\ CurrentRow \in Row
  BY CurrentRowIsThere
<1>2. CurrentRow.p \in Prov /\ CurrentRow.inst \in Instance \cup {NoInst}
  BY <1>1 DEF Row
<1>3. ctx[Worker].todo \subseteq Row
  BY ContextType DEF Actor
<1>4. /\ RowCtx \in Ctx /\ RowCtx.inst = CurrentRow.inst /\ RowCtx.p = CurrentRow.p
      /\ RowCtx.todo = ctx[Worker].todo \ {CurrentRow}
  BY <1>2, <1>3, BlankType DEF RowCtx, Blank, Ctx, Ops
<1> QED BY <1>1, <1>2, <1>4 DEF Takes

\* A step function that ends with a call of Transition.
LEMMA StepTransitionMoves ==
    ASSUME TypeInv, pc[Worker] = "step", NEW by \in Callers, NEW to \in Status \ {"ready"},
           StepTransition(by, to)
    PROVE  Moving(Worker)
<1> DEFINE c == [RowCtx EXCEPT !.by = by, !.to = to]
<1>1. RowCtx \in Ctx /\ Takes(Worker, RowCtx)
  BY RowCtxType
<1>2. c \in Ctx /\ c.p = RowCtx.p /\ c.todo = RowCtx.todo /\ c.to = to
  BY <1>1 DEF Ctx
<1>3. Goto(Worker, "check", c)
  BY DEF StepTransition
<1> HIDE DEF c
<1>4. Moves(Worker, "check", c)
  BY <1>1, <1>2 DEF Moves, Picks, Takes
<1> QED BY <1>2, <1>3, <1>4 DEF Moving, Labels

\* A step function that leaves the row alone.
LEMMA StepSkipMoves ==
    ASSUME TypeInv, pc[Worker] = "step", StepSkip
    PROVE  Moving(Worker)
<1> DEFINE c == [Blank EXCEPT !.op = "cycle", !.todo = RowCtx.todo]
<1>1. RowCtx \in Ctx /\ Takes(Worker, RowCtx)
  BY RowCtxType
<1>2. RowCtx.todo \in SUBSET Row
  BY <1>1 DEF Ctx
<1>3. c \in Ctx /\ c.p = 0 /\ c.todo = RowCtx.todo
  BY <1>2, BlankType DEF Blank, Ctx, Ops
<1>4. Return(Worker) \/ (RowCtx.todo # {} /\ Goto(Worker, "step", c))
  BY DEF StepSkip
<1>5. CASE RowCtx.todo # {} /\ Goto(Worker, "step", c)
  <2> HIDE DEF c
  <2>1. c.todo # {} /\ c.todo \subseteq ctx[Worker].todo
    BY <1>1, <1>3, <1>5 DEF Takes
  <2>2. Moves(Worker, "step", c)
    BY <1>3, <2>1 DEF Moves, Resumes
  <2> QED BY <1>3, <1>5, <2>2 DEF Moving, Labels
<1> QED BY <1>4, <1>5, ReturnMoves DEF Actor

-----------------------------------------------------------------------------
(***************************************************************************)
(* Every step is of one of the kinds.                                      *)
(***************************************************************************)
Classified == Kind /\ OwnersKept /\ OthersTyped

\* Store.Transition.
LEMMA TransitionKind ==
    ASSUME TypeInv, NEW a \in Actor, Transition(a)
    PROVE  Classified
<1>1. OwnersKept /\ OthersTyped
  <2>1. UNCHANGED <<completed, old, cloud, nodes>>
    BY DEF Transition, TransitionCheck, TransitionUpdate, TransitionReturn, rows
  <2> QED BY <2>1, QuietCloud
<1>2. pc[a] \in {"check", "update", "readback"} /\ InHandler(a)
  BY DEF Transition, TransitionCheck, TransitionUpdate, TransitionReturn, InHandler
<1>3. CASE TransitionCheck(a)
  <2>1. UNCHANGED Table
    BY <1>3 DEF TransitionCheck, rows, Table
  <2>2. \/ Refused(a)
        \/ /\ pc[a] = "check" /\ CanTransition(status[ctx[a].p], ctx[a].to)
           /\ Goto(a, "update", ctx[a])
    BY <1>3 DEF TransitionCheck
  <2>3. CASE Refused(a)
    BY <1>1, <1>2, <2>1, <2>3, RefusedMoves DEF Classified, Kind, ActorStep, Quiet
  <2>4. CASE /\ pc[a] = "check" /\ CanTransition(status[ctx[a].p], ctx[a].to)
             /\ Goto(a, "update", ctx[a])
    <3>1. ctx[a] \in Ctx /\ ctx[a].to \in Status
      BY <1>2, ContextType
    <3>2. Moves(a, "update", ctx[a])
      BY <1>2, <2>4, <3>1 DEF Moves, GoesOn, Keeps
    <3>3. Moving(a)
      BY <2>4, <3>1, <3>2 DEF Moving, Labels
    <3> QED BY <1>1, <2>1, <3>3 DEF Classified, Kind, ActorStep, Quiet
  <2> QED BY <2>2, <2>3, <2>4
<1>4. CASE TransitionUpdate(a)
  <2>1. CASE Exists(ctx[a].p)
    <3>1. Updates(a)
      BY <1>4, <2>1 DEF TransitionUpdate, Updates
    <3> QED BY <1>1, <3>1 DEF Classified, Kind, ActorStep
  <2>2. CASE ~Exists(ctx[a].p)
    <3>1. Refused(a) /\ UNCHANGED Table
      BY <1>4, <2>2 DEF TransitionUpdate, Table
    <3> QED BY <1>1, <1>2, <3>1, RefusedMoves DEF Classified, Kind, ActorStep, Quiet
  <2> QED BY <2>1, <2>2
<1>5. CASE TransitionReturn(a)
  <2>1. UNCHANGED Table /\ pc[a] = "readback" /\ (Dispatched(a) \/ Refused(a))
    BY <1>5 DEF TransitionReturn, rows, Table
  <2>2. Moving(a)
    BY <1>2, <2>1, DispatchedMoves, RefusedMoves
  <2> QED BY <1>1, <2>1, <2>2 DEF Classified, Kind, ActorStep, Quiet
<1> QED BY <1>3, <1>4, <1>5 DEF Transition

\* The worker takes a snapshot.
LEMMA RunCycleKind ==
    ASSUME TypeInv, RunCycle
    PROVE  Classified
<1> DEFINE first == {p \in Active : Cardinality({q \in Active : q < p}) < Batch}
           snapshot == {[p |-> p, status |-> status[p], inst |-> instance[p]] : p \in first}
           c == [Blank EXCEPT !.op = "cycle", !.todo = snapshot]
<1>1. OwnersKept /\ OthersTyped /\ UNCHANGED Table
  <2>1. UNCHANGED <<completed, old, cloud, nodes>> /\ UNCHANGED Table
    BY DEF RunCycle, rows, Table
  <2> QED BY <2>1, QuietCloud
<1>2. Goto(Worker, "step", c) /\ Active # {}
  BY DEF RunCycle
<1>3. first \subseteq Prov /\ \A p \in first : status[p] \in Status
  BY DEF Active, Status
<1>4. /\ snapshot \subseteq Row
      /\ \A x \in snapshot : Exists(x.p) /\ x.status = status[x.p] /\ x.inst = instance[x.p]
  <2> HIDE DEF first
  <2>1. \A p \in first : instance[p] \in Instance \cup {NoInst}
    BY <1>3 DEF TypeInv, TypeOK
  <2> QED BY <1>3, <2>1 DEF Row, Exists
<1>5. Active \in SUBSET Nat /\ Batch \in Nat /\ 0 < Batch
  BY ConstantsAssumption DEF Active, Prov
<1>6. first # {}
  <2>1. PICK n \in Active : \A m \in Active : n <= m
    BY <1>2, <1>5, LeastNatural
  <2>2. \A q \in Active : ~(q < n)
    BY <1>5, <2>1
  <2>3. {q \in Active : q < n} = {}
    BY <2>2
  <2>4. Cardinality({q \in Active : q < n}) = 0
    BY <2>3, FS_EmptySet
  <2> QED BY <1>5, <2>1, <2>4
<1>7. snapshot # {}
  BY <1>6
<1> HIDE DEF snapshot
<1>8. c \in Ctx /\ c.p = 0 /\ c.todo = snapshot
  BY <1>4, BlankType DEF Blank, Ctx, Ops
<1> HIDE DEF c
<1>9. Moves(Worker, "step", c)
  BY <1>4, <1>7, <1>8 DEF Moves, Resumes
<1>10. Moving(Worker)
  BY <1>2, <1>8, <1>9 DEF Moving, Labels
<1> QED BY <1>1, <1>10 DEF Classified, Kind, ActorStep, Quiet, Actor

\* The step functions of the worker.
LEMMA StepKind ==
    ASSUME TypeInv, Step
    PROVE  Classified
<1> USE DEF Actor
<1>1. CASE StepCreate
  <2>1. pc[Worker] = "step" /\ UNCHANGED Table /\ UNCHANGED <<completed, old, nodes>>
    BY <1>1 DEF StepCreate, Stepping, rows, Table
  <2>2. PICK i \in Instance : /\ LaunchInstance(i, CurrentRow.p)
                              /\ Goto(Worker, "record", [RowCtx EXCEPT !.inst = i])
    BY <1>1 DEF StepCreate
  <2> DEFINE c == [RowCtx EXCEPT !.inst = i]
  <2>3. RowCtx \in Ctx /\ Takes(Worker, RowCtx) /\ CurrentRow.p \in Prov
    BY <2>1, RowCtxType
  <2>4. c \in Ctx /\ c.inst = i /\ c.p = RowCtx.p /\ c.todo = RowCtx.todo
    BY <2>3 DEF Ctx
  <2>5. OwnersKept /\ cloud' \in [Instance -> Prov \cup {0, -1}] /\ cloud'[i] = CurrentRow.p
    BY <2>2, <2>3, LaunchCloud
  <2>6. Goto(Worker, "record", c)
    BY <2>2
  <2> HIDE DEF c
  <2>7. Takes(Worker, c) /\ c.p = CurrentRow.p
    BY <2>3, <2>4 DEF Takes
  <2>8. Launches
    BY <2>1, <2>4, <2>5, <2>6, <2>7 DEF Launches
  <2>9. OthersTyped
    BY <2>1, <2>5 DEF OthersTyped, TypeInv, TypeOK
  <2> QED BY <2>5, <2>8, <2>9 DEF Classified, Kind
<1>2. CASE StepCreateFails
  <2>1. /\ pc[Worker] = "step" /\ UNCHANGED Table /\ UNCHANGED <<completed, old, nodes>>
        /\ StepTransition("fail", "failed")
    BY <1>2 DEF StepCreateFails, Stepping, rows, Table
  <2>2. Moving(Worker)
    BY <2>1, StepTransitionMoves DEF Callers, Status
  <2>3. OwnersKept /\ cloud' \in [Instance -> Prov \cup {0, -1}]
    <3>1. CASE UNCHANGED cloud
      BY <3>1 DEF OwnersKept, TypeInv, TypeOK
    <3>2. CASE \E i \in Instance : LaunchInstance(i, CurrentRow.p)
      <4>1. CurrentRow.p \in Prov
        BY <2>1, RowCtxType
      <4> QED BY <3>2, <4>1, LaunchCloud
    <3> QED BY <1>2, <3>1, <3>2 DEF StepCreateFails
  <2>4. OthersTyped
    BY <2>1, <2>3 DEF OthersTyped, TypeInv, TypeOK
  <2> QED BY <2>1, <2>2, <2>3, <2>4 DEF Classified, Kind, ActorStep, Quiet
<1>3. CASE RecordInstance
  <2>1. /\ pc[Worker] = "record" /\ CallTransition(Worker, "step", "creating")
        /\ UNCHANGED <<completed, old, cloud, nodes>> /\ UNCHANGED <<status, node_id>>
    BY <1>3 DEF RecordInstance
  <2>2. OwnersKept /\ OthersTyped
    BY <2>1, QuietCloud
  <2>3. CASE Exists(ctx[Worker].p)
    <3> DEFINE c == [ctx[Worker] EXCEPT !.by = "step", !.to = "creating"]
    <3>1. ctx[Worker] \in Ctx /\ InHandler(Worker)
      BY <2>1, ContextType DEF InHandler
    <3>2. c \in Ctx /\ c.p = ctx[Worker].p /\ c.todo = ctx[Worker].todo /\ c.to = "creating"
      BY <3>1 DEF Ctx, Status, Callers
    <3>3. Goto(Worker, "check", c)
      BY <2>1 DEF CallTransition
    <3> HIDE DEF c
    <3>4. Keeps(Worker, c)
      BY <3>1, <3>2 DEF Keeps
    <3>5. instance' = [instance EXCEPT ![ctx[Worker].p] = ctx[Worker].inst]
      BY <1>3, <2>3 DEF RecordInstance
    <3>6. Records
      BY <2>1, <2>3, <3>2, <3>3, <3>4, <3>5 DEF Records
    <3> QED BY <2>2, <3>6 DEF Classified, Kind
  <2>4. CASE ~Exists(ctx[Worker].p)
    <3>1. UNCHANGED Table
      BY <1>3, <2>1, <2>4 DEF RecordInstance, Table
    <3>2. Moving(Worker)
      BY <2>1, CallMoves DEF InHandler, Callers, Status
    <3> QED BY <2>2, <3>1, <3>2 DEF Classified, Kind, ActorStep, Quiet
  <2> QED BY <2>3, <2>4
<1>4. CASE StepConfigure \/ StepFinalizeTimeout \/ StepFinalizeFails \/ StepDestroyFails
  <2>1. /\ pc[Worker] = "step" /\ UNCHANGED Table /\ UNCHANGED <<completed, old, cloud, nodes>>
        /\ StepTransition("step", "configuring") \/ StepTransition("fail", "failed")
    BY <1>4 DEF StepConfigure, StepFinalizeTimeout, StepFinalizeFails, StepDestroyFails,
                Stepping, rows, Table
  <2>2. Moving(Worker)
    BY <2>1, StepTransitionMoves DEF Callers, Status
  <2>3. OwnersKept /\ OthersTyped
    BY <2>1, QuietCloud
  <2> QED BY <2>1, <2>2, <2>3 DEF Classified, Kind, ActorStep, Quiet
<1>5. CASE StepFinalizeWaits
  <2>1. /\ pc[Worker] = "step" /\ UNCHANGED Table /\ UNCHANGED <<completed, old, cloud, nodes>>
        /\ StepSkip
    BY <1>5 DEF StepFinalizeWaits, Stepping, rows, Table
  <2>2. Moving(Worker) /\ OwnersKept /\ OthersTyped
    BY <2>1, StepSkipMoves, QuietCloud
  <2> QED BY <2>1, <2>2 DEF Classified, Kind, ActorStep, Quiet
<1>6. CASE StepFinalize
  <2>1. pc[Worker] = "step" /\ UNCHANGED Table /\ UNCHANGED <<completed, old, cloud>>
    BY <1>6 DEF StepFinalize, Stepping, rows, Table
  <2>2. PICK n \in NodeId : /\ nodes' = [nodes EXCEPT ![n] = CurrentRow.inst]
                            /\ Goto(Worker, "link", [RowCtx EXCEPT !.node = n])
    BY <1>6 DEF StepFinalize
  <2> DEFINE c == [RowCtx EXCEPT !.node = n]
  <2>3. RowCtx \in Ctx /\ Takes(Worker, RowCtx) /\ CurrentRow.inst \in Instance \cup {NoInst}
    BY <2>1, RowCtxType
  <2>4. c \in Ctx /\ c.node = n /\ c.p = RowCtx.p /\ c.todo = RowCtx.todo
    BY <2>3 DEF Ctx
  <2>5. Goto(Worker, "link", c)
    BY <2>2
  <2> HIDE DEF c
  <2>6. Moves(Worker, "link", c)
    BY <2>3, <2>4 DEF Moves, Picks, Takes
  <2>7. Moving(Worker)
    BY <2>4, <2>5, <2>6 DEF Moving, Labels
  <2>8. OwnersKept /\ OthersTyped
    BY <2>1, <2>2, <2>3 DEF OwnersKept, OthersTyped, TypeInv, TypeOK
  <2> QED BY <2>1, <2>7, <2>8 DEF Classified, Kind, ActorStep, Quiet
<1>7. CASE LinkNode
  <2>1. /\ pc[Worker] = "link" /\ CallTransition(Worker, "step", "ready")
        /\ UNCHANGED <<old, cloud, nodes>> /\ UNCHANGED <<status, instance>>
    BY <1>7 DEF LinkNode
  <2>2. OwnersKept /\ OthersTyped
    <3>1. completed' \in [Prov -> BOOLEAN]
      BY <1>7 DEF LinkNode, TypeInv, TypeOK
    <3> QED BY <2>1, <3>1 DEF OwnersKept, OthersTyped, TypeInv, TypeOK
  <2>3. CASE Exists(ctx[Worker].p)
    <3> DEFINE c == [ctx[Worker] EXCEPT !.by = "step", !.to = "ready"]
    <3>1. ctx[Worker] \in Ctx /\ InHandler(Worker)
      BY <2>1, ContextType DEF InHandler
    <3>2. c \in Ctx /\ c.p = ctx[Worker].p /\ c.todo = ctx[Worker].todo /\ c.to = "ready"
      BY <3>1 DEF Ctx, Status, Callers
    <3>3. Goto(Worker, "check", c)
      BY <2>1 DEF CallTransition
    <3> HIDE DEF c
    <3>4. Keeps(Worker, c)
      BY <3>1, <3>2 DEF Keeps
    <3>5. node_id' = [node_id EXCEPT ![ctx[Worker].p] = ctx[Worker].node]
      BY <1>7, <2>3 DEF LinkNode
    <3>6. Links
      BY <2>1, <2>3, <3>2, <3>3, <3>4, <3>5 DEF Links
    <3> QED BY <2>2, <3>6 DEF Classified, Kind
  <2>4. CASE ~Exists(ctx[Worker].p)
    <3>1. UNCHANGED Table
      BY <1>7, <2>1, <2>4 DEF LinkNode, Table
    <3>2. Moving(Worker)
      BY <2>1, <2>4, CallMoves DEF InHandler, Callers, Status
    <3> QED BY <2>2, <3>1, <3>2 DEF Classified, Kind, ActorStep, Quiet
  <2> QED BY <2>3, <2>4
<1>8. CASE StepDestroy
  <2>1. /\ pc[Worker] = "step" /\ UNCHANGED Table /\ UNCHANGED <<completed, old, nodes>>
        /\ StepTransition("step", "destroyed")
    BY <1>8 DEF StepDestroy, Stepping, rows, Table
  <2>2. Moving(Worker) /\ CurrentRow.inst \in Instance \cup {NoInst}
    BY <2>1, StepTransitionMoves, RowCtxType DEF Callers, Status
  <2>3. UNCHANGED cloud \/ (CurrentRow.inst \in Instance /\ DestroyInstance(CurrentRow.inst))
    BY <1>8, <2>2 DEF StepDestroy, DestroyInstanceFails
  <2>4. OwnersKept /\ cloud' \in [Instance -> Prov \cup {0, -1}]
    <3>1. CASE UNCHANGED cloud
      BY <3>1 DEF OwnersKept, TypeInv, TypeOK
    <3> QED BY <2>3, <3>1, DestroyCloud
  <2>5. OthersTyped
    BY <2>1, <2>4 DEF OthersTyped, TypeInv, TypeOK
  <2> QED BY <2>1, <2>2, <2>4, <2>5 DEF Classified, Kind, ActorStep, Quiet
<1> QED BY <1>1, <1>2, <1>3, <1>4, <1>5, <1>6, <1>7, <1>8 DEF Step

\* What a request does after it was accepted.
LEMMA ContinueKind ==
    ASSUME TypeInv, NEW r \in Req, Continue(r)
    PROVE  Classified
<1> USE DEF Actor
<1>1. CASE Transition(r)
  BY <1>1, TransitionKind
<1>2. CASE DestroyProvision(r) \/ DestroyProvisionFails(r)
  <2>1. pc[r] = "destroy" /\ UNCHANGED Table /\ UNCHANGED <<completed, old, nodes>>
    BY <1>2 DEF DestroyProvision, DestroyProvisionFails, rows, Table
  <2>2. InHandler(r) /\ ctx[r].inst \in Instance \cup {NoInst}
    BY <2>1, ContextType DEF InHandler, Ctx
  <2>3. /\ \/ CallTransition(r, "step", "destroyed") \/ CallTransition(r, "destroyed", "destroyed")
           \/ CallTransition(r, "fail", "failed")
        /\ UNCHANGED cloud \/ (ctx[r].inst \in Instance /\ DestroyInstance(ctx[r].inst))
    BY <1>2, <2>2 DEF DestroyProvision, DestroyProvisionFails, DestroyInstanceFails
  <2>4. Moving(r)
    BY <2>2, <2>3, CallMoves DEF Callers, Status
  <2>5. OwnersKept /\ cloud' \in [Instance -> Prov \cup {0, -1}]
    <3>1. CASE UNCHANGED cloud
      BY <3>1 DEF OwnersKept, TypeInv, TypeOK
    <3> QED BY <2>3, <3>1, DestroyCloud
  <2>6. OthersTyped
    BY <2>1, <2>5 DEF OthersTyped, TypeInv, TypeOK
  <2> QED BY <2>1, <2>4, <2>5, <2>6 DEF Classified, Kind, ActorStep, Quiet
<1>3. CASE DeleteNode(r)
  <2>1. /\ pc[r] = "unlink" /\ Done(r)
        /\ UNCHANGED Table /\ UNCHANGED <<completed, old, cloud>>
    BY <1>3 DEF DeleteNode, rows, Table
  <2>2. Moving(r)
    BY <2>1, DoneMoves DEF InHandler
  <2>3. nodes' \in [NodeId -> Instance \cup {NoInst, Unused, Gone}]
    BY <1>3 DEF DeleteNode, TypeInv, TypeOK
  <2>4. OwnersKept /\ OthersTyped
    BY <2>1, <2>3 DEF OwnersKept, OthersTyped, TypeInv, TypeOK
  <2> QED BY <2>1, <2>2, <2>4 DEF Classified, Kind, ActorStep, Quiet
<1>4. CASE VerifyDelete(r)
  <2>1. /\ pc[r] = "verify" /\ (Return(r) \/ Goto(r, "erase", ctx[r]))
        /\ UNCHANGED Table /\ UNCHANGED <<completed, old, cloud, nodes>>
    BY <1>4 DEF VerifyDelete, rows, Table
  <2>2. ctx[r] \in Ctx /\ Moves(r, "erase", ctx[r])
    <3>1. ctx[r] \in Ctx /\ InHandler(r)
      BY <2>1, ContextType DEF InHandler
    <3> QED BY <3>1 DEF Moves, GoesOn, Keeps
  <2>3. Moving(r)
    <3>1. CASE Goto(r, "erase", ctx[r])
      BY <2>2, <3>1 DEF Moving, Labels
    <3> QED BY <2>1, <3>1, ReturnMoves
  <2> QED BY <2>1, <2>3, QuietCloud DEF Classified, Kind, ActorStep, Quiet
<1>5. CASE EraseRow(r)
  <2>1. /\ pc[r] = "erase" /\ Return(r)
        /\ UNCHANGED <<instance, node_id>> /\ UNCHANGED <<completed, old, cloud, nodes>>
    BY <1>5 DEF EraseRow
  <2>2. OwnersKept /\ OthersTyped
    BY <2>1, QuietCloud
  <2>3. CASE Exists(ctx[r].p)
    <3>1. Erases(r)
      BY <1>5, <2>1, <2>3 DEF EraseRow, Erases
    <3> QED BY <2>2, <3>1 DEF Classified, Kind, ActorStep
  <2>4. CASE ~Exists(ctx[r].p)
    <3>1. UNCHANGED Table
      BY <1>5, <2>1, <2>4 DEF EraseRow, Table
    <3> QED BY <2>1, <2>2, <3>1, ReturnMoves DEF Classified, Kind, ActorStep, Quiet
  <2> QED BY <2>3, <2>4
<1> QED BY <1>1, <1>2, <1>3, <1>4, <1>5 DEF Continue

\* A request is accepted.
LEMMA ClientKind ==
    ASSUME TypeInv, NEW r \in Req, Client(r)
    PROVE  Classified
<1>1. PICK p \in Prov : RetryRequest(r, p) \/ TransitionRequest(r, p) \/ DeleteRequest(r, p)
  BY DEF Client
<1>2. /\ pc[r] = "idle" /\ Exists(p)
      /\ UNCHANGED Table /\ UNCHANGED <<completed, old, cloud, nodes>>
  BY <1>1 DEF RetryRequest, TransitionRequest, DeleteRequest, rows, Table, Exists, Status
<1>3. ASSUME NEW op \in Ops, NEW by \in Callers, NEW to \in Status \cup {"none"},
             NEW l \in {"check", "erase"}, Goto(r, l, Request(op, p, by, to)),
             l = "check" => to \in Targets \cup {"destroying", "pending"}
      PROVE  Moving(r)
  <2> DEFINE c == Request(op, p, by, to)
  <2>1. c \in Ctx /\ c.p = p /\ c.todo = {} /\ c.to = to
    BY BlankType DEF Request, Blank, Ctx
  <2> HIDE DEF c
  <2>2. Moves(r, l, c)
    BY <1>2, <1>3, <2>1 DEF Moves, Asks
  <2>3. Goto(r, l, c) /\ l \in Labels
    BY <1>3 DEF c, Labels
  <2> QED BY <2>1, <2>2, <2>3 DEF Moving
<1>4. Moving(r)
  <2> USE DEF Ops, Callers, Status
  <2>1. CASE RetryRequest(r, p)
    <3>1. RetryTarget(p) \in {"destroying", "pending"}
      BY DEF RetryTarget
    <3>2. Goto(r, "check", Request("retry", p, "api", RetryTarget(p)))
      BY <2>1 DEF RetryRequest
    <3> QED BY <1>3, <3>1, <3>2
  <2>2. CASE TransitionRequest(r, p)
    <3>1. PICK to \in Targets : Goto(r, "check", Request("transition", p, "api", to))
      BY <2>2 DEF TransitionRequest
    <3>2. to \in Status
      BY <3>1, ConstantsAssumption
    <3> QED BY <1>3, <3>1, <3>2
  <2>3. CASE DeleteRequest(r, p)
    <3>1. \/ Goto(r, "check", Request("delete", p, "api", "destroying"))
          \/ Goto(r, "erase", Request("delete", p, "api", "none"))
      BY <2>3 DEF DeleteRequest
    <3> QED BY <1>3, <3>1
  <2> QED BY <1>1, <2>1, <2>2, <2>3
<1> QED BY <1>2, <1>4, QuietCloud DEF Classified, Kind, ActorStep, Quiet, Actor

\* A call fails, a client goes away, the process dies.
LEMMA FaultKind ==
    ASSUME TypeInv, Fault
    PROVE  Classified
<1>1. UNCHANGED Table /\ UNCHANGED <<completed, old, cloud, nodes>>
  BY DEF Fault, Disconnect, StoreFails, Crash, rows, Table
<1>2. OwnersKept /\ OthersTyped
  BY <1>1, QuietCloud
<1>3. ASSUME NEW r \in Req, Disconnect(r) PROVE Classified
  BY <1>1, <1>2, <1>3, ReturnMoves DEF Disconnect, Classified, Kind, ActorStep, Quiet, Actor
<1>4. ASSUME NEW a \in Actor, StoreFails(a) PROVE Classified
  <2>1. InHandler(a) /\ ctx[a] \in Ctx
    BY <1>4, ContextType DEF StoreFails, InHandler
  <2>2. \/ Refused(a) \/ Done(a) \/ Return(a) \/ Goto(a, "erase", ctx[a])
        \/ CallTransition(a, "step", "creating")
        \/ a = Worker /\ pc[a] = "link" /\ CallTransition(a, "step", "ready")
    BY <1>4 DEF StoreFails
  <2>3. pc[a] = "link" => ctx[a].p \in unlinked'
    BY <1>4 DEF StoreFails
  <2>4. CASE Goto(a, "erase", ctx[a])
    <3>1. Moves(a, "erase", ctx[a])
      BY <2>1 DEF Moves, GoesOn, Keeps
    <3>2. Moving(a)
      BY <2>1, <2>4, <3>1 DEF Moving, Labels
    <3> QED BY <1>1, <1>2, <3>2 DEF Classified, Kind, ActorStep, Quiet
  <2>5. CASE CallTransition(a, "step", "creating")
    <3>1. Moving(a)
      BY <2>1, <2>5, CallMoves DEF Callers, Status
    <3> QED BY <1>1, <1>2, <3>1 DEF Classified, Kind, ActorStep, Quiet
  <2>7. CASE a = Worker /\ pc[a] = "link" /\ CallTransition(a, "step", "ready")
    <3> DEFINE c == [ctx[a] EXCEPT !.by = "step", !.to = "ready"]
    <3>1. c \in Ctx /\ c.p = ctx[a].p /\ c.todo = ctx[a].todo /\ c.to = "ready"
      BY <2>1 DEF Ctx, Status, Callers
    <3>2. Goto(a, "check", c)
      BY <2>7 DEF CallTransition
    <3> HIDE DEF c
    <3>3. Keeps(a, c)
      BY <2>1, <3>1 DEF Keeps
    <3>4. Links
      BY <1>1, <2>3, <2>7, <3>1, <3>2, <3>3 DEF Links, Table
    <3> QED BY <1>2, <3>4 DEF Classified, Kind
  <2>6. CASE Refused(a) \/ Done(a) \/ Return(a)
    <3>1. Moving(a)
      BY <2>1, <2>6, RefusedMoves, DoneMoves, ReturnMoves
    <3> QED BY <1>1, <1>2, <3>1 DEF Classified, Kind, ActorStep, Quiet
  <2> QED BY <2>2, <2>4, <2>5, <2>6, <2>7
<1>5. ASSUME Crash PROVE Classified
  BY <1>1, <1>2, <1>5 DEF Crash, Dies, Classified, Kind
<1> QED BY <1>3, <1>4, <1>5 DEF Fault

\* The whole next-state relation.
LEMMA NextKind ==
    ASSUME TypeInv, [Next]_vars
    PROVE  Classified
<1>1. ASSUME CreateProvision PROVE Classified
  <2>1. UNCHANGED <<completed, old, cloud, nodes>>
    BY <1>1 DEF CreateProvision
  <2> QED BY <1>1, <2>1, QuietCloud DEF Classified, Kind
<1>2. ASSUME NEW p \in Prov, Patch(p) PROVE Classified
  <2>1. UNCHANGED <<completed, old, cloud, nodes>>
    BY <1>2 DEF Patch
  <2> QED BY <1>2, <2>1, QuietCloud DEF Classified, Kind
<1>3. ASSUME NEW p \in Prov, GrowOld(p) PROVE Classified
  <2>1. UNCHANGED <<Table, pc, ctx>> /\ UNCHANGED <<completed, cloud, nodes>>
    BY <1>3 DEF GrowOld, rows, Table
  <2>2. OwnersKept /\ OthersTyped
    BY <1>3, <2>1 DEF GrowOld, OwnersKept, OthersTyped, TypeInv, TypeOK
  <2> QED BY <2>1, <2>2 DEF Classified, Kind
<1>4. CASE UNCHANGED vars
  <2>1. UNCHANGED <<Table, pc, ctx>> /\ UNCHANGED <<completed, old, cloud, nodes>>
    BY <1>4 DEF vars, rows, Table
  <2> QED BY <2>1, QuietCloud DEF Classified, Kind
<1>5. CASE Next
  <2>1. CASE Fault
    BY <2>1, FaultKind
  <2>2. CASE Normal
    <3>1. Worker \in Actor
      BY DEF Actor
    <3> QED BY <1>1, <1>2, <1>3, <2>2, <3>1, RunCycleKind, StepKind, TransitionKind,
               ClientKind, ContinueKind DEF Normal
  <2> QED BY <1>5, <2>1, <2>2 DEF Next
<1> QED BY <1>4, <1>5

\* Only a failing store and a PATCH say something about the missing nodes.
LEMMA NextMarks ==
    ASSUME TypeInv, [Next]_vars
    PROVE  MarksKept
<1>1. unlinked \subseteq Prov
  BY DEF TypeInv, TypeOK
<1>2. ASSUME NEW a \in Actor, StoreFails(a) PROVE MarksKept
  <2>1. pc[a] = "link" => ctx[a].p \in Prov
    BY ContextType DEF InHandler
  <2> QED BY <1>1, <1>2, <2>1 DEF StoreFails, MarksKept
<1>3. ASSUME NEW p \in Prov, Patch(p) PROVE MarksKept
  BY <1>1, <1>3 DEF Patch, MarksKept
<1>4. CASE unlinked' = unlinked
  BY <1>1, <1>4 DEF MarksKept
<1>5. \/ unlinked' = unlinked
      \/ \E a \in Actor : StoreFails(a)
      \/ \E p \in Prov : Patch(p)
  BY DEF Next, Normal, Fault, CreateProvision, RunCycle, Step, Transition, TransitionCheck,
         TransitionUpdate, TransitionReturn, StepCreate, StepCreateFails, RecordInstance,
         StepConfigure, StepFinalizeTimeout, StepFinalizeWaits, StepFinalizeFails, StepFinalize,
         LinkNode, StepDestroy, StepDestroyFails, DestroyProvision, DestroyProvisionFails,
         Client, RetryRequest, TransitionRequest, DeleteRequest, Continue, DeleteNode,
         VerifyDelete, EraseRow, GrowOld, Disconnect, Crash, rows, vars
<1> QED BY <1>2, <1>3, <1>4, <1>5

-----------------------------------------------------------------------------
(***************************************************************************)
(* Type correctness.                                                       *)
(***************************************************************************)

\* The initial state is well typed.
LEMMA InitTypeInv == Init => TypeInv
BY BlankType, ConstantsAssumption
   DEF Init, TypeInv, TypeOK, ActorsOK, OKFor, Absent, Unused, Labels

\* What an actor may be left with.
LEMMA GotoType ==
    ASSUME TypeInv, NEW a \in Actor, NEW l \in Labels, NEW c \in Ctx, OKFor(l, c),
           Goto(a, l, c)
    PROVE  /\ pc' \in [Actor -> Labels] /\ ctx' \in [Actor -> Ctx]
           /\ pc'[a] = l /\ ctx'[a] = c
           /\ \A b \in Actor \ {a} : pc'[b] = pc[b] /\ ctx'[b] = ctx[b]
           /\ \A b \in Actor : OKFor(pc'[b], ctx'[b])
<1>1. /\ pc' \in [Actor -> Labels] /\ ctx' \in [Actor -> Ctx]
      /\ pc'[a] = l /\ ctx'[a] = c
      /\ \A b \in Actor \ {a} : pc'[b] = pc[b] /\ ctx'[b] = ctx[b]
  BY DEF Goto, TypeInv, TypeOK
<1> QED BY <1>1 DEF TypeInv, ActorsOK

\* A move leads to a context that suits its label.
LEMMA MovesOK ==
    ASSUME TypeInv, NEW a \in Actor, NEW l, NEW c \in Ctx, Moves(a, l, c)
    PROVE  OKFor(l, c)
<1>1. InHandler(a) => ctx[a].p \in Prov
  BY ContextType
<1>2. CASE l = "idle" \/ (l = "step" /\ Resumes(a, c))
  BY <1>2 DEF OKFor, Resumes
<1>3. CASE Picks(a, l, c)
  <2>1. c.p \in Prov
    BY <1>3, CurrentRowIsThere DEF Picks, Takes, Row
  <2> QED BY <1>3, <2>1 DEF Picks, OKFor
<1>4. CASE Asks(a, l, c)
  BY <1>4, ConstantsAssumption DEF Asks, OKFor, Status
<1>5. CASE GoesOn(a, l, c)
  BY <1>1, <1>5 DEF GoesOn, Keeps, OKFor
<1> QED BY <1>2, <1>3, <1>4, <1>5 DEF Moves

\* The table keeps its types, and every actor a context that suits its label.
LEMMA KindType ==
    ASSUME TypeInv, Classified, MarksKept
    PROVE  TypeInv'
<1> DEFINE ActorsTyped ==
              /\ pc' \in [Actor -> Labels] /\ ctx' \in [Actor -> Ctx]
              /\ \A b \in Actor : OKFor(pc'[b], ctx'[b])
           TableTyped ==
              /\ status' \in [Prov -> Status \cup {Absent, Erased}]
              /\ instance' \in [Prov -> Instance \cup {NoInst}]
              /\ node_id' \in [Prov -> NodeId \cup {NoNode}]
<1>1. /\ status \in [Prov -> Status \cup {Absent, Erased}]
      /\ instance \in [Prov -> Instance \cup {NoInst}]
      /\ node_id \in [Prov -> NodeId \cup {NoNode}]
  BY DEF TypeInv, TypeOK
<1>2. UNCHANGED Table => TableTyped
  BY <1>1 DEF Table
<1>3. UNCHANGED <<pc, ctx>> => ActorsTyped
  BY DEF TypeInv, TypeOK, ActorsOK
<1>4. ASSUME NEW a \in Actor, Quiet(a) PROVE ActorsTyped /\ TableTyped
  <2>1. PICK l \in Labels, c \in Ctx : Moves(a, l, c) /\ Goto(a, l, c)
    BY <1>4 DEF Quiet, Moving
  <2>2. OKFor(l, c)
    BY <2>1, MovesOK
  <2> QED BY <1>2, <1>4, <2>1, <2>2, GotoType DEF Quiet
<1>5. ASSUME NEW a \in Actor, Updates(a) PROVE ActorsTyped /\ TableTyped
  <2>1. ctx[a] \in Ctx /\ ctx[a].to \in Status /\ ctx[a].p \in Prov
    BY <1>5, ContextType DEF Updates, InHandler
  <2>2. OKFor("readback", ctx[a]) /\ "readback" \in Labels
    BY <2>1 DEF OKFor, Labels
  <2>3. Goto(a, "readback", ctx[a])
    BY <1>5 DEF Updates
  <2>4. ActorsTyped
    BY <2>1, <2>2, <2>3, GotoType
  <2>5. TableTyped
    BY <1>1, <1>5, <2>1 DEF Updates
  <2> QED BY <2>4, <2>5
<1>6. ASSUME NEW a \in Actor, Erases(a) PROVE ActorsTyped /\ TableTyped
  <2>1. OKFor("idle", Blank)
    BY DEF OKFor
  <2>2. Goto(a, "idle", Blank)
    BY <1>6 DEF Erases, Return
  <2>3. ActorsTyped
    BY <2>1, <2>2, BlankType, GotoType
  <2>4. TableTyped
    BY <1>1, <1>6 DEF Erases
  <2> QED BY <2>3, <2>4
<1>7. ASSUME Launches PROVE ActorsTyped /\ TableTyped
  <2>1. PICK c \in Ctx : Takes(Worker, c) /\ Goto(Worker, "record", c)
    BY <1>7 DEF Launches
  <2>2. c.p \in Prov
    BY <2>1, CurrentRowIsThere DEF Takes, Row
  <2>3. OKFor("record", c) /\ "record" \in Labels /\ Worker \in Actor
    BY <2>2 DEF OKFor, Labels, Actor
  <2>4. ActorsTyped
    BY <2>1, <2>3, GotoType
  <2> QED BY <1>2, <1>7, <2>4 DEF Launches
<1>8. ASSUME Records \/ Links PROVE ActorsTyped /\ TableTyped
  <2>1. PICK c \in Ctx : /\ Keeps(Worker, c) /\ c.to \in {"creating", "ready"}
                         /\ Goto(Worker, "check", c)
    BY <1>8 DEF Records, Links
  <2>2. Worker \in Actor /\ "check" \in Labels
    BY DEF Actor, Labels
  <2>3. ctx[Worker] \in Ctx /\ ctx[Worker].p \in Prov
    BY <2>1, <2>2, ContextType DEF Keeps
  <2>4. OKFor("check", c)
    BY <2>1, <2>3 DEF Keeps, OKFor, Status
  <2>5. ActorsTyped
    BY <2>1, <2>2, <2>4, GotoType
  <2>6. ctx[Worker].inst \in Instance \cup {NoInst} /\ ctx[Worker].node \in NodeId \cup {NoNode}
    BY <2>3 DEF Ctx
  <2>7. TableTyped
    BY <1>1, <1>8, <2>6 DEF Records, Links
  <2> QED BY <2>5, <2>7
<1>9. ASSUME CreateProvision PROVE ActorsTyped /\ TableTyped
  BY <1>1, <1>3, <1>9 DEF CreateProvision, Status
<1>10. ASSUME NEW p \in Prov, Patch(p) PROVE ActorsTyped /\ TableTyped
  <2>1. TableTyped
    BY <1>1, <1>10, ConstantsAssumption DEF Patch
  <2> QED BY <1>3, <1>10, <2>1 DEF Patch
<1>11. ASSUME Dies PROVE ActorsTyped /\ TableTyped
  BY <1>2, <1>11, BlankType DEF Dies, OKFor
<1>12. ASSUME UNCHANGED <<Table, pc, ctx>> PROVE ActorsTyped /\ TableTyped
  BY <1>2, <1>3, <1>12
<1>13. ActorsTyped /\ TableTyped
  BY <1>4, <1>5, <1>6, <1>7, <1>8, <1>9, <1>10, <1>11, <1>12 DEF Classified, Kind, ActorStep
<1> QED BY <1>13 DEF Classified, OthersTyped, MarksKept, TypeInv, TypeOK, ActorsOK

\* Every step keeps the strengthened type invariant.
LEMMA NextTypeInv == TypeInv /\ [Next]_vars => TypeInv'
BY NextKind, NextMarks, KindType

\* The columns of cloud_provisions, the instances of the provider and the
\* variables of the worker and of the requests keep their types through
\* overlapping requests, PATCH, failing calls and crashes.
THEOREM ProvisionsWellTyped == Spec => []TypeOK
<1>1. TypeInv => TypeOK
  BY DEF TypeInv
<1> QED BY <1>1, InitTypeInv, NextTypeInv, PTL DEF Spec

-----------------------------------------------------------------------------
(***************************************************************************)
(* ReadyHasNode.  A call of Transition to "ready" under way is about a row *)
(* that has its node, that is known to be unlinked, or that has been       *)
(* deleted: a deleted row never comes back, so that it does not matter     *)
(* that LinkNode wrote nothing.                                            *)
(***************************************************************************)
Linked(p) == node_id[p] # NoNode \/ status[p] = Erased \/ p \in unlinked

\* What is known of an actor at label l with context c.
ReadyFor(l, c) ==
    /\ l \notin {"idle", "step"} => status[c.p] # Absent
    /\ \A x \in c.todo : status[x.p] # Absent
    /\ l \in {"check", "update", "readback"} /\ c.to = "ready" => Linked(c.p)
    /\ l = "link" => c.node # NoNode

ReadyInv ==
    /\ TypeInv
    /\ ReadyHasNode
    /\ \A a \in Actor : ReadyFor(pc[a], ctx[a])

\* Clients neither ask for "ready" nor write it.
WellBehaved == "ready" \notin Targets \cup PatchStatus

\* No provision is there at the start.
LEMMA InitReadyInv == Init => ReadyInv
<1> SUFFICES ASSUME Init PROVE ReadyInv
  OBVIOUS
<1>1. TypeInv
  BY InitTypeInv
<1>2. \A a \in Actor : pc[a] = "idle" /\ ctx[a].todo = {}
  BY BlankType DEF Init
<1>3. ReadyHasNode
  BY DEF Init, ReadyHasNode, Absent
<1> QED BY <1>1, <1>2, <1>3 DEF ReadyInv, ReadyFor

(***************************************************************************)
(* How the table may change while an actor is at work: a row that was      *)
(* created stays so, and one that is linked or deleted stays so.           *)
(***************************************************************************)
RowsKept ==
    \A p \in Prov : /\ status[p] # Absent => status'[p] # Absent
                    /\ Linked(p) => Linked(p)'

\* What is known of an actor survives such a change.
LEMMA ReadyKept ==
    ASSUME TypeInv, RowsKept, NEW l, NEW c \in Ctx, OKFor(l, c), ReadyFor(l, c)
    PROVE  ReadyFor(l, c)'
<1>1. \A x \in c.todo : x.p \in Prov
  BY DEF Ctx, Row
<1>2. l \notin {"idle", "step"} => c.p \in Prov
  BY DEF OKFor
<1> QED BY <1>1, <1>2 DEF RowsKept, ReadyFor

\* A move leads to a context about which enough is known.
LEMMA MovesReady ==
    ASSUME ReadyInv, WellBehaved, NEW a \in Actor, NEW l, NEW c \in Ctx, Moves(a, l, c)
    PROVE  ReadyFor(l, c)
<1>1. TypeInv /\ ReadyFor(pc[a], ctx[a])
  BY DEF ReadyInv
<1>2. \A p \in Prov : Exists(p) => status[p] # Absent
  BY DEF Exists, Status, Absent
<1>3. CASE l = "idle" /\ c = Blank
  BY <1>3, BlankType DEF ReadyFor
<1>4. CASE l = "step" /\ Resumes(a, c)
  <2>1. \A x \in c.todo : x.p \in Prov
    BY DEF Ctx, Row
  <2>2. \A x \in c.todo : status[x.p] # Absent
    BY <1>1, <1>2, <1>4, <2>1 DEF Resumes, ReadyFor
  <2> QED BY <1>4, <2>2 DEF ReadyFor
<1>5. CASE Picks(a, l, c)
  <2>1. status[c.p] # Absent /\ \A x \in c.todo : status[x.p] # Absent
    BY <1>1, <1>5 DEF Picks, Takes, ReadyFor
  <2> QED BY <1>5, <2>1, ConstantsAssumption DEF Picks, ReadyFor
<1>6. CASE Asks(a, l, c)
  BY <1>2, <1>6 DEF Asks, ReadyFor, WellBehaved
<1>7. CASE GoesOn(a, l, c)
  <2>1. ctx[a].p \in Prov /\ c.p = ctx[a].p /\ c.todo = ctx[a].todo
    BY <1>1, <1>7, ContextType DEF GoesOn, Keeps
  <2>2. status[c.p] # Absent /\ \A x \in c.todo : status[x.p] # Absent
    BY <1>1, <1>7, <2>1 DEF GoesOn, Keeps, InHandler, ReadyFor
  <2>3. l # "link" /\ l # "readback"
    BY <1>7 DEF GoesOn
  <2>4. l \in {"check", "update"} /\ c.to = "ready" => Linked(c.p)
    <3>1. CASE l = "check" /\ c.to = "ready"
      <4>1. ~Exists(c.p)
        BY <1>7, <2>1, <3>1 DEF GoesOn, WellBehaved
      <4>2. status[c.p] = Erased
        BY <1>1, <2>1, <2>2, <4>1 DEF Exists, TypeInv, TypeOK
      <4> QED BY <4>2 DEF Linked
    <3>2. CASE l = "update" /\ c.to = "ready"
      <4>1. pc[a] = "check" /\ ctx[a].to = "ready"
        BY <1>7, <3>2 DEF GoesOn
      <4> QED BY <1>1, <2>1, <4>1 DEF ReadyFor
    <3> QED BY <3>1, <3>2
  <2> QED BY <2>2, <2>3, <2>4 DEF ReadyFor
<1> QED BY <1>3, <1>4, <1>5, <1>6, <1>7 DEF Moves

\* The step of one actor, once it is known what it does to the table.
LEMMA ActorReady ==
    ASSUME ReadyInv, TypeInv', RowsKept, ReadyHasNode',
           NEW a \in Actor, NEW l, NEW c \in Ctx, OKFor(l, c), ReadyFor(l, c)',
           Goto(a, l, c)
    PROVE  ReadyInv'
<1>1. TypeInv
  BY DEF ReadyInv
<1>2. /\ pc'[a] = l /\ ctx'[a] = c
      /\ \A b \in Actor \ {a} : pc'[b] = pc[b] /\ ctx'[b] = ctx[b]
  BY <1>1 DEF Goto, TypeInv, TypeOK
<1>3. ASSUME NEW b \in Actor PROVE ReadyFor(pc[b], ctx[b])'
  <2>1. CASE b = a
    BY <1>2, <2>1 DEF ReadyFor, Linked
  <2>2. CASE b # a
    <3> DEFINE k == pc[b]
               d == ctx[b]
    <3>1. pc'[b] = pc[b] /\ ctx'[b] = ctx[b]
      BY <1>2, <2>2
    <3>2. d \in Ctx /\ OKFor(k, d) /\ ReadyFor(k, d)
      BY <1>1, ContextType DEF ReadyInv, TypeInv, ActorsOK
    <3>3. /\ k \notin {"idle", "step"} => d.p \in Prov
          /\ \A x \in d.todo : x.p \in Prov
      BY <3>2 DEF OKFor, Ctx, Row
    <3> QED BY <3>1, <3>2, <3>3 DEF ReadyFor, RowsKept
  <2> QED BY <2>1, <2>2
<1> QED BY <1>3 DEF ReadyInv

\* Every kind of step keeps the invariant of ReadyHasNode.
LEMMA KindReady ==
    ASSUME ReadyInv, WellBehaved, Classified, MarksKept
    PROVE  ReadyInv'
<1> USE DEF MarksKept
<1>1. TypeInv /\ TypeInv'
  BY KindType DEF ReadyInv
<1>2. /\ status \in [Prov -> Status \cup {Absent, Erased}]
      /\ instance \in [Prov -> Instance \cup {NoInst}]
      /\ node_id \in [Prov -> NodeId \cup {NoNode}]
  BY <1>1 DEF TypeInv, TypeOK
<1>3. UNCHANGED Table => RowsKept /\ ReadyHasNode'
  BY DEF ReadyInv, ReadyHasNode, RowsKept, Linked, Table
<1>4. ASSUME UNCHANGED Table, NEW a \in Actor, NEW l, NEW c \in Ctx,
             OKFor(l, c), ReadyFor(l, c), Goto(a, l, c)
      PROVE  ReadyInv'
  <2>1. ReadyFor(l, c)'
    BY <1>1, <1>3, <1>4, ReadyKept
  <2> QED BY <1>1, <1>3, <1>4, <2>1, ActorReady
<1>5. ASSUME NEW a \in Actor, Quiet(a) PROVE ReadyInv'
  <2>1. PICK l \in Labels, c \in Ctx : Moves(a, l, c) /\ Goto(a, l, c)
    BY <1>5 DEF Quiet, Moving
  <2>2. OKFor(l, c) /\ ReadyFor(l, c)
    BY <1>1, <2>1, MovesOK, MovesReady
  <2> QED BY <1>4, <1>5, <2>1, <2>2 DEF Quiet
<1>6. ASSUME NEW a \in Actor, Updates(a) PROVE ReadyInv'
  <2>1. /\ ctx[a] \in Ctx /\ ctx[a].to \in Status /\ ctx[a].p \in Prov
        /\ ReadyFor("update", ctx[a]) /\ Exists(ctx[a].p)
        /\ Goto(a, "readback", ctx[a])
    BY <1>1, <1>6, ContextType DEF Updates, InHandler, ReadyInv
  <2>2. \A p \in Prov : status'[p] = IF p = ctx[a].p THEN ctx[a].to ELSE status[p]
    BY <1>2, <1>6, <2>1 DEF Updates
  <2>3. node_id' = node_id
    BY <1>6 DEF Updates
  <2>4. RowsKept
    BY <2>1, <2>2, <2>3 DEF RowsKept, Linked, Exists, Status, Absent, Erased
  <2>5. ctx[a].to = "ready" => node_id[ctx[a].p] # NoNode \/ ctx[a].p \in unlinked
    BY <2>1 DEF ReadyFor, Linked, Exists, Status, Erased
  <2>6. ReadyHasNode'
    BY <2>1, <2>2, <2>3, <2>5 DEF ReadyInv, ReadyHasNode
  <2>7. ReadyFor("update", ctx[a])'
    <3>1. OKFor("update", ctx[a])
      BY <2>1 DEF OKFor
    <3> DEFINE c == ctx[a]
    <3>2. c.p \in Prov /\ \A x \in c.todo : x.p \in Prov
      BY <2>1 DEF Ctx, Row
    <3>3. ctx'[a] = ctx[a]
      BY <1>1, <2>1 DEF Goto, TypeInv, TypeOK
    <3> QED BY <2>1, <2>4, <3>2, <3>3 DEF RowsKept, ReadyFor
  <2>8. PICK c \in Ctx : c = ctx[a]
    BY <2>1
  <2>9. ReadyFor("readback", c)' /\ OKFor("readback", c) /\ Goto(a, "readback", c)
    <3>1. ctx'[a] = c
      BY <1>1, <2>1, <2>8 DEF Goto, TypeInv, TypeOK
    <3>2. OKFor("readback", c)
      BY <2>1, <2>8 DEF OKFor
    <3> QED BY <2>1, <2>7, <2>8, <3>1, <3>2 DEF ReadyFor
  <2> QED BY <1>1, <2>4, <2>6, <2>9, ActorReady
<1>7. ASSUME NEW a \in Actor, Erases(a) PROVE ReadyInv'
  <2>1. ctx[a].p \in Prov /\ Goto(a, "idle", Blank)
    BY <1>1, <1>7, ContextType DEF Erases, InHandler, Return
  <2>2. \A p \in Prov : status'[p] = IF p = ctx[a].p THEN Erased ELSE status[p]
    BY <1>2, <1>7, <2>1 DEF Erases
  <2>3. node_id' = node_id
    BY <1>7 DEF Erases
  <2>4. RowsKept
    BY <2>2, <2>3 DEF RowsKept, Linked, Absent, Erased
  <2>5. ReadyHasNode'
    BY <2>2, <2>3 DEF ReadyInv, ReadyHasNode, Erased
  <2>6. ReadyFor("idle", Blank)' /\ OKFor("idle", Blank)
    BY BlankType DEF ReadyFor, OKFor
  <2> QED BY <1>1, <2>1, <2>4, <2>5, <2>6, BlankType, ActorReady
<1>8. ASSUME Launches PROVE ReadyInv'
  <2>1. PICK c \in Ctx : Takes(Worker, c) /\ Goto(Worker, "record", c) /\ UNCHANGED Table
    BY <1>8 DEF Launches
  <2>2. Worker \in Actor /\ ReadyFor(pc[Worker], ctx[Worker])
    BY DEF Actor, ReadyInv
  <2>3. c.p \in Prov
    BY <1>1, <2>1, CurrentRowIsThere DEF Takes, Row
  <2>4. OKFor("record", c) /\ ReadyFor("record", c)
    BY <2>1, <2>2, <2>3 DEF OKFor, ReadyFor, Takes
  <2> QED BY <1>4, <2>1, <2>2, <2>4
<1>9. ASSUME Records PROVE ReadyInv'
  <2>1. PICK c \in Ctx : Keeps(Worker, c) /\ c.to = "creating" /\ Goto(Worker, "check", c)
    BY <1>9 DEF Records
  <2>2. /\ Worker \in Actor /\ ReadyFor(pc[Worker], ctx[Worker])
        /\ status' = status /\ node_id' = node_id
    BY <1>9 DEF Actor, ReadyInv, Records
  <2>3. c.p \in Prov
    BY <1>1, <2>1, <2>2, ContextType DEF Keeps
  <2>4. OKFor("check", c) /\ ReadyFor("check", c)
    BY <2>1, <2>2, <2>3 DEF OKFor, ReadyFor, Keeps, InHandler, Status
  <2>5. RowsKept /\ ReadyHasNode' /\ ReadyFor("check", c)'
    BY <2>2, <2>4 DEF RowsKept, ReadyInv, ReadyHasNode, ReadyFor, Linked
  <2> QED BY <1>1, <2>1, <2>2, <2>4, <2>5, ActorReady
<1>10. ASSUME Links PROVE ReadyInv'
  <2>1. PICK c \in Ctx : Keeps(Worker, c) /\ c.to = "ready" /\ Goto(Worker, "check", c)
    BY <1>10 DEF Links
  <2>2. /\ Worker \in Actor /\ ReadyFor(pc[Worker], ctx[Worker]) /\ pc[Worker] = "link"
        /\ status' = status
    BY <1>10 DEF Actor, ReadyInv, Links
  <2>3. c.p \in Prov /\ c.p = ctx[Worker].p /\ c.todo = ctx[Worker].todo
    BY <1>1, <2>1, <2>2, ContextType DEF Keeps
  <2>4. \A p \in Prov : \/ node_id'[p] = IF p = c.p THEN ctx[Worker].node ELSE node_id[p]
                        \/ node_id'[p] = node_id[p] /\ c.p \in unlinked'
    BY <1>2, <1>10, <2>3 DEF Links
  <2>5. ctx[Worker].node # NoNode
    BY <2>2 DEF ReadyFor
  <2>6. RowsKept /\ ReadyHasNode'
    BY <2>2, <2>4, <2>5 DEF RowsKept, ReadyInv, ReadyHasNode, Linked
  <2>7. OKFor("check", c)
    BY <2>1, <2>3 DEF OKFor, Status
  <2>8. ReadyFor("check", c)'
    BY <2>2, <2>3, <2>4, <2>5 DEF ReadyFor, Linked
  <2> QED BY <1>1, <2>1, <2>2, <2>6, <2>7, <2>8, ActorReady
<1>11. ASSUME UNCHANGED <<pc, ctx>>, RowsKept, ReadyHasNode' PROVE ReadyInv'
  <2>1. ASSUME NEW b \in Actor PROVE ReadyFor(pc[b], ctx[b])'
    <3>1. ctx[b] \in Ctx /\ OKFor(pc[b], ctx[b]) /\ ReadyFor(pc[b], ctx[b])
      BY <1>1, ContextType DEF ReadyInv, TypeInv, ActorsOK
    <3>2. /\ pc[b] \notin {"idle", "step"} => ctx[b].p \in Prov
          /\ \A x \in ctx[b].todo : x.p \in Prov
      BY <3>1 DEF OKFor, Ctx, Row
    <3> QED BY <1>11, <3>1, <3>2 DEF ReadyFor, RowsKept
  <2> QED BY <1>1, <1>11, <2>1 DEF ReadyInv
<1>12. ASSUME CreateProvision PROVE ReadyInv'
  <2>1. PICK p \in Prov : status[p] = Absent /\ status' = [status EXCEPT ![p] = "pending"]
    BY <1>12 DEF CreateProvision
  <2>2. \A q \in Prov : status'[q] = IF q = p THEN "pending" ELSE status[q]
    BY <1>2, <2>1
  <2>3. node_id' = node_id /\ UNCHANGED <<pc, ctx>>
    BY <1>12 DEF CreateProvision
  <2>4. RowsKept /\ ReadyHasNode'
    BY <2>1, <2>2, <2>3 DEF RowsKept, ReadyInv, ReadyHasNode, Linked, Absent, Erased
  <2> QED BY <1>11, <2>3, <2>4
<1>13. ASSUME NEW p \in Prov, Patch(p) PROVE ReadyInv'
  <2>1. PICK s \in PatchStatus \cup {status[p]}, n \in PatchNode \cup {node_id[p]} :
            /\ status' = [status EXCEPT ![p] = s] /\ node_id' = [node_id EXCEPT ![p] = n]
            /\ n = NoNode => node_id[p] = NoNode \/ p \in unlinked'
    BY <1>13 DEF Patch
  <2>2. /\ \A q \in Prov : status'[q] = IF q = p THEN s ELSE status[q]
        /\ \A q \in Prov : node_id'[q] = IF q = p THEN n ELSE node_id[q]
    BY <1>2, <2>1
  <2>3. status[p] \in Status /\ UNCHANGED <<pc, ctx>>
    BY <1>13 DEF Patch, Exists
  <2>4. /\ s \in Status /\ (s = "ready" => status[p] = "ready")
        /\ n = NoNode => node_id[p] = NoNode \/ p \in unlinked'
    BY <2>1, <2>3, ConstantsAssumption DEF WellBehaved
  <2>5. RowsKept
    BY <2>2, <2>3, <2>4 DEF RowsKept, Linked, Status, Absent, Erased
  <2>6. ReadyHasNode'
    BY <2>2, <2>4 DEF ReadyInv, ReadyHasNode
  <2> QED BY <1>11, <2>3, <2>5, <2>6
<1>14. ASSUME Dies PROVE ReadyInv'
  <2>1. \A b \in Actor : pc'[b] = "idle" /\ ctx'[b] = Blank
    BY <1>14 DEF Dies
  <2>2. \A b \in Actor : ReadyFor(pc[b], ctx[b])'
    BY <2>1, BlankType DEF ReadyFor
  <2> QED BY <1>1, <1>3, <1>14, <2>2 DEF Dies, ReadyInv
<1>15. ASSUME UNCHANGED <<Table, pc, ctx>> PROVE ReadyInv'
  BY <1>3, <1>11, <1>15
<1> QED BY <1>5, <1>6, <1>7, <1>8, <1>9, <1>10, <1>12, <1>13, <1>14, <1>15
        DEF Classified, Kind, ActorStep

\* When clients do not ask for "ready" themselves, a "ready" provision has its
\* node unless the store failed to write it or a client cleared it: through
\* crashes, requests that overlap the worker's cycle, failing store calls, and
\* deletions between the update of node_id and that of status.
THEOREM ReadyProvisionsHaveNodes ==
    ASSUME WellBehaved
    PROVE  Spec => []ReadyHasNode
<1>1. ReadyInv /\ [Next]_vars => ReadyInv'
  BY NextKind, NextMarks, KindReady DEF ReadyInv
<1>2. ReadyInv => ReadyHasNode
  BY DEF ReadyInv
<1> QED BY <1>1, <1>2, InitReadyInv, PTL DEF Spec

-----------------------------------------------------------------------------
(***************************************************************************)
(* The refinement, when no two actors work on the same provision: what     *)
(* Transition has checked still holds when it writes.                      *)
(***************************************************************************)
SerialInv ==
    /\ TypeInv
    /\ OneAtATime
    /\ \A a \in Actor : pc[a] = "update" => CanTransition(status[ctx[a].p], ctx[a].to)

\* An actor that is at a provision writes no row another actor is at or has
\* in its snapshot.
LEMMA NotHeldByOthers ==
    ASSUME TypeInv, OneAtATime, NEW a \in Actor, InHandler(a), NEW b \in Actor \ {a}
    PROVE  /\ InHandler(b) => ctx[b].p # ctx[a].p
           /\ \A x \in ctx[b].todo : x.p # ctx[a].p
<1>1. ctx[a].p \in Prov /\ 0 \notin Prov
  BY ContextType, ConstantsAssumption DEF Prov
<1>2. ctx[a].p \in Held(a)
  BY DEF Held
<1>3. ctx[a].p \notin Held(b)
  BY <1>1, <1>2 DEF OneAtATime
<1> QED BY <1>3 DEF Held

\* Where a step leaves an actor that calls Transition.
LEMMA KindSerial ==
    ASSUME SerialInv, PatchStatus = {}, Classified, MarksKept, OneAtATime'
    PROVE  SerialInv'
<1>1. TypeInv /\ TypeInv' /\ OneAtATime
  BY KindType DEF SerialInv
<1>2. /\ status \in [Prov -> Status \cup {Absent, Erased}]
      /\ instance \in [Prov -> Instance \cup {NoInst}]
  BY <1>1 DEF TypeInv, TypeOK
<1>3. ASSUME NEW a \in Actor, NEW l, NEW c, Goto(a, l, c),
             \A p \in Prov : status'[p] # status[p] => InHandler(a) /\ p = ctx[a].p,
             l = "update" => CanTransition(status'[c.p], c.to)
      PROVE  SerialInv'
  <2>1. /\ pc'[a] = l /\ ctx'[a] = c
        /\ \A b \in Actor \ {a} : pc'[b] = pc[b] /\ ctx'[b] = ctx[b]
    BY <1>1, <1>3 DEF Goto, TypeInv, TypeOK
  <2>2. ASSUME NEW b \in Actor \ {a}, pc[b] = "update"
        PROVE  CanTransition(status'[ctx[b].p], ctx[b].to)
    <3>1. InHandler(b) /\ ctx[b].p \in Prov
      BY <1>1, <2>2, ContextType DEF InHandler
    <3>2. status'[ctx[b].p] = status[ctx[b].p]
      BY <1>1, <1>3, <3>1, NotHeldByOthers
    <3> QED BY <2>2, <3>2 DEF SerialInv
  <2> QED BY <1>1, <1>3, <2>1, <2>2 DEF SerialInv, CanTransition
<1>4. ASSUME NEW a \in Actor, Quiet(a) PROVE SerialInv'
  <2>1. PICK l \in Labels, c \in Ctx : Moves(a, l, c) /\ Goto(a, l, c)
    BY <1>4 DEF Quiet, Moving
  <2>2. l = "update" => CanTransition(status[c.p], c.to)
    BY <2>1 DEF Moves, Picks, Asks, GoesOn
  <2> QED BY <1>3, <1>4, <2>1, <2>2 DEF Quiet, Table
<1>5. ASSUME NEW a \in Actor, Updates(a) \/ Erases(a) PROVE SerialInv'
  <2>1. InHandler(a)
    BY <1>5 DEF Updates, Erases, InHandler
  <2>2. \A p \in Prov : status'[p] # status[p] => p = ctx[a].p
    BY <1>2, <1>5 DEF Updates, Erases
  <2>3. PICK l, c : l \in {"readback", "idle"} /\ Goto(a, l, c)
    BY <1>5 DEF Updates, Erases, Return
  <2> QED BY <1>3, <2>1, <2>2, <2>3
<1>6. ASSUME Launches \/ Records \/ Links PROVE SerialInv'
  <2>1. PICK l, c : l \in {"record", "check"} /\ Goto(Worker, l, c)
    BY <1>6 DEF Launches, Records, Links
  <2>2. status' = status
    BY <1>6 DEF Launches, Records, Links, Table
  <2> QED BY <1>3, <2>1, <2>2 DEF Actor
<1>7. ASSUME UNCHANGED <<pc, ctx>>, \A p \in Prov : status'[p] = status[p] \/ status[p] = Absent
      PROVE  SerialInv'
  <2>1. ASSUME NEW b \in Actor, pc[b] = "update"
        PROVE  CanTransition(status'[ctx[b].p], ctx[b].to)
    <3>1. ctx[b].p \in Prov /\ CanTransition(status[ctx[b].p], ctx[b].to)
      BY <1>1, <2>1, ContextType DEF InHandler, SerialInv
    <3>2. status[ctx[b].p] # Absent
      BY <3>1 DEF CanTransition, Status, Absent
    <3> QED BY <1>7, <3>1, <3>2
  <2> QED BY <1>1, <1>7, <2>1 DEF SerialInv, CanTransition
<1>8. ASSUME CreateProvision PROVE SerialInv'
  BY <1>2, <1>7, <1>8 DEF CreateProvision
<1>9. ASSUME NEW p \in Prov, Patch(p) PROVE SerialInv'
  <2>1. status' = status /\ UNCHANGED <<pc, ctx>>
    BY <1>2, <1>9 DEF Patch
  <2> QED BY <1>7, <2>1
<1>10. ASSUME Dies PROVE SerialInv'
  BY <1>1, <1>10 DEF Dies, SerialInv
<1>11. ASSUME UNCHANGED <<Table, pc, ctx>> PROVE SerialInv'
  BY <1>7, <1>11 DEF Table
<1> QED BY <1>4, <1>5, <1>6, <1>8, <1>9, <1>10, <1>11 DEF Classified, Kind, ActorStep

\* Nothing is held at the start.
LEMMA InitSerialInv == Init => SerialInv
<1> SUFFICES ASSUME Init PROVE SerialInv
  OBVIOUS
<1>1. \A a \in Actor : pc[a] = "idle" /\ ctx[a] = Blank
  BY DEF Init
<1>2. \A a \in Actor : Held(a) \subseteq {0}
  BY <1>1, BlankType DEF Held
<1>3. OneAtATime
  BY <1>2 DEF OneAtATime
<1> QED BY <1>1, <1>3, InitTypeInv DEF SerialInv

\* Every step is a step of the state machine or leaves status.
LEMMA KindRefines ==
    ASSUME SerialInv, PatchStatus = {}, Classified
    PROVE  SM!Next \/ status' = status
<1>1. TypeInv /\ status \in [Prov -> Status \cup {Absent, Erased}]
  BY DEF SerialInv, TypeInv, TypeOK
<1>2. ASSUME NEW a \in Actor, Updates(a) PROVE SM!Next
  <2>1. ctx[a].p \in Prov /\ CanTransition(status[ctx[a].p], ctx[a].to)
    BY <1>1, <1>2, ContextType DEF Updates, InHandler, SerialInv
  <2>2. SM!Transition(ctx[a].p)
    BY <1>2, <2>1 DEF Updates, CanTransition, SM!Transition
  <2> QED BY <2>1, <2>2 DEF SM!Next
<1>3. ASSUME NEW a \in Actor, Erases(a) PROVE SM!Next
  <2>1. ctx[a].p \in Prov
    BY <1>1, <1>3, ContextType DEF Erases, InHandler
  <2>2. SM!Delete(ctx[a].p)
    BY <1>3 DEF Erases, Exists, SM!Delete
  <2> QED BY <2>1, <2>2 DEF SM!Next
<1>4. ASSUME CreateProvision PROVE SM!Next
  <2>1. PICK p \in Prov : status[p] = Absent /\ status' = [status EXCEPT ![p] = "pending"]
    BY <1>4 DEF CreateProvision
  <2> QED BY <2>1 DEF SM!Next, SM!Create
<1>5. ASSUME NEW p \in Prov, Patch(p) PROVE status' = status
  BY <1>1, <1>5 DEF Patch
<1> QED BY <1>2, <1>3, <1>4, <1>5
        DEF Classified, Kind, ActorStep, Quiet, Launches, Records, Links, Dies, Table

\* When the worker and the requests never work on the same provision at the
\* same time, and clients leave the column status alone, the table
\* cloud_provisions implements the state machine of CloudProvisionResource,
\* through crashes, cancelled requests and failing calls of the store.
THEOREM SerialProvisionsImplementStateMachine ==
    ASSUME PatchStatus = {}
    PROVE  SerialSpec => ImplementsStateMachine
<1>1. Init => SM!Init
  BY DEF Init, SM!Init
<1>2. SerialInv /\ [Next /\ OneAtATime']_vars => SerialInv' /\ [SM!Next]_status
  <2> SUFFICES ASSUME SerialInv, [Next /\ OneAtATime']_vars
               PROVE  SerialInv' /\ (SM!Next \/ status' = status)
    OBVIOUS
  <2>1. Classified /\ MarksKept
    BY NextKind, NextMarks DEF SerialInv
  <2>2. OneAtATime'
    BY DEF SerialInv, OneAtATime, Held, vars
  <2> QED BY <2>1, <2>2, KindSerial, KindRefines
<1> QED BY <1>1, <1>2, InitSerialInv, PTL
        DEF SerialSpec, ImplementsStateMachine, SM!Spec

-----------------------------------------------------------------------------
(***************************************************************************)
(* CloudFollowsStatus, when no two actors work on the same provision: what *)
(* is left of the worker's snapshot is true of the table, the row that a   *)
(* command was given is still "destroying", and the instances that a row   *)
(* or an actor names were made for it.                                     *)
(***************************************************************************)
Own(i, p) == i \in Instance => cloud[i] \in {p, -1}

\* What is known of an actor at label l with context c.
TrueFor(l, c) ==
    /\ \A x \in c.todo :
        /\ status[x.p] = x.status /\ instance[x.p] = x.inst
        /\ l \notin {"idle", "step"} => x.p # c.p
    /\ l = "readback" => status[c.p] = c.to
    /\ l = "destroy" => status[c.p] = "destroying"
    /\ l \in {"record", "destroy"} => Own(c.inst, c.p)

CloudInv ==
    /\ SerialInv
    /\ \A p \in Prov : Own(instance[p], p)
    /\ \A a \in Actor : TrueFor(pc[a], ctx[a])

\* The snapshot is empty and no row names an instance at the start.
LEMMA InitCloudInv == Init => CloudInv
<1> SUFFICES ASSUME Init PROVE CloudInv
  OBVIOUS
<1>1. \A a \in Actor : TrueFor(pc[a], ctx[a])
  BY BlankType DEF Init, TrueFor
<1>2. \A p \in Prov : Own(instance[p], p)
  BY ConstantsAssumption DEF Init, Own
<1> QED BY <1>1, <1>2, InitSerialInv DEF CloudInv

\* Two rows of a snapshot that is true of the table are about different
\* provisions.
LEMMA SnapshotDistinct ==
    ASSUME TypeInv, NEW a \in Actor, TrueFor(pc[a], ctx[a]),
           NEW x \in ctx[a].todo, NEW y \in ctx[a].todo, x.p = y.p
    PROVE  x = y
<1>1. x \in Row /\ y \in Row
  BY ContextType
<1>2. x.status = y.status /\ x.inst = y.inst
  BY DEF TrueFor
<1> QED BY <1>1, <1>2 DEF Row

\* A move leads to a context that is true of the table.
LEMMA MovesTrue ==
    ASSUME CloudInv, NEW a \in Actor, NEW l, NEW c \in Ctx, Moves(a, l, c)
    PROVE  TrueFor(l, c)
<1>1. TypeInv /\ TrueFor(pc[a], ctx[a])
  BY DEF CloudInv, SerialInv
<1>2. CASE l = "idle" /\ c = Blank
  BY <1>2, BlankType DEF TrueFor
<1>3. CASE l = "step" /\ Resumes(a, c)
  BY <1>1, <1>3 DEF TrueFor, Resumes
<1>4. CASE Picks(a, l, c)
  <2>1. \A x \in c.todo : x \in ctx[a].todo /\ x # CurrentRow /\ CurrentRow \in ctx[a].todo
    BY <1>4 DEF Picks, Takes
  <2>2. \A x \in c.todo : x.p # c.p
    BY <1>1, <1>4, <2>1, SnapshotDistinct DEF Picks, Takes
  <2>3. \A x \in c.todo : status[x.p] = x.status /\ instance[x.p] = x.inst
    BY <1>1, <2>1 DEF TrueFor
  <2>4. l \in {"check", "link"}
    BY <1>4 DEF Picks
  <2> QED BY <2>2, <2>3, <2>4 DEF TrueFor
<1>5. CASE Asks(a, l, c)
  BY <1>5 DEF Asks, TrueFor
<1>6. CASE GoesOn(a, l, c)
  <2>1. c.p = ctx[a].p /\ c.todo = ctx[a].todo /\ InHandler(a) /\ c.p \in Prov
    BY <1>1, <1>6, ContextType DEF GoesOn, Keeps
  <2>2. \A x \in c.todo : status[x.p] = x.status /\ instance[x.p] = x.inst /\ x.p # c.p
    BY <1>1, <2>1 DEF TrueFor, InHandler
  <2>3. CASE l = "destroy"
    <3>1. /\ pc[a] = "readback" /\ ctx[a].to = "destroying" /\ c.inst = instance[c.p]
      BY <1>6, <2>3 DEF GoesOn
    <3>2. status[c.p] = "destroying" /\ Own(c.inst, c.p)
      BY <1>1, <2>1, <3>1 DEF TrueFor, CloudInv
    <3> QED BY <2>2, <2>3, <3>2 DEF TrueFor
  <2>4. CASE l # "destroy"
    <3>1. l \notin {"readback", "record"}
      BY <1>6, <2>4 DEF GoesOn
    <3> QED BY <2>2, <2>4, <3>1 DEF TrueFor
  <2> QED BY <2>3, <2>4
<1> QED BY <1>2, <1>3, <1>4, <1>5, <1>6 DEF Moves

\* What is known of an actor survives a step that leaves its rows alone.
LEMMA TrueKept ==
    ASSUME OwnersKept, NEW l, NEW c \in Ctx, OKFor(l, c), TrueFor(l, c),
           \A x \in c.todo : status'[x.p] = status[x.p] /\ instance'[x.p] = instance[x.p],
           l \notin {"idle", "step"} => status'[c.p] = status[c.p]
    PROVE  TrueFor(l, c)'
<1>1. l \in {"record", "destroy"} => c.p \in Prov
  BY DEF OKFor
<1>2. l \in {"record", "destroy"} => Own(c.inst, c.p)'
  BY <1>1 DEF TrueFor, Own, OwnersKept
<1> QED BY <1>2 DEF TrueFor

\* The step of one actor, which changes the row of its own provision at most.
LEMMA ActorTrue ==
    ASSUME CloudInv, SerialInv', OwnersKept,
           NEW a \in Actor, NEW l, NEW c, Goto(a, l, c), TrueFor(l, c)',
           \A p \in Prov : status'[p] # status[p] \/ instance'[p] # instance[p]
                               => InHandler(a) /\ p = ctx[a].p,
           \A p \in Prov : Own(instance[p], p)'
    PROVE  CloudInv'
<1>1. TypeInv /\ OneAtATime
  BY DEF CloudInv, SerialInv
<1>2. /\ pc'[a] = l /\ ctx'[a] = c
      /\ \A b \in Actor \ {a} : pc'[b] = pc[b] /\ ctx'[b] = ctx[b]
  BY <1>1 DEF Goto, TypeInv, TypeOK
<1>3. ASSUME NEW b \in Actor PROVE TrueFor(pc[b], ctx[b])'
  <2>1. CASE b = a
    BY <1>2, <2>1 DEF TrueFor, Own
  <2>2. CASE b # a
    <3>1. PICK k, d : k = pc[b] /\ d = ctx[b]
      OBVIOUS
    <3>2. pc'[b] = k /\ ctx'[b] = d
      BY <1>2, <2>2, <3>1
    <3>3. d \in Ctx /\ OKFor(k, d) /\ TrueFor(k, d)
      BY <1>1, <3>1, ContextType DEF CloudInv, TypeInv, ActorsOK
    <3>4. \A x \in d.todo : x.p \in Prov
      BY <3>3 DEF Ctx, Row
    <3>5. k \notin {"idle", "step"} => d.p \in Prov
      BY <3>3 DEF OKFor
    <3>6. InHandler(a) => /\ k \notin {"idle", "step"} => d.p # ctx[a].p
                          /\ \A x \in d.todo : x.p # ctx[a].p
      BY <1>1, <2>2, <3>1, NotHeldByOthers DEF InHandler
    <3>7. /\ \A x \in d.todo : status'[x.p] = status[x.p] /\ instance'[x.p] = instance[x.p]
          /\ k \notin {"idle", "step"} => status'[d.p] = status[d.p]
      BY <3>4, <3>5, <3>6
    <3>8. TrueFor(k, d)'
      BY <3>3, <3>7, TrueKept
    <3> QED BY <3>2, <3>8 DEF TrueFor, Own
  <2> QED BY <2>1, <2>2
<1> QED BY <1>3 DEF CloudInv

\* Every kind of step keeps the invariant of CloudFollowsStatus.
LEMMA KindCloud ==
    ASSUME CloudInv, PatchStatus = {}, PatchInstance = {}, Classified, SerialInv'
    PROVE  CloudInv'
<1>1. TypeInv /\ OneAtATime /\ OwnersKept
  BY DEF CloudInv, SerialInv, Classified
<1>2. /\ status \in [Prov -> Status \cup {Absent, Erased}]
      /\ instance \in [Prov -> Instance \cup {NoInst}]
  BY <1>1 DEF TypeInv, TypeOK
<1>3. instance' = instance => \A p \in Prov : Own(instance[p], p)'
  BY <1>1 DEF CloudInv, Own, OwnersKept
<1>4. ASSUME NEW a \in Actor, Quiet(a) PROVE CloudInv'
  <2>1. PICK l \in Labels, c \in Ctx : Moves(a, l, c) /\ Goto(a, l, c)
    BY <1>4 DEF Quiet, Moving
  <2>2. OKFor(l, c) /\ TrueFor(l, c)
    BY <1>1, <2>1, MovesOK, MovesTrue
  <2>3. status' = status /\ instance' = instance
    BY <1>4 DEF Quiet, Table
  <2>4. TrueFor(l, c)'
    BY <1>1, <2>2, <2>3, TrueKept
  <2> QED BY <1>1, <1>3, <2>1, <2>3, <2>4, ActorTrue
<1>5. ASSUME NEW a \in Actor, Updates(a) PROVE CloudInv'
  <2>1. PICK c \in Ctx : c = ctx[a]
    BY <1>1, ContextType
  <2>2. /\ c.p \in Prov /\ TrueFor("update", c) /\ InHandler(a)
        /\ Goto(a, "readback", c)
    BY <1>1, <1>5, <2>1, ContextType DEF Updates, InHandler, CloudInv
  <2>3. \A p \in Prov : status'[p] = IF p = c.p THEN c.to ELSE status[p]
    BY <1>2, <1>5, <2>1, <2>2 DEF Updates
  <2>4. instance' = instance
    BY <1>5 DEF Updates
  <2>5. \A x \in c.todo : x.p \in Prov /\ x.p # c.p
    BY <2>2 DEF TrueFor, Ctx, Row
  <2>6. TrueFor("readback", c)'
    BY <2>2, <2>3, <2>4, <2>5 DEF TrueFor
  <2> QED BY <1>1, <1>3, <2>1, <2>2, <2>3, <2>4, <2>6, ActorTrue
<1>6. ASSUME NEW a \in Actor, Erases(a) PROVE CloudInv'
  <2>1. ctx[a].p \in Prov /\ InHandler(a) /\ Goto(a, "idle", Blank)
    BY <1>1, <1>6, ContextType DEF Erases, InHandler, Return
  <2>2. \A p \in Prov : status'[p] = IF p = ctx[a].p THEN Erased ELSE status[p]
    BY <1>2, <1>6 DEF Erases
  <2>3. instance' = instance
    BY <1>6 DEF Erases
  <2>4. TrueFor("idle", Blank)'
    BY BlankType DEF TrueFor
  <2> QED BY <1>1, <1>3, <2>1, <2>2, <2>3, <2>4, ActorTrue
<1>7. ASSUME Launches PROVE CloudInv'
  <2>1. PICK c \in Ctx : /\ Takes(Worker, c) /\ Goto(Worker, "record", c)
                         /\ cloud'[c.inst] = c.p
    BY <1>7 DEF Launches
  <2>2. status' = status /\ instance' = instance /\ Worker \in Actor
    BY <1>7 DEF Launches, Table, Actor
  <2>3. TrueFor(pc[Worker], ctx[Worker])
    BY <2>2 DEF CloudInv
  <2>4. \A x \in c.todo : x \in ctx[Worker].todo /\ x # CurrentRow /\ CurrentRow \in ctx[Worker].todo
    BY <2>1 DEF Takes
  <2>5. \A x \in c.todo : x.p # c.p
    BY <1>1, <2>1, <2>2, <2>3, <2>4, SnapshotDistinct DEF Takes
  <2>6. \A x \in c.todo : status[x.p] = x.status /\ instance[x.p] = x.inst
    BY <2>3, <2>4 DEF TrueFor
  <2>7. TrueFor("record", c)'
    BY <2>1, <2>2, <2>5, <2>6 DEF TrueFor, Own
  <2> QED BY <1>1, <1>3, <2>1, <2>2, <2>7, ActorTrue
<1>8. ASSUME Records PROVE CloudInv'
  <2>1. PICK c \in Ctx : Keeps(Worker, c) /\ Goto(Worker, "check", c)
    BY <1>8 DEF Records
  <2>2. /\ Worker \in Actor /\ TrueFor(pc[Worker], ctx[Worker]) /\ pc[Worker] = "record"
        /\ status' = status /\ InHandler(Worker)
    BY <1>8, <2>1 DEF Actor, CloudInv, Records, Keeps
  <2>3. c.p \in Prov /\ c.p = ctx[Worker].p /\ c.todo = ctx[Worker].todo
    BY <1>1, <2>1, <2>2, ContextType DEF Keeps
  <2>4. \A p \in Prov : instance'[p] = IF p = c.p THEN ctx[Worker].inst ELSE instance[p]
    BY <1>2, <1>8, <2>3 DEF Records
  <2>5. Own(ctx[Worker].inst, c.p)
    BY <2>2, <2>3 DEF TrueFor
  <2>6. \A p \in Prov : Own(instance[p], p)'
    BY <1>1, <2>4, <2>5 DEF CloudInv, Own, OwnersKept
  <2>7. \A x \in c.todo : /\ x.p \in Prov /\ x.p # c.p
                          /\ status[x.p] = x.status /\ instance[x.p] = x.inst
    BY <2>2, <2>3 DEF TrueFor, Ctx, Row, InHandler
  <2>8. TrueFor("check", c)'
    BY <2>2, <2>4, <2>7 DEF TrueFor
  <2> QED BY <1>1, <2>1, <2>2, <2>3, <2>4, <2>6, <2>8, ActorTrue
<1>9. ASSUME Links PROVE CloudInv'
  <2>1. PICK c \in Ctx : Keeps(Worker, c) /\ Goto(Worker, "check", c)
    BY <1>9 DEF Links
  <2>2. /\ Worker \in Actor /\ TrueFor(pc[Worker], ctx[Worker])
        /\ status' = status /\ instance' = instance
    BY <1>9 DEF Actor, CloudInv, Links
  <2>3. TrueFor("check", c)'
    BY <2>1, <2>2 DEF TrueFor, Keeps, InHandler
  <2> QED BY <1>1, <1>3, <2>1, <2>2, <2>3, ActorTrue
<1>10. ASSUME UNCHANGED <<pc, ctx>>, instance' = instance,
              \A p \in Prov : status'[p] = status[p] \/ status[p] = Absent
       PROVE  CloudInv'
  <2>1. ASSUME NEW b \in Actor PROVE TrueFor(pc[b], ctx[b])'
    <3>1. PICK k, d : k = pc[b] /\ d = ctx[b]
      OBVIOUS
    <3>2. d \in Ctx /\ OKFor(k, d) /\ TrueFor(k, d)
      BY <1>1, <3>1, ContextType DEF CloudInv, TypeInv, ActorsOK
    <3>3. \A x \in d.todo : x.p \in Prov /\ x.status \in Status
      BY <3>2 DEF Ctx, Row
    <3>4. \A x \in d.todo : status'[x.p] = status[x.p]
      BY <1>10, <3>2, <3>3 DEF TrueFor, Status, Absent
    <3>5. k \in {"readback", "destroy"} => status'[d.p] = status[d.p]
      <4>1. k \in {"readback", "destroy"} => d.p \in Prov /\ status[d.p] \in Status
        BY <3>2 DEF OKFor, TrueFor, Status
      <4> QED BY <1>10, <4>1 DEF Status, Absent
    <3>6. k \in {"record", "destroy"} => Own(d.inst, d.p)'
      <4>1. k \in {"record", "destroy"} => d.p \in Prov
        BY <3>2 DEF OKFor
      <4> QED BY <1>1, <3>2, <4>1 DEF TrueFor, Own, OwnersKept
    <3>7. TrueFor(k, d)'
      BY <1>10, <3>2, <3>4, <3>5, <3>6 DEF TrueFor
    <3> QED BY <1>10, <3>1, <3>7 DEF TrueFor, Own
  <2> QED BY <1>3, <1>10, <2>1 DEF CloudInv
<1>11. ASSUME CreateProvision PROVE CloudInv'
  BY <1>2, <1>10, <1>11 DEF CreateProvision
<1>12. ASSUME NEW p \in Prov, Patch(p) PROVE CloudInv'
  <2>1. status' = status /\ instance' = instance /\ UNCHANGED <<pc, ctx>>
    BY <1>2, <1>12 DEF Patch
  <2> QED BY <1>10, <2>1
<1>13. ASSUME Dies PROVE CloudInv'
  <2>1. \A b \in Actor : TrueFor(pc[b], ctx[b])'
    BY <1>13, BlankType DEF Dies, TrueFor
  <2> QED BY <1>3, <1>13, <2>1 DEF Dies, Table, CloudInv
<1>14. ASSUME UNCHANGED <<Table, pc, ctx>> PROVE CloudInv'
  BY <1>10, <1>14 DEF Table
<1> QED BY <1>4, <1>5, <1>6, <1>7, <1>8, <1>9, <1>11, <1>12, <1>13, <1>14
        DEF Classified, Kind, ActorStep

\* The actions that reach the provider.
LEMMA CloudSteps ==
    ASSUME [Next]_vars, cloud' # cloud
    PROVE  \/ /\ pc[Worker] = "step" /\ CurrentRow.status = "pending"
              /\ \E i \in Instance : LaunchInstance(i, CurrentRow.p)
           \/ /\ pc[Worker] = "step" /\ CurrentRow.status = "destroying"
              /\ CurrentRow.inst # NoInst /\ DestroyInstance(CurrentRow.inst)
           \/ \E r \in Req : /\ pc[r] = "destroy"
                             /\ ctx[r].inst # NoInst /\ DestroyInstance(ctx[r].inst)
<1>1. StepCreate \/ StepCreateFails \/ StepDestroy
        \/ \E r \in Req : DestroyProvision(r) \/ DestroyProvisionFails(r)
  BY DEF Next, Normal, Fault, CreateProvision, RunCycle, Step, Transition, TransitionCheck,
         TransitionUpdate, TransitionReturn, RecordInstance, StepConfigure, StepFinalizeTimeout,
         StepFinalizeWaits, StepFinalizeFails, StepFinalize, LinkNode, StepDestroyFails,
         Client, RetryRequest, TransitionRequest, DeleteRequest, Continue, DeleteNode,
         VerifyDelete, EraseRow, Patch, GrowOld, Disconnect, StoreFails, Crash, vars
<1>2. CASE StepCreate \/ StepCreateFails
  BY <1>2 DEF StepCreate, StepCreateFails, Stepping
<1>3. CASE StepDestroy
  BY <1>3 DEF StepDestroy, Stepping, DestroyInstanceFails
<1>4. CASE \E r \in Req : DestroyProvision(r) \/ DestroyProvisionFails(r)
  BY <1>4 DEF DestroyProvision, DestroyProvisionFails, DestroyInstanceFails
<1> QED BY <1>1, <1>2, <1>3, <1>4

\* What the provider is asked for is what the table says.
LEMMA CloudFollows ==
    ASSUME CloudInv, [Next]_vars, NEW i \in Instance, cloud'[i] # cloud[i]
    PROVE  IF cloud'[i] \in Prov THEN status[cloud'[i]] = "pending"
           ELSE cloud[i] \in Prov => status[cloud[i]] = "destroying"
<1>1. TypeInv /\ \A a \in Actor : TrueFor(pc[a], ctx[a])
  BY DEF CloudInv, SerialInv
<1>2. /\ cloud \in [Instance -> Prov \cup {0, -1}] /\ -1 \notin Prov
  BY <1>1, ConstantsAssumption DEF TypeInv, TypeOK, Prov
<1>3. Worker \in Actor /\ Req \subseteq Actor
  BY DEF Actor
<1>4. pc[Worker] = "step" => /\ CurrentRow \in ctx[Worker].todo /\ CurrentRow.p \in Prov
                             /\ CurrentRow.inst \in Instance \cup {NoInst}
                             /\ status[CurrentRow.p] = CurrentRow.status
                             /\ instance[CurrentRow.p] = CurrentRow.inst
  <2> SUFFICES ASSUME pc[Worker] = "step"
               PROVE  /\ CurrentRow \in ctx[Worker].todo /\ CurrentRow.p \in Prov
                      /\ CurrentRow.inst \in Instance \cup {NoInst}
                      /\ status[CurrentRow.p] = CurrentRow.status
                      /\ instance[CurrentRow.p] = CurrentRow.inst
    OBVIOUS
  <2>1. CurrentRow \in ctx[Worker].todo /\ CurrentRow \in Row
    BY <1>1, CurrentRowIsThere
  <2>2. status[CurrentRow.p] = CurrentRow.status /\ instance[CurrentRow.p] = CurrentRow.inst
    BY <1>1, <1>3, <2>1 DEF TrueFor
  <2> QED BY <2>1, <2>2 DEF Row
<1>5. ASSUME NEW j \in Instance, NEW p \in Prov, DestroyInstance(j), Own(j, p),
             status[p] = "destroying"
      PROVE  cloud'[i] \notin Prov /\ (cloud[i] \in Prov => status[cloud[i]] = "destroying")
  <2>1. cloud' = [cloud EXCEPT ![j] = IF Live(j) THEN -1 ELSE cloud[j]]
    BY <1>5 DEF DestroyInstance
  <2>2. i = j /\ Live(j) /\ cloud'[i] = -1
    BY <1>2, <2>1
  <2>3. cloud[i] = p
    BY <1>2, <1>5, <2>2 DEF Own, Live
  <2> QED BY <1>2, <1>5, <2>2, <2>3
<1>6. CASE /\ pc[Worker] = "step" /\ CurrentRow.status = "pending"
           /\ \E j \in Instance : LaunchInstance(j, CurrentRow.p)
  <2>1. cloud'[i] = CurrentRow.p
    BY <1>2, <1>6 DEF LaunchInstance
  <2> QED BY <1>4, <1>6, <2>1
<1>7. CASE /\ pc[Worker] = "step" /\ CurrentRow.status = "destroying"
           /\ CurrentRow.inst # NoInst /\ DestroyInstance(CurrentRow.inst)
  <2>1. Own(CurrentRow.inst, CurrentRow.p)
    BY <1>4, <1>7 DEF CloudInv
  <2> QED BY <1>4, <1>5, <1>7, <2>1
<1>8. ASSUME NEW r \in Req, pc[r] = "destroy", ctx[r].inst # NoInst, DestroyInstance(ctx[r].inst)
      PROVE  cloud'[i] \notin Prov /\ (cloud[i] \in Prov => status[cloud[i]] = "destroying")
  <2>1. ctx[r].p \in Prov /\ ctx[r].inst \in Instance
    BY <1>1, <1>3, <1>8, ContextType DEF InHandler, Ctx
  <2>2. Own(ctx[r].inst, ctx[r].p) /\ status[ctx[r].p] = "destroying"
    BY <1>1, <1>3, <1>8 DEF TrueFor
  <2> QED BY <1>5, <1>8, <2>1, <2>2
<1>9. cloud' # cloud
  OBVIOUS
<1> QED BY <1>6, <1>7, <1>8, <1>9, CloudSteps

\* When no two actors work on the same provision and clients write neither
\* status nor provider_instance_id, the provider is asked for an instance only
\* while the provision is "pending", and to destroy one only while the provision
\* that it was created for is "destroying", although the worker goes by a
\* snapshot and a command by the row map it was given: after crashes, lost
\* updates and failed destructions too.
THEOREM CloudFollowsTheTable ==
    ASSUME PatchStatus = {}, PatchInstance = {}
    PROVE  SerialSpec => CloudFollowsStatus
<1>1. CloudInv /\ [Next /\ OneAtATime']_vars => CloudInv'
  <2> SUFFICES ASSUME CloudInv, [Next /\ OneAtATime']_vars PROVE CloudInv'
    OBVIOUS
  <2>1. Classified /\ MarksKept /\ SerialInv
    BY NextKind, NextMarks DEF CloudInv, SerialInv
  <2>2. OneAtATime'
    BY DEF CloudInv, SerialInv, OneAtATime, Held, vars
  <2> QED BY <2>1, <2>2, KindSerial, KindCloud
<1>2. CloudInv /\ [Next /\ OneAtATime']_vars =>
          [\A i \in Instance : cloud'[i] # cloud[i] =>
              IF cloud'[i] \in Prov THEN status[cloud'[i]] = "pending"
              ELSE cloud[i] \in Prov => status[cloud[i]] = "destroying"]_cloud
  BY CloudFollows
<1> QED BY <1>1, <1>2, InitCloudInv, PTL DEF SerialSpec, CloudFollowsStatus
=============================================================================
