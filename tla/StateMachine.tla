---------------------------- MODULE StateMachine ----------------------------
(***************************************************************************)
(* What a resource with a state machine promises (engine/schema.go,        *)
(* type StateMachine): each row starts in the initial state, moves only    *)
(* along the transition table, and may be removed from its table at any    *)
(* time, after which its id is never used again.                           *)
(*                                                                         *)
(* This is the abstract specification: a transition is one atomic step, as *)
(* the comment on Store.Transition says.  The detailed specifications read *)
(* the row, decide, and write it back in separate statements.              *)
(***************************************************************************)
CONSTANTS
    Row,          \* the ids (reference_id) rows can have
    State,        \* the states of the machine
    Initial,      \* the state a created row starts in
    Transitions,  \* the table: a function from State to SUBSET State
    Absent,       \* no row has been created with this id yet
    Erased        \* the row with this id has been deleted

VARIABLE state    \* [Row -> State \cup {Absent, Erased}]

Init == state = [x \in Row |-> Absent]

Create(x) ==
    /\ state[x] = Absent
    /\ state' = [state EXCEPT ![x] = Initial]

Transition(x) ==
    /\ state[x] \in State
    /\ \E to \in Transitions[state[x]] : state' = [state EXCEPT ![x] = to]

Delete(x) ==
    /\ state[x] \in State
    /\ state' = [state EXCEPT ![x] = Erased]

Next == \E x \in Row : Create(x) \/ Transition(x) \/ Delete(x)

Spec == Init /\ [][Next]_state
=============================================================================
