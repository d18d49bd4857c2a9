------------------------------ MODULE Metering ------------------------------
(***************************************************************************)
(* What usage metering promises (specs/features/F009): every recorded      *)
(* event is charged by the metering service, and an event is closed, never *)
(* to be sent again, only after the service has answered for it.  The      *)
(* service knows events by their ids, so charging one twice changes        *)
(* nothing ("Idempotent event IDs, APIGate deduplication").                *)
(***************************************************************************)
CONSTANT Event

VARIABLES
    recorded,   \* events that exist
    charged,    \* events the service has accepted
    refused,    \* events the service has rejected one by one
    closed      \* events that will not be sent again

Init == recorded = {} /\ charged = {} /\ refused = {} /\ closed = {}

Record(e) ==
    /\ recorded' = recorded \cup {e}
    /\ UNCHANGED <<charged, refused, closed>>

\* The service answers for some of the open events.
Answer(accept, reject) ==
    /\ accept \cup reject \subseteq recorded \ closed
    /\ charged' = charged \cup accept
    /\ refused' = refused \cup reject
    /\ UNCHANGED <<recorded, closed>>

Close(batch) ==
    /\ batch \subseteq charged \cup refused
    /\ closed' = closed \cup batch
    /\ UNCHANGED <<recorded, charged, refused>>

Next ==
    \/ \E e \in Event : Record(e)
    \/ \E accept, reject \in SUBSET Event : Answer(accept, reject)
    \/ \E batch \in SUBSET Event : Close(batch)

Spec == Init /\ [][Next]_<<recorded, charged, refused, closed>>
=============================================================================
