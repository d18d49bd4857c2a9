--------------------------- MODULE MCOrchestrator ---------------------------
(***************************************************************************)
(* Orchestrator for TLC: a template with two services that have ports,     *)
(* independent of each other or one depending on the other; the one with a *)
(* restart policy may have labels that hide its container.                 *)
(***************************************************************************)
EXTENDS Orchestrator

CONSTANTS web, db

Independent == [s \in Service |-> {}]
WebOnDb == [s \in Service |-> IF s = web THEN {db} ELSE {}]

MCGraphs == {Independent, WebOnDb}

MCHidings == {{}, {web}}
=============================================================================
