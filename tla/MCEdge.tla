------------------------------- MODULE MCEdge -------------------------------
(***************************************************************************)
(* Two parts around the engine for TLC: the nodes with their SSH clients,  *)
(* and the hostnames of deployments with the App Proxy.  Neither writes    *)
(* what the other one reads, so a run looks at each of them alone: "part", *)
(* chosen in the initial state, says which one moves.                      *)
(***************************************************************************)
EXTENDS NodeFleet, Domains

CONSTANTS
    app,  \* the hostname that the deployment's name gives
    APP   \* the same name, as a customer spells it when adding a domain

VARIABLE part

MCFold(h) == IF h = APP THEN app ELSE h
MCLists == {Null, {[host |-> APP, type |-> "custom", status |-> "verified"]}}

allVars == <<part, vars, domainsVars>>

\* One initial state of the fleet is enough where it does not move.
StillFleet ==
    /\ key = {} /\ status = [n \in Node |-> "online"]
    /\ host = [n \in Node |-> CHOOSE x \in Addr : TRUE]

MCInit ==
    /\ part \in {"fleet", "domains"}
    /\ Init /\ (part = "domains" => StillFleet)
    /\ DomainsInit

MCNext ==
    \/ part = "fleet" /\ Next /\ UNCHANGED <<part, domainsVars>>
    \/ part = "domains" /\ DomainsNext /\ UNCHANGED <<part, vars>>

MCSpec ==
    /\ MCInit /\ [][MCNext]_allVars
    /\ part = "fleet" => Fairness

\* StatusFollowsNode, in the runs in which the fleet moves: the status of a node
\* in the table ends up as what the machine does (HealthChecker.checkAll).
FleetStatus == part = "fleet" => StatusFollowsNode
=============================================================================
