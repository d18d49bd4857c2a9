----------------------------- MODULE MCBilling -----------------------------
(***************************************************************************)
(* The two parts of billing for TLC.  The reporter of usage events and the *)
(* invoices share no state (other tables, other services), so a run looks  *)
(* at each of them alone: "part", chosen in the initial state, says which  *)
(* of the two moves.  The invoices move in two scenarios, without what     *)
(* clients write into the rows, and with it but with smaller bounds.       *)
(***************************************************************************)
EXTENDS InvoiceBilling, UsageReporter

CONSTANT Payer  \* the request slot that pays when clients write as well

VARIABLE part

allVars == <<part, vars, reporterVars>>

MCInit ==
    /\ part \in {"reporter", "invoices", "clients"}
    /\ Init
    /\ ReporterInit

\* Clients leave the rows alone.
Unedited ==
    /\ \A i \in 1 .. Len(invoices) : invoices[i].edited = {}
    /\ \A r \in Req : req[r].pc # "set state"

\* One month and one session, and one request pays while another one is a
\* transition that a client asked for.
Smaller ==
    /\ month = 1 /\ Len(sessions) <= 1
    /\ \A r \in Req \ {Payer} : req[r].pc \in {"idle", "set state"}

\* Prices only rise: the properties compare amounts for equality.
Rising == \A u \in User : price[u] <= price'[u]

MCNext ==
    \/ /\ part # "reporter" /\ Next /\ SerialStep /\ Rising
       /\ part = "invoices" => Unedited'
       /\ part = "clients" => Smaller'
       /\ UNCHANGED <<part, reporterVars>>
    \/ part = "reporter" /\ ReporterNext /\ UNCHANGED <<part, vars>>

\* Behaviours in which the reporter stands still are not fair to it: they are
\* looked at for the invariants only.
MCSpec == MCInit /\ [][MCNext]_allVars /\ ReporterFairness
=============================================================================
