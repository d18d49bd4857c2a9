--------------------------- MODULE UsageReporter ---------------------------
(***************************************************************************)
(* The background reporter of usage events (shell/billing/reporter.go):    *)
(* every minute it reads a batch of unreported rows of usage_events, sends *)
(* it to APIGate, and marks the rows.  The three calls are separate steps, *)
(* and each may fail; the process may end between any two of them.  Server *)
(* shutdown (cmd/hoster/server.go) stops the reporter before it closes the *)
(* database.                                                               *)
(***************************************************************************)
EXTENDS Integers, FiniteSets

CONSTANTS
    Event,        \* reference ids of usage events
    MaxTime,      \* how far the clock goes (bound)
    BatchSize,    \* 100 in the code
    ReporterFaults \* which of "crash", "store", "send", "reject" may happen

VARIABLES
    time,         \* the column timestamp of each row, 0 if there is none
    reported,     \* rows with reported_at set
    clock,        \* the current second
    charged,      \* what APIGate has accepted ...
    refused,      \* ... and rejected in an answer that is not an error
    process,      \* "up", "stopping" (Stop waits for doneCh), "down"
    pc, batch     \* the reporter's next call, and its local variable events

table == <<time, reported>>
service == <<charged, refused>>
reporterVars == <<time, reported, clock, charged, refused, process, pc, batch>>

Recorded == {e \in Event : time[e] > 0}
StoreOpen == process # "down"

ReporterInit ==
    /\ time = [e \in Event |-> 0]
    /\ reported = {}
    /\ clock = 1
    /\ charged = {} /\ refused = {}
    /\ process = "up"
    /\ pc = "idle" /\ batch = {}

----------------------------------------------------------------------------
\* CreateUsageEvent, called by the handlers of deployments.  The timestamp
\* was taken before the insertion, so it may be a second old.
CreateUsageEvent(e) ==
    /\ StoreOpen
    /\ time[e] = 0
    /\ \E t \in {clock, clock - 1} \ {0} : time' = [time EXCEPT ![e] = t]
    /\ UNCHANGED <<reported, clock, service, process, pc, batch>>

ClockAdvances ==
    /\ clock < MaxTime
    /\ clock' = clock + 1
    /\ UNCHANGED <<table, service, process, pc, batch>>

Idle == pc' = "idle" /\ batch' = {}

\* Mutant: a row already reported is read again.
UnreportedOrNot == Recorded

Unreported == Recorded \ reported

\* ORDER BY timestamp ASC LIMIT: rows of the same second come in any order.
Oldest(rows, limit) ==
    {b \in SUBSET rows :
        /\ Cardinality(b) = IF Cardinality(rows) < limit THEN Cardinality(rows) ELSE limit
        /\ \A e \in b, f \in rows \ b : time[e] <= time[f]}

GetUnreportedEvents ==
    /\ pc = "idle"
    /\ StoreOpen
    /\ Unreported # {}
    /\ \E b \in Oldest(Unreported, BatchSize) : batch' = b
    /\ pc' = "send"
    /\ UNCHANGED <<table, clock, service, process>>

(***************************************************************************)
(* MeterUsageBatch.  An answer below 400 is a success even when it says    *)
(* that some events were rejected.  An error may come from a request that  *)
(* never arrived or from an answer that was lost.                          *)
(***************************************************************************)
MeterUsageBatch ==
    /\ pc = "send"
    /\ \E reject \in (IF "reject" \in ReporterFaults THEN SUBSET batch ELSE {{}}) :
        /\ charged' = charged \cup (batch \ reject)
        /\ refused' = refused \cup reject
    /\ pc' = "mark"
    /\ UNCHANGED <<table, clock, process, batch>>

\* Mutant: the error is logged and the batch is marked all the same.
MeterUsageLogged ==
    /\ "send" \in ReporterFaults
    /\ pc = "send"
    /\ \E accept \in {batch, {}} : charged' = charged \cup accept
    /\ pc' = "mark"
    /\ UNCHANGED <<table, clock, refused, process, batch>>

MeterUsageFails ==
    /\ "send" \in ReporterFaults
    /\ pc = "send"
    /\ \E accept \in {batch, {}} : charged' = charged \cup accept
    /\ Idle
    /\ UNCHANGED <<table, clock, refused, process>>

MarkEventsReported ==
    /\ pc = "mark"
    /\ reported' = reported \cup batch
    /\ Idle
    /\ UNCHANGED <<time, clock, service, process>>

MarkFails ==
    /\ "store" \in ReporterFaults
    /\ pc = "mark"
    /\ Idle
    /\ UNCHANGED <<table, clock, service, process>>

----------------------------------------------------------------------------
\* Server.Shutdown: Reporter.Stop closes stopCh and waits for the loop, which
\* looks at the channel between two batches; then the database is closed.
Stop ==
    /\ process = "up"
    /\ process' = "stopping"
    /\ UNCHANGED <<table, clock, service, pc, batch>>

\* Mutant: Stop does not wait for doneCh.
CloseStoreAtOnce ==
    /\ process = "stopping"
    /\ process' = "down"
    /\ UNCHANGED <<table, clock, service, pc, batch>>

CloseStore ==
    /\ process = "stopping"
    /\ pc = "idle"
    /\ process' = "down"
    /\ UNCHANGED <<table, clock, service, pc, batch>>

ReporterCrash ==
    /\ "crash" \in ReporterFaults
    /\ StoreOpen
    /\ process' = "down"
    /\ Idle
    /\ UNCHANGED <<table, clock, service>>

Restart ==
    /\ process = "down"
    /\ process' = "up"
    /\ UNCHANGED <<table, clock, service, pc, batch>>

ReportBatch ==
    GetUnreportedEvents \/ MeterUsageBatch \/ MeterUsageFails \/ MarkEventsReported \/ MarkFails

ReporterNext ==
    \/ \E e \in Event : CreateUsageEvent(e)
    \/ ClockAdvances
    \/ ReportBatch
    \/ Stop \/ CloseStore \/ ReporterCrash \/ Restart

ReporterSpec == ReporterInit /\ [][ReporterNext]_reporterVars

(***************************************************************************)
(* The ticker fires for ever, a process that went down is started again    *)
(* and is not always stopped at once, and calls that are tried again and   *)
(* again succeed at some time.                                             *)
(***************************************************************************)
ReporterFairness ==
    /\ WF_reporterVars(CloseStore) /\ WF_reporterVars(Restart)
    /\ SF_reporterVars(GetUnreportedEvents)
    /\ SF_reporterVars(MeterUsageBatch)
    /\ SF_reporterVars(MarkEventsReported)

----------------------------------------------------------------------------
(***************************************************************************)
(* The reporter implements Metering: whatever fails in between, an event   *)
(* is marked as reported only after APIGate has answered for it, and a     *)
(* marked event is never sent again.                                       *)
(***************************************************************************)
Meter == INSTANCE Metering WITH recorded <- Recorded, closed <- reported

ImplementsMetering == Meter!Spec

\* The database is open as long as a batch is under way: Shutdown waits for
\* the reporter (Reporter.Stop) before it closes the store.
BatchHasStore == pc # "idle" => StoreOpen

\* Every recorded event is reported in the end, however often sending and
\* marking fail and the process crashes in between: rows that stay
\* unreported keep being read (reportBatch, Reporter.Start).
EventuallyReported == \A e \in Event : time[e] > 0 ~> e \in reported
=============================================================================
