-------------------------- MODULE InvoiceBilling --------------------------
(***************************************************************************)
(* Invoices: the daily InvoiceGenerator of engine/workers.go, which makes  *)
(* one invoice per customer and month and keeps the amount of a draft up   *)
(* to date, and the payment of an invoice through a Stripe checkout        *)
(* session (engine/billing_handlers.go).  The generator works from two     *)
(* lists read at its start; pay and verify read, call Stripe, and write    *)
(* in separate statements.  Nothing is locked.                             *)
(*                                                                         *)
(* Invoices are a resource like any other: their owners may POST, PATCH,   *)
(* DELETE and POST .../transition/{state} them (engine/api.go), and all    *)
(* columns but user_id are theirs to write.                                *)
(***************************************************************************)
EXTENDS Integers, Sequences, FiniteSets

CONSTANTS
    User,
    MaxInvoice,     \* bound on the rows of the table invoices
    MaxSession,     \* bound on checkout sessions
    MaxCents,       \* bound on what a customer's running deployments cost
    MaxMonth,       \* bound on the calendar
    MaxEdits,       \* bound on what clients write into the rows themselves
    EditStatus, EditTotal, EditMonth,   \* what they write
    Req,            \* request slots
    GenLimit,       \* LIMIT of the generator's list of invoices, 1000
    VerifyLimit,    \* LIMIT of verifyPaymentHandler's list, 100
    Faults          \* which of "crash", "store", "stripe" may happen

Status == {"draft", "pending", "paid", "failed"}

\* InvoiceResource (engine/resources.go): "paid" is not in the table.
Transitions ==
    [s \in Status |->
        CASE s = "draft"   -> {"pending"}
          [] s = "pending" -> {"paid", "failed"}
          [] s = "failed"  -> {"pending"}
          [] s = "paid"    -> {}]

ASSUME BillingAssumption ==
    /\ {MaxInvoice, MaxSession, MaxCents, MaxMonth, MaxEdits} \subseteq Nat
    /\ EditStatus \subseteq Status /\ EditTotal \subseteq Nat /\ EditMonth \subseteq Nat
    /\ GenLimit \in Nat /\ VerifyLimit \in Nat
    /\ Faults \subseteq {"crash", "store", "stripe"}

VARIABLES
    invoices,   \* rows in the order of their ids; "edited" is a history of
                \* what a client wrote into the row, and not a column
    price,      \* what the running deployments of each customer cost a month
    month,
    sessions,   \* Stripe's checkout sessions, in the order of their creation
    gen,        \* the InvoiceGenerator
    req         \* requests under way

vars == <<invoices, price, month, sessions, gen, req>>

Invoice == 1 .. MaxInvoice
Session == 1 .. MaxSession
NoSession == 0

(***************************************************************************)
(* What clients write: a state, "gone" for a DELETE, "posted" for a row of *)
(* their own, or another column.                                           *)
(***************************************************************************)
Marks == Status \cup {"gone", "posted", "month", "total", "session"}

GenIdle == [pc |-> "idle", month |-> 0, bills |-> [u \in User |-> 0],
            existing |-> [u \in User |-> 0], status |-> [u \in User |-> "none"],
            todo |-> {}]

\* Local variables of the handlers: the invoice, its amount and status when it
\* was read, the session, and the state that a client asks for.
ReqIdle == [pc |-> "idle", inv |-> 0, amount |-> 0, session |-> NoSession, ok |-> TRUE,
            to |-> "none"]

Init ==
    /\ invoices = <<>>
    /\ price = [u \in User |-> 0]
    /\ month = 1
    /\ sessions = <<>>
    /\ gen = GenIdle
    /\ req = [r \in Req |-> ReqIdle]

----------------------------------------------------------------------------
(***************************************************************************)
(* The surroundings: deployments start and stop, the month ends, customers *)
(* pay sessions they were sent to.  (All deployments of a customer stopped *)
(* is the initial state.)                                                  *)
(***************************************************************************)
PriceChanges(u) ==
    /\ \E c \in 1 .. MaxCents : price' = [price EXCEPT ![u] = c]
    /\ UNCHANGED <<invoices, month, sessions, gen, req>>

MonthEnds ==
    /\ month < MaxMonth
    /\ month' = month + 1
    /\ UNCHANGED <<invoices, price, sessions, gen, req>>

CustomerPays(s) ==
    /\ s <= Len(sessions)
    /\ sessions[s].state = "open"
    /\ sessions' = [sessions EXCEPT ![s].state = "paid"]
    /\ UNCHANGED <<invoices, price, month, gen, req>>

----------------------------------------------------------------------------
(***************************************************************************)
(* InvoiceGenerator.generateAll.  Page limits take the newest rows; a row  *)
(* that was deleted is in no list, and an UPDATE of it is an error.        *)
(***************************************************************************)
Live == {i \in 1 .. Len(invoices) : invoices[i].status # "gone"}

Newest(limit) == {i \in Live : Cardinality({j \in Live : j > i}) < limit}

ListDeployments ==
    /\ gen.pc = "idle"
    /\ \E u \in User : price[u] > 0
    /\ gen' = [GenIdle EXCEPT !.pc = "list", !.month = month, !.bills = price]
    /\ UNCHANGED <<invoices, price, month, sessions, req>>

Settled(status) == status \in {"paid", "pending"}

\* Mutant: only drafts count as the invoice of the month.
ExistingDraft(u) ==
    LET mine == {i \in Newest(GenLimit) : /\ invoices[i].user = u
                                          /\ invoices[i].month = gen.month
                                          /\ invoices[i].status = "draft"}
    IN  IF mine = {} THEN 0 ELSE CHOOSE i \in mine : \A j \in mine : i <= j

\* The row that stands for customer u: the list goes from the newest to the
\* oldest, and a settled row is kept.
Existing(u) ==
    LET mine == {i \in Newest(GenLimit) : invoices[i].user = u /\ invoices[i].month = gen.month}
        settled == {i \in mine : Settled(invoices[i].status)}
    IN  IF mine = {} THEN 0
        ELSE IF settled # {} THEN CHOOSE i \in settled : \A j \in settled : j <= i
        ELSE CHOOSE i \in mine : \A j \in mine : i <= j

ListInvoices ==
    /\ gen.pc = "list"
    /\ LET existing == [u \in User |-> Existing(u)]
       IN gen' = [gen EXCEPT
                    !.pc = "bill",
                    !.existing = existing,
                    !.status = [u \in User |-> IF existing[u] = 0 THEN "none"
                                               ELSE invoices[existing[u]].status],
                    !.todo = {u \in User : gen.bills[u] > 0}]
    /\ UNCHANGED <<invoices, price, month, sessions, req>>

GenNext(u) ==
    LET rest == gen.todo \ {u}
    IN  gen' = IF rest = {} THEN GenIdle ELSE [gen EXCEPT !.todo = rest]

Billing(u) == gen.pc = "bill" /\ u \in gen.todo

SkipSettled(u) ==
    /\ Billing(u)
    /\ Settled(gen.status[u])
    /\ GenNext(u)
    /\ UNCHANGED <<invoices, price, month, sessions, req>>

\* Mutant: a pending invoice is taken for a draft.
UpdatesDraftOrPending(u) == gen.existing[u] # 0 /\ gen.status[u] # "paid"

UpdatesDraft(u) == gen.existing[u] # 0 /\ ~Settled(gen.status[u])

UpdateInvoice(u) ==
    /\ Billing(u)
    /\ UpdatesDraft(u)
    /\ invoices' = IF gen.existing[u] \in Live
                     THEN [invoices EXCEPT ![gen.existing[u]].total = gen.bills[u]]
                     ELSE invoices
    /\ GenNext(u)
    /\ UNCHANGED <<price, month, sessions, req>>

CreateInvoice(u) ==
    /\ Billing(u)
    /\ gen.existing[u] = 0
    /\ Len(invoices) < MaxInvoice
    /\ invoices' = Append(invoices, [user |-> u, month |-> gen.month, status |-> "draft",
                                     total |-> gen.bills[u], session |-> NoSession,
                                     edited |-> {}])
    /\ GenNext(u)
    /\ UNCHANGED <<price, month, sessions, req>>

\* A failing update or insert is logged; the loop goes on.
BillFails(u) ==
    /\ "store" \in Faults
    /\ Billing(u)
    /\ ~Settled(gen.status[u])
    /\ GenNext(u)
    /\ UNCHANGED <<invoices, price, month, sessions, req>>

----------------------------------------------------------------------------
(***************************************************************************)
(* Stripe.  A session is hidden until its URL is in the answer to the      *)
(* client; clean says that the handler met no error on the way.            *)
(***************************************************************************)
NewSession(i, cents) == [inv |-> i, amount |-> cents, state |-> "hidden", clean |-> FALSE]

Goto(r, label, c) == req' = [req EXCEPT ![r] = [c EXCEPT !.pc = label]]
Return(r) == req' = [req EXCEPT ![r] = ReqIdle]

(***************************************************************************)
(* invoicePayHandler: read the row, create a session for its amount, store *)
(* the session, transition to "pending" (read and check, then write).  The *)
(* errors of the last three are ignored and the URL is returned.           *)
(***************************************************************************)
\* Mutant: an invoice in payment can be paid again.
PayableAgain(i) == invoices[i].status # "paid" /\ invoices[i].total > 0

Payable(i) == invoices[i].status \in {"draft", "failed"} /\ invoices[i].total > 0

PayRequest(r, i) ==
    /\ req[r].pc = "idle"
    /\ i \in Live
    /\ Payable(i)
    /\ Goto(r, "checkout", [ReqIdle EXCEPT !.inv = i, !.amount = invoices[i].total])
    /\ UNCHANGED <<invoices, price, month, sessions, gen>>

CreateStripeCheckout(r) ==
    /\ req[r].pc = "checkout"
    /\ Len(sessions) < MaxSession
    /\ sessions' = Append(sessions, NewSession(req[r].inv, req[r].amount))
    /\ Goto(r, "store", [req[r] EXCEPT !.session = Len(sessions')])
    /\ UNCHANGED <<invoices, price, month, gen>>

\* A session that Stripe made although the call failed is known to nobody.
StripeFails(r) ==
    /\ "stripe" \in Faults
    /\ req[r].pc = "checkout"
    /\ Return(r)
    /\ UNCHANGED <<invoices, price, month, sessions, gen>>

StoreSession(r) ==
    /\ req[r].pc = "store"
    /\ IF req[r].inv \in Live
         THEN /\ invoices' = [invoices EXCEPT ![req[r].inv].session = req[r].session]
              /\ Goto(r, "check pending", req[r])
         ELSE /\ Goto(r, "check pending", [req[r] EXCEPT !.ok = FALSE])
              /\ UNCHANGED invoices
    /\ UNCHANGED <<price, month, sessions, gen>>

CanTransition(i, to) == i \in Live /\ to \in Transitions[invoices[i].status]

\* The answer with the URL is written.
Answer(r, ok) ==
    /\ sessions' = [sessions EXCEPT ![req[r].session].state = "open",
                                    ![req[r].session].clean = ok]
    /\ Return(r)

TransitionToPending(r) ==
    /\ req[r].pc = "check pending"
    /\ IF CanTransition(req[r].inv, "pending")
         THEN Goto(r, "set pending", req[r]) /\ UNCHANGED sessions
         ELSE Answer(r, FALSE)
    /\ UNCHANGED <<invoices, price, month, gen>>

SetPending(r) ==
    /\ req[r].pc = "set pending"
    /\ IF req[r].inv \in Live
         THEN /\ invoices' = [invoices EXCEPT ![req[r].inv].status = "pending"]
              /\ Answer(r, req[r].ok)
         ELSE Answer(r, FALSE) /\ UNCHANGED invoices
    /\ UNCHANGED <<price, month, gen>>

\* Update or Transition fails: the handler goes on.
PayStoreFails(r) ==
    /\ "store" \in Faults
    /\ \/ /\ req[r].pc = "store"
          /\ Goto(r, "check pending", [req[r] EXCEPT !.ok = FALSE])
          /\ UNCHANGED sessions
       \/ /\ req[r].pc \in {"check pending", "set pending"}
          /\ Answer(r, FALSE)
    /\ UNCHANGED <<invoices, price, month, gen>>

----------------------------------------------------------------------------
(***************************************************************************)
(* verifyPaymentHandler: find the invoice that names the session, ask      *)
(* Stripe, set paid_at, transition to "paid".                              *)
(***************************************************************************)
VerifyRequest(r, s) ==
    /\ req[r].pc = "idle"
    /\ s <= Len(sessions)
    /\ sessions[s].state # "hidden"
    /\ \E i \in Newest(VerifyLimit) :
        /\ invoices[i].session = s
        /\ Goto(r, "ask", [ReqIdle EXCEPT !.inv = i, !.session = s,
                                          !.ok = invoices[i].status = "pending"])
    /\ UNCHANGED <<invoices, price, month, sessions, gen>>

\* Mutant: any answer of Stripe will do.
CheckAnySession(r) ==
    /\ req[r].pc = "ask"
    /\ IF req[r].ok THEN Goto(r, "check paid", req[r]) ELSE Return(r)
    /\ UNCHANGED <<invoices, price, month, sessions, gen>>

CheckStripeSession(r) ==
    /\ req[r].pc = "ask"
    /\ IF sessions[req[r].session].state = "paid" /\ req[r].ok
         THEN Goto(r, "check paid", req[r])
         ELSE Return(r)
    /\ UNCHANGED <<invoices, price, month, sessions, gen>>

TransitionToPaid(r) ==
    /\ req[r].pc = "check paid"
    /\ IF CanTransition(req[r].inv, "paid")
         THEN Goto(r, "set paid", req[r])
         ELSE Return(r)
    /\ UNCHANGED <<invoices, price, month, sessions, gen>>

SetPaid(r) ==
    /\ req[r].pc = "set paid"
    /\ invoices' = IF req[r].inv \in Live
                     THEN [invoices EXCEPT ![req[r].inv].status = "paid"]
                     ELSE invoices
    /\ Return(r)
    /\ UNCHANGED <<price, month, sessions, gen>>

VerifyFails(r) ==
    /\ \/ "stripe" \in Faults /\ req[r].pc = "ask"
       \/ "store" \in Faults /\ req[r].pc \in {"check paid", "set paid"}
    /\ Return(r)
    /\ UNCHANGED <<invoices, price, month, sessions, gen>>

----------------------------------------------------------------------------
(***************************************************************************)
(* The API of the resource.  A PATCH of several columns is as good as one  *)
(* for each of them, and sessions are those a client has heard of.  The    *)
(* table has no state "deleting", so that DELETE erases the row at once,   *)
(* and no state has a command.                                             *)
(***************************************************************************)
MayEdit == Cardinality({x \in Invoice \X Marks :
                           x[1] <= Len(invoices) /\ x[2] \in invoices[x[1]].edited}) < MaxEdits

Known == {NoSession} \cup {s \in 1 .. Len(sessions) : sessions[s].state # "hidden"}

Edit(i, row, mark) ==
    invoices' = [invoices EXCEPT ![i] = [row EXCEPT !.edited = @ \cup {mark}]]

\* createHandler: the owner is the client, what is not given has its default.
PostInvoice(u) ==
    /\ MayEdit
    /\ Len(invoices) < MaxInvoice
    /\ \E m \in EditMonth, s \in EditStatus, t \in EditTotal, k \in Known :
           invoices' = Append(invoices, [user |-> u, month |-> m, status |-> s, total |-> t,
                                         session |-> k, edited |-> {"posted"}])
    /\ UNCHANGED <<price, month, sessions, gen, req>>

\* updateHandler.
PatchInvoice(i) ==
    /\ MayEdit
    /\ i \in Live
    /\ \/ \E s \in EditStatus : Edit(i, [invoices[i] EXCEPT !.status = s], s)
       \/ \E t \in EditTotal : Edit(i, [invoices[i] EXCEPT !.total = t], "total")
       \/ \E k \in Known : Edit(i, [invoices[i] EXCEPT !.session = k], "session")
       \/ \E m \in EditMonth : Edit(i, [invoices[i] EXCEPT !.month = m], "month")
    /\ UNCHANGED <<price, month, sessions, gen, req>>

DeleteInvoice(i) ==
    /\ MayEdit
    /\ i \in Live
    /\ Edit(i, [invoices[i] EXCEPT !.status = "gone"], "gone")
    /\ UNCHANGED <<price, month, sessions, gen, req>>

\* transitionHandler: Transition reads and checks, then writes.
TransitionRequest(r, i) ==
    /\ req[r].pc = "idle"
    /\ MayEdit
    /\ \E to \in Status : /\ CanTransition(i, to)
                          /\ Goto(r, "set state", [ReqIdle EXCEPT !.inv = i, !.to = to])
    /\ UNCHANGED <<invoices, price, month, sessions, gen>>

SetState(r) ==
    /\ req[r].pc = "set state"
    /\ IF req[r].inv \in Live
         THEN Edit(req[r].inv, [invoices[req[r].inv] EXCEPT !.status = req[r].to], req[r].to)
         ELSE UNCHANGED invoices
    /\ Return(r)
    /\ UNCHANGED <<price, month, sessions, gen>>

SetStateFails(r) ==
    /\ "store" \in Faults
    /\ req[r].pc = "set state"
    /\ Return(r)
    /\ UNCHANGED <<invoices, price, month, sessions, gen>>

----------------------------------------------------------------------------
\* The process ends; at the next start the generator begins at once.
Crash ==
    /\ "crash" \in Faults
    /\ gen' = GenIdle
    /\ req' = [r \in Req |-> ReqIdle]
    /\ UNCHANGED <<invoices, price, month, sessions>>

Generate ==
    \/ ListDeployments \/ ListInvoices
    \/ \E u \in User : SkipSettled(u) \/ UpdateInvoice(u) \/ CreateInvoice(u) \/ BillFails(u)

Pay(r) ==
    \/ \E i \in Invoice : PayRequest(r, i)
    \/ CreateStripeCheckout(r) \/ StripeFails(r) \/ StoreSession(r)
    \/ TransitionToPending(r) \/ SetPending(r) \/ PayStoreFails(r)

Verify(r) ==
    \/ \E s \in Session : VerifyRequest(r, s)
    \/ CheckStripeSession(r) \/ TransitionToPaid(r) \/ SetPaid(r) \/ VerifyFails(r)

ClientTransition(r) ==
    \/ \E i \in Invoice : TransitionRequest(r, i)
    \/ SetState(r) \/ SetStateFails(r)

Clients ==
    \/ \E u \in User : PostInvoice(u)
    \/ \E i \in Invoice : PatchInvoice(i) \/ DeleteInvoice(i)

Surroundings ==
    \/ \E u \in User : PriceChanges(u)
    \/ \E s \in Session : CustomerPays(s)
    \/ MonthEnds

Next ==
    \/ Generate
    \/ \E r \in Req : Pay(r) \/ Verify(r) \/ ClientTransition(r)
    \/ Clients
    \/ Surroundings
    \/ Crash

Spec == Init /\ [][Next]_vars

(***************************************************************************)
(* Payments of one invoice that do not overlap each other or a run of the  *)
(* generator; everything else does.                                        *)
(***************************************************************************)
Paying(r) == req[r].pc \in {"checkout", "store", "check pending", "set pending"}

SerialStep ==
    /\ gen'.pc # "idle" => \A r \in Req : ~Paying(r)'
    /\ \A q, r \in Req : q # r /\ Paying(q)' /\ Paying(r)' => req'[q].inv # req'[r].inv

SerialSpec == Init /\ [][Next /\ SerialStep]_vars

----------------------------------------------------------------------------
\* A client wrote one of these into the row.
Edited(row, marks) == row.edited \cap marks # {}

\* An invoice is "paid" only if a session made for it has been paid: neither
\* the time between the answer of Stripe and the transition nor another
\* request in between lets verifyPaymentHandler settle the wrong invoice.
\* The exceptions are the invoices for which the API took the client's word:
\* the client wrote "paid" (by PATCH or .../transition/paid), wrote the
\* session that verifyPaymentHandler goes by, or posted the invoice.
PaidWasPaid ==
    \A i \in 1 .. Len(invoices) :
        invoices[i].status = "paid" /\ ~Edited(invoices[i], {"paid", "session", "posted"}) =>
            \E s \in 1 .. Len(sessions) : sessions[s].inv = i /\ sessions[s].state = "paid"

\* The generator makes one invoice for a customer and a month, whatever happens
\* between its list and its insertion, and however often it starts over: two
\* that are there for the same month were posted or moved there by a client.
OneInvoicePerMonth ==
    \A i, j \in Live :
        /\ invoices[i].user = invoices[j].user
        /\ invoices[i].month = invoices[j].month
        /\ ~Edited(invoices[i], {"month", "posted"}) /\ ~Edited(invoices[j], {"month", "posted"})
        => i = j

\* A client posted or deleted the row, or wrote its state, amount or session.
Touched(row) == Edited(row, Marks \ {"month"})

\* What the customer was charged is the amount of the paid invoice: no run of
\* the generator touches the amount between the checkout session that
\* invoicePayHandler creates from it and the end of the payment.  (A pay whose
\* ignored store errors left the invoice a draft is excepted, and so are the
\* invoices that clients wrote into.)
ChargedAmount ==
    \A i \in 1 .. Len(invoices) :
        LET s == invoices[i].session
        IN  /\ ~Touched(invoices[i])
            /\ invoices[i].status = "paid" /\ sessions[s].clean
            => sessions[s].amount = invoices[i].total

\* A payment is never forgotten: the invoice of a paid session that was
\* answered without an error names this session, which is how
\* verifyPaymentHandler finds it, unless a client wrote into the invoice or
\* deleted it.
PaymentIsCredited ==
    \A s \in 1 .. Len(sessions) :
        /\ sessions[s].state = "paid" /\ sessions[s].clean
        /\ ~Touched(invoices[sessions[s].inv])
        => invoices[sessions[s].inv].session = s
=============================================================================
