---------------------------- MODULE BillingProofs ----------------------------
(***************************************************************************)
(* The theorems of billing, for any customers, invoices, sessions,         *)
(* amounts, months, usage events, requests and faults.                     *)
(*                                                                         *)
(* Invoices: that a paid invoice was paid and that a customer has one      *)
(* invoice a month hold however the requests overlap; what is charged and  *)
(* credited holds for payments of an invoice that do not overlap each      *)
(* other or a run of the generator.  Clients write into the rows in all of *)
(* them, as often as they like.                                            *)
(*                                                                         *)
(* The reporter of usage events implements Metering, and never works on a  *)
(* closed database.                                                        *)
(***************************************************************************)
EXTENDS InvoiceBilling, UsageReporter, FiniteSetTheorems, SequenceTheorems,
        WellFoundedInduction, TLAPS

----------------------------------------------------------------------------
(***************************************************************************)
(* Invoices.                                                               *)
(***************************************************************************)
PayLabel == {"store", "check pending", "set pending"}
VerifyLabel == {"ask", "check paid", "set paid"}

InvoiceRow == [user : User, month : Nat, status : Status \cup {"gone"}, total : Nat,
               session : Nat, edited : SUBSET Marks]

SessionRow == [inv : Nat, amount : Nat, state : {"hidden", "open", "paid"}, clean : BOOLEAN]

ReqRow == [pc : {"idle", "checkout", "set state"} \cup PayLabel \cup VerifyLabel,
           inv : Nat, amount : Nat, session : Nat, ok : BOOLEAN, to : Status \cup {"none"}]

GenRow == [pc : {"idle", "list", "bill"}, month : Nat, bills : [User -> Nat],
           existing : [User -> Nat], status : [User -> Status \cup {"none"}],
           todo : SUBSET User]

\* The rows a request works on exist.
InRange(c, n, m) ==
    /\ c.pc # "idle" => c.inv \in 1 .. n
    /\ c.pc \in PayLabel \cup VerifyLabel => c.session \in 1 .. m
    /\ c.pc = "set state" => c.to \in Status

Typed ==
    /\ invoices \in Seq(InvoiceRow)
    /\ price \in [User -> Nat] /\ month \in Nat
    /\ sessions \in Seq(SessionRow)
    /\ gen \in GenRow /\ \A u \in User : gen.existing[u] <= Len(invoices)
    /\ req \in [Req -> ReqRow]
    /\ \A r \in Req : InRange(req[r], Len(invoices), Len(sessions))
    /\ \A i \in 1 .. Len(invoices) : invoices[i].session \in 0 .. Len(sessions)

(***************************************************************************)
(* PaidWasPaid.  The session an invoice names was made for this invoice,   *)
(* if no client wrote it; a request that has a session was given one made  *)
(* for its invoice, which nobody knows of while it is being stored and     *)
(* which has been paid once Stripe said so.                                *)
(***************************************************************************)
\* A client says which session the invoice goes by.
Relinked(row) == Edited(row, {"session", "posted"})

ReqOK(c, I, S) ==
    /\ c.pc \in PayLabel => S[c.session].inv = c.inv
    /\ c.pc \in VerifyLabel => S[c.session].inv = c.inv \/ Relinked(I[c.inv])
    /\ c.pc \in PayLabel => S[c.session].state = "hidden"
    /\ c.pc \in {"check paid", "set paid"} => S[c.session].state = "paid"

RequestsOK == \A r \in Req : ReqOK(req[r], invoices, sessions)

\* No two requests store the same session.
OwnSession ==
    \A q, r \in Req :
        q # r /\ req[q].pc \in PayLabel /\ req[r].pc \in PayLabel
            => req[q].session # req[r].session

Linked(I, S) ==
    \A i \in 1 .. Len(I) :
        I[i].session # NoSession => S[I[i].session].inv = i \/ Relinked(I[i])

PaidInv ==
    Typed /\ RequestsOK /\ OwnSession /\ Linked(invoices, sessions) /\ PaidWasPaid

(***************************************************************************)
(* OneInvoicePerMonth.  While the generator may still insert an invoice    *)
(* for a customer, there is none for the month, but those that a client    *)
(* put there.                                                              *)
(***************************************************************************)
Counts(row) == row.status # "gone" /\ ~Edited(row, {"month", "posted"})

NoneYet ==
    \A u \in User, i \in 1 .. Len(invoices) :
        gen.pc = "bill" /\ u \in gen.todo /\ gen.existing[u] = 0
            => ~(Counts(invoices[i]) /\ invoices[i].user = u /\ invoices[i].month = gen.month)

MonthInv ==
    Typed /\ Len(invoices) <= MaxInvoice /\ NoneYet /\ OneInvoicePerMonth

(***************************************************************************)
(* ChargedAmount and PaymentIsCredited.  The invoice of a payment under    *)
(* way is a draft with the amount the payment has read; that of a clean    *)
(* session is settled, has its amount and names it; that of a verification *)
(* which goes on is settled; and what the generator takes for a draft is   *)
(* one.  Of a row that a client touched nothing is known.                  *)
(***************************************************************************)
Apart ==
    /\ gen.pc # "idle" => \A r \in Req : ~Paying(r)
    /\ \A q, r \in Req : q # r /\ Paying(q) /\ Paying(r) => req[q].inv # req[r].inv

RowOK(c, row) ==
    /\ c.pc \in {"checkout"} \cup PayLabel => row.status = "draft" /\ row.total = c.amount
    /\ c.pc \in {"check pending", "set pending"} /\ c.ok => row.session = c.session
    /\ c.pc \in VerifyLabel => row.session # NoSession
    /\ (c.pc = "ask" /\ c.ok) \/ c.pc \in {"check paid", "set paid"} => Settled(row.status)

PaymentOK(c, I, S) ==
    /\ c.pc \in PayLabel => S[c.session].amount = c.amount
    /\ c.pc # "idle" => Touched(I[c.inv]) \/ RowOK(c, I[c.inv])

PaymentsOK == \A r \in Req : PaymentOK(req[r], invoices, sessions)

CleanRow(row, s, cents) == Settled(row.status) /\ row.session = s /\ row.total = cents

CleanOK(I, S) ==
    \A s \in 1 .. Len(S) :
        S[s].clean => /\ S[s].inv \in 1 .. Len(I)
                      /\ Touched(I[S[s].inv]) \/ CleanRow(I[S[s].inv], s, S[s].amount)

NeverFailed ==
    \A i \in 1 .. Len(invoices) :
        \/ Touched(invoices[i])
        \/ /\ invoices[i].status \notin {"failed", "gone"}
           /\ invoices[i].status = "paid" => invoices[i].session # NoSession

DraftsAreDrafts ==
    gen.pc = "bill" =>
        \A u \in User : UpdatesDraft(u) =>
            LET row == invoices[gen.existing[u]]
            IN  gen.existing[u] \in 1 .. Len(invoices) /\ (Touched(row) \/ row.status = "draft")

CreditInv ==
    PaidInv /\ Apart /\ PaymentsOK /\ CleanOK(invoices, sessions) /\ NeverFailed /\ DraftsAreDrafts

-----------------------------------------------------------------------------
(***************************************************************************)
(* Sets of naturals have a least and, if bounded, a greatest member, so    *)
(* that what Existing chooses is one of the rows it looks at.              *)
(***************************************************************************)
LEMMA LeastNatural ==
    ASSUME NEW T \in SUBSET Nat, T # {}
    PROVE  \E x \in T : \A y \in T : x <= y
<1> DEFINE R == {p \in Nat \X Nat : p[1] < p[2]}
<1>1. R = OpToRel(<, Nat)
  BY DEF OpToRel
<1>2. IsWellFoundedOn(R, Nat)
  BY <1>1, NatLessThanWellFounded, Zenon
<1>3. PICK x \in T : \A y \in T : ~(<<y, x>> \in R)
  <2> HIDE DEF R
  <2> QED BY <1>2, WFMin, Zenon
<1>4. \A y \in T : ~(y < x)
  BY <1>3
<1> QED BY <1>3, <1>4

LEMMA GreatestNatural ==
    ASSUME NEW n \in Nat, NEW T \in SUBSET (1 .. n), T # {}
    PROVE  \E x \in T : \A y \in T : y <= x
<1> DEFINE D == {n - t : t \in T}
<1>1. \A t \in T : t \in Nat /\ n - t \in Nat
  OBVIOUS
<1>2. D \in SUBSET Nat /\ D # {}
  BY <1>1
<1>3. PICK d \in D : \A e \in D : d <= e
  <2> HIDE DEF D
  <2> QED BY <1>2, LeastNatural
<1>4. PICK x \in T : d = n - x
  BY <1>3
<1>5. \A y \in T : n - y \in D
  OBVIOUS
<1>6. \A y \in T : d <= n - y
  BY <1>3, <1>5
<1>7. \A y \in T : y <= x
  BY <1>1, <1>4, <1>6
<1> QED BY <1>7

-----------------------------------------------------------------------------
(***************************************************************************)
(* What clients wrote is a matter of the field "edited", which only grows. *)
(***************************************************************************)
LEMMA MarksGrow ==
    ASSUME NEW a, NEW b, a.edited \subseteq b.edited
    PROVE  /\ Touched(a) => Touched(b)
           /\ Relinked(a) => Relinked(b)
           /\ \A M : Edited(a, M) => Edited(b, M)
BY DEF Touched, Relinked, Edited

LEMMA SameMarks ==
    ASSUME NEW a, NEW b, a.edited = b.edited
    PROVE  /\ Touched(a) <=> Touched(b)
           /\ Relinked(a) <=> Relinked(b)
           /\ \A M : Edited(a, M) <=> Edited(b, M)
BY DEF Touched, Relinked, Edited

\* The rows that Existing looks at, and what it makes of them.
Mine(u) == {i \in Newest(GenLimit) : invoices[i].user = u /\ invoices[i].month = gen.month}

LEMMA ExistingIsMine ==
    ASSUME Typed, NEW u \in User
    PROVE  /\ Existing(u) = 0 => Mine(u) = {}
           /\ Existing(u) # 0 => Existing(u) \in Mine(u)
           /\ Existing(u) # 0 => Existing(u) \in 1 .. Len(invoices) /\ Existing(u) \in Live
           /\ Existing(u) \in Nat
<1> DEFINE mine == {i \in Newest(GenLimit) : invoices[i].user = u /\ invoices[i].month = gen.month}
           settled == {i \in mine : Settled(invoices[i].status)}
<1>1. Len(invoices) \in Nat
  BY DEF Typed
<1>2. /\ mine = Mine(u) /\ mine \in SUBSET (1 .. Len(invoices)) /\ mine \in SUBSET Nat
      /\ mine \in SUBSET Live
  BY <1>1 DEF Mine, Newest, Live
<1>3. settled \in SUBSET mine /\ settled \in SUBSET (1 .. Len(invoices))
  BY <1>2
<1>4. Existing(u) = IF mine = {} THEN 0
                    ELSE IF settled # {} THEN CHOOSE i \in settled : \A j \in settled : j <= i
                    ELSE CHOOSE i \in mine : \A j \in mine : i <= j
  BY DEF Existing
<1> HIDE DEF mine, settled
<1>5. settled # {} => (CHOOSE i \in settled : \A j \in settled : j <= i) \in settled
  BY <1>1, <1>3, GreatestNatural
<1>6. mine # {} => (CHOOSE i \in mine : \A j \in mine : i <= j) \in mine
  BY <1>2, LeastNatural
<1>7. CASE mine = {}
  BY <1>2, <1>4, <1>7
<1>8. CASE mine # {}
  <2>1. Existing(u) \in mine
    BY <1>3, <1>4, <1>5, <1>6, <1>8
  <2>2. Existing(u) \in 1 .. Len(invoices) /\ Existing(u) \in Live
    BY <1>2, <2>1
  <2> QED BY <1>1, <1>2, <2>1, <2>2
<1> QED BY <1>7, <1>8

-----------------------------------------------------------------------------
(***************************************************************************)
(* Types, and what the assignments of the actions do to the two tables.    *)
(***************************************************************************)
LEMMA IdleTyped ==
    /\ GenIdle \in GenRow /\ GenIdle.pc = "idle"
    /\ ReqIdle \in ReqRow /\ ReqIdle.pc = "idle"
BY DEF GenIdle, GenRow, ReqIdle, ReqRow, NoSession, Status

\* The rows of the two tables.
LEMMA RowTyped ==
    ASSUME Typed
    PROVE  /\ Len(invoices) \in Nat /\ Len(sessions) \in Nat
           /\ \A i \in 1 .. Len(invoices) : invoices[i] \in InvoiceRow
           /\ \A s \in 1 .. Len(sessions) : sessions[s] \in SessionRow
           /\ \A i \in Live : i \in 1 .. Len(invoices) /\ invoices[i].status \in Status
<1>1. \A i \in 1 .. Len(invoices) : invoices[i] \in InvoiceRow
  BY DEF Typed
<1>2. \A i \in Live : i \in 1 .. Len(invoices) /\ invoices[i].status \in Status
  BY <1>1 DEF Live, InvoiceRow
<1> QED BY <1>1, <1>2 DEF Typed

LEMMA InitTyped == Init => Typed
<1> SUFFICES ASSUME Init PROVE Typed
  OBVIOUS
<1>1. /\ invoices \in Seq(InvoiceRow) /\ Len(invoices) = 0
      /\ sessions \in Seq(SessionRow) /\ Len(sessions) = 0
  BY EmptySeq DEF Init
<1>2. \A r \in Req : req[r] = ReqIdle /\ InRange(ReqIdle, 0, 0)
  BY IdleTyped DEF Init, InRange, PayLabel, VerifyLabel
<1>3. \A u \in User : GenIdle.existing[u] <= 0
  BY DEF GenIdle
<1> QED BY <1>1, <1>2, <1>3, IdleTyped DEF Init, Typed

\* Rows that are there stay there.
LEMMA InRangeGrows ==
    ASSUME NEW c, NEW n \in Nat, NEW n2 \in Nat, n <= n2, NEW m \in Nat, NEW m2 \in Nat, m <= m2,
           InRange(c, n, m)
    PROVE  InRange(c, n2, m2)
<1>1. 1 .. n \subseteq 1 .. n2 /\ 1 .. m \subseteq 1 .. m2
  OBVIOUS
<1> QED BY <1>1, Zenon DEF InRange

\* One request moves on.
LEMMA MoveShape ==
    ASSUME Typed, NEW r \in Req, NEW c \in ReqRow, req' = [req EXCEPT ![r] = c]
    PROVE  /\ req' \in [Req -> ReqRow] /\ req'[r] = c
           /\ \A q \in Req : req'[q] = IF q = r THEN c ELSE req[q]
BY DEF Typed

LEMMA MoveTyped ==
    ASSUME Typed, NEW r \in Req, NEW c \in ReqRow, req' = [req EXCEPT ![r] = c],
           invoices' \in Seq(InvoiceRow), Len(invoices') = Len(invoices),
           sessions' \in Seq(SessionRow), Len(sessions') >= Len(sessions),
           InRange(c, Len(invoices'), Len(sessions')),
           \A i \in 1 .. Len(invoices) : invoices'[i].session = invoices[i].session,
           UNCHANGED <<price, month, gen>>
    PROVE  Typed'
<1>1. \A q \in Req : InRange(req'[q], Len(invoices'), Len(sessions'))
  <2>1. \A q \in Req : InRange(req[q], Len(invoices), Len(sessions))
    BY DEF Typed
  <2>2. /\ Len(invoices) \in Nat /\ Len(sessions) \in Nat
        /\ Len(invoices') \in Nat /\ Len(sessions') \in Nat
    BY RowTyped
  <2>3. \A q \in Req : InRange(req[q], Len(invoices'), Len(sessions'))
    BY <2>1, <2>2, InRangeGrows
  <2> QED BY <2>3, MoveShape
<1>2. \A i \in 1 .. Len(invoices') : invoices'[i].session \in 0 .. Len(sessions')
  <2>1. \A i \in 1 .. Len(invoices) : invoices[i].session \in 0 .. Len(sessions)
    BY DEF Typed
  <2>2. Len(sessions) \in Nat /\ Len(sessions') \in Nat
    BY RowTyped
  <2> QED BY <2>1, <2>2
<1> QED BY <1>1, <1>2, MoveShape DEF Typed

\* The generator takes one customer from its list.
LEMMA GenNextTyped ==
    ASSUME Typed, NEW u \in User, Billing(u), GenNext(u)
    PROVE  /\ gen' \in GenRow /\ \A v \in User : gen'.existing[v] <= Len(invoices)
           /\ \/ gen' = GenIdle
              \/ /\ gen'.todo = gen.todo \ {u} /\ gen'.pc = "bill" /\ gen'.month = gen.month
                 /\ gen'.existing = gen.existing /\ gen'.status = gen.status
<1>1. CASE gen' = GenIdle
  BY <1>1, IdleTyped, RowTyped DEF GenIdle
<1>2. CASE gen' = [gen EXCEPT !.todo = gen.todo \ {u}]
  <2>1. gen \in GenRow /\ \A v \in User : gen.existing[v] <= Len(invoices)
    BY DEF Typed
  <2>2. gen' \in GenRow /\ gen'.existing = gen.existing
    BY <1>2, <2>1 DEF GenRow
  <2>3. /\ gen'.todo = gen.todo \ {u} /\ gen'.pc = "bill" /\ gen'.month = gen.month
        /\ gen'.status = gen.status
    BY <1>2, <2>1 DEF GenRow, Billing
  <2> QED BY <2>1, <2>2, <2>3
<1> QED BY <1>1, <1>2 DEF GenNext

\* Writes that find their row.
UpdateLive(u) == UpdateInvoice(u) /\ gen.existing[u] \in Live
StoreLive(r) == StoreSession(r) /\ req[r].inv \in Live
SetPendingLive(r) == SetPending(r) /\ req[r].inv \in Live
SetPaidLive(r) == SetPaid(r) /\ req[r].inv \in Live

\* The amount of a draft is brought up to date: which row, and what it is now.
LEMMA UpdateShape ==
    ASSUME Typed, NEW u \in User, UpdateLive(u)
    PROVE  /\ gen.existing[u] \in 1 .. Len(invoices)
           /\ invoices' \in Seq(InvoiceRow) /\ Len(invoices') = Len(invoices)
           /\ \A i \in 1 .. Len(invoices) :
                /\ invoices'[i].user = invoices[i].user /\ invoices'[i].month = invoices[i].month
                /\ invoices'[i].status = invoices[i].status
                /\ invoices'[i].session = invoices[i].session
                /\ invoices'[i].edited = invoices[i].edited
                /\ i # gen.existing[u] => invoices'[i] = invoices[i]
<1> DEFINE k == gen.existing[u]
           row == [invoices[k] EXCEPT !.total = gen.bills[u]]
<1>1. invoices' = [invoices EXCEPT ![k] = row]
  BY DEF UpdateLive, UpdateInvoice
<1>2. k \in 1 .. Len(invoices) /\ gen.bills[u] \in Nat
  BY RowTyped DEF Typed, GenRow, UpdateLive
<1>3. invoices[k] \in InvoiceRow
  BY <1>2, RowTyped
<1>4. /\ row \in InvoiceRow /\ row.user = invoices[k].user /\ row.month = invoices[k].month
      /\ row.status = invoices[k].status /\ row.session = invoices[k].session
      /\ row.edited = invoices[k].edited
  BY <1>2, <1>3 DEF InvoiceRow
<1> HIDE DEF row
<1>5. /\ invoices' \in Seq(InvoiceRow) /\ Len(invoices') = Len(invoices)
      /\ \A i \in 1 .. Len(invoices) : invoices'[i] = IF i = k THEN row ELSE invoices[i]
  BY <1>1, <1>2, <1>4, ExceptSeq DEF Typed
<1> QED BY <1>2, <1>4, <1>5

LEMMA UpdateTyped ==
    ASSUME Typed, NEW u \in User, UpdateLive(u)
    PROVE  Typed'
BY UpdateShape, GenNextTyped DEF UpdateLive, UpdateInvoice, Typed

\* A new draft at the end.
LEMMA CreateShape ==
    ASSUME Typed, NEW u \in User, CreateInvoice(u)
    PROVE  /\ invoices' \in Seq(InvoiceRow) /\ Len(invoices') = Len(invoices) + 1
           /\ \A i \in 1 .. Len(invoices) : invoices'[i] = invoices[i]
           /\ invoices'[Len(invoices) + 1].user = u
           /\ invoices'[Len(invoices) + 1].month = gen.month
           /\ invoices'[Len(invoices) + 1].status = "draft"
           /\ invoices'[Len(invoices) + 1].session = NoSession
           /\ invoices'[Len(invoices) + 1].edited = {}
<1> DEFINE row == [user |-> u, month |-> gen.month, status |-> "draft",
                   total |-> gen.bills[u], session |-> NoSession, edited |-> {}]
<1>1. invoices' = Append(invoices, row)
  BY DEF CreateInvoice
<1>2. row \in InvoiceRow
  BY DEF Typed, GenRow, InvoiceRow, Status, NoSession
<1>3. row.user = u /\ row.month = gen.month /\ row.status = "draft" /\ row.session = NoSession
      /\ row.edited = {}
  OBVIOUS
<1> HIDE DEF row
<1> QED BY <1>1, <1>2, <1>3, AppendProperties DEF Typed

LEMMA CreateTyped ==
    ASSUME Typed, NEW u \in User, CreateInvoice(u)
    PROVE  Typed'
<1>1. \A r \in Req : InRange(req[r], Len(invoices'), Len(sessions))
  <2>1. /\ Len(invoices) \in Nat /\ Len(sessions) \in Nat /\ Len(sessions) <= Len(sessions)
        /\ Len(invoices') \in Nat /\ Len(invoices) <= Len(invoices')
    BY CreateShape, RowTyped
  <2>2. \A r \in Req : InRange(req[r], Len(invoices), Len(sessions))
    BY DEF Typed
  <2> QED BY <2>1, <2>2, InRangeGrows
<1>2. gen' \in GenRow /\ \A v \in User : gen'.existing[v] <= Len(invoices')
  BY CreateShape, RowTyped, GenNextTyped DEF CreateInvoice, GenRow
<1>3. \A i \in 1 .. Len(invoices') : invoices'[i].session \in 0 .. Len(sessions)
  <2>1. \A i \in 1 .. Len(invoices') : i \in 1 .. Len(invoices) \/ i = Len(invoices) + 1
    BY CreateShape, RowTyped
  <2> QED BY <2>1, CreateShape, RowTyped DEF Typed, NoSession
<1> QED BY <1>1, <1>2, <1>3, CreateShape DEF CreateInvoice, Typed

\* One field of an invoice is set: its session or its status.
LEMMA StoreShape ==
    ASSUME Typed, NEW r \in Req, StoreLive(r)
    PROVE  /\ invoices' \in Seq(InvoiceRow) /\ Len(invoices') = Len(invoices)
           /\ \A i \in 1 .. Len(invoices) :
                /\ invoices'[i].user = invoices[i].user /\ invoices'[i].month = invoices[i].month
                /\ invoices'[i].status = invoices[i].status
                /\ invoices'[i].total = invoices[i].total
                /\ invoices'[i].edited = invoices[i].edited
                /\ invoices'[i].session = IF i = req[r].inv THEN req[r].session
                                                            ELSE invoices[i].session
<1> DEFINE k == req[r].inv
           row == [invoices[k] EXCEPT !.session = req[r].session]
<1>1. invoices' = [invoices EXCEPT ![k] = row]
  BY DEF StoreLive, StoreSession
<1>2. k \in 1 .. Len(invoices) /\ req[r].session \in Nat
  BY RowTyped DEF Typed, ReqRow, StoreLive
<1>3. invoices[k] \in InvoiceRow
  BY <1>2, RowTyped
<1>4. /\ row \in InvoiceRow /\ row.user = invoices[k].user /\ row.month = invoices[k].month
      /\ row.status = invoices[k].status /\ row.total = invoices[k].total
      /\ row.session = req[r].session /\ row.edited = invoices[k].edited
  BY <1>2, <1>3 DEF InvoiceRow
<1> HIDE DEF row
<1>5. /\ invoices' \in Seq(InvoiceRow) /\ Len(invoices') = Len(invoices)
      /\ \A i \in 1 .. Len(invoices) : invoices'[i] = IF i = k THEN row ELSE invoices[i]
  BY <1>1, <1>2, <1>4, ExceptSeq DEF Typed
<1> QED BY <1>4, <1>5

LEMMA StatusShape ==
    ASSUME Typed, NEW k \in 1 .. Len(invoices), NEW st \in Status,
           invoices' = [invoices EXCEPT ![k].status = st]
    PROVE  /\ invoices' \in Seq(InvoiceRow) /\ Len(invoices') = Len(invoices)
           /\ \A i \in 1 .. Len(invoices) :
                /\ invoices'[i].user = invoices[i].user /\ invoices'[i].month = invoices[i].month
                /\ invoices'[i].session = invoices[i].session
                /\ invoices'[i].total = invoices[i].total
                /\ invoices'[i].edited = invoices[i].edited
                /\ invoices'[i].status = IF i = k THEN st ELSE invoices[i].status
<1> DEFINE row == [invoices[k] EXCEPT !.status = st]
<1>1. invoices' = [invoices EXCEPT ![k] = row]
  OBVIOUS
<1>2. invoices[k] \in InvoiceRow
  BY RowTyped
<1>3. /\ row \in InvoiceRow /\ row.user = invoices[k].user /\ row.month = invoices[k].month
      /\ row.session = invoices[k].session /\ row.total = invoices[k].total
      /\ row.status = st /\ row.edited = invoices[k].edited
  BY <1>2 DEF InvoiceRow
<1> HIDE DEF row
<1>4. invoices \in Seq(InvoiceRow)
  BY DEF Typed
<1>5. LET t == [invoices EXCEPT ![k] = row]
      IN  /\ t \in Seq(InvoiceRow) /\ Len(t) = Len(invoices)
          /\ \A i \in 1 .. Len(invoices) : t[i] = IF i = k THEN row ELSE invoices[i]
  BY <1>3, <1>4, ExceptSeq
<1> QED BY <1>1, <1>3, <1>5

\* A client writes into row k: the row says so.
EditedRow(k) ==
    /\ k \in Live
    /\ invoices' \in Seq(InvoiceRow) /\ Len(invoices') = Len(invoices)
    /\ \A i \in 1 .. Len(invoices) :
        /\ invoices'[i].user = invoices[i].user
        /\ i # k => invoices'[i] = invoices[i]
        /\ invoices[i].edited \subseteq invoices'[i].edited
    /\ invoices'[k].month # invoices[k].month => Edited(invoices'[k], {"month"})
    /\ invoices'[k].status # invoices[k].status => invoices'[k].status \in invoices'[k].edited
    /\ invoices'[k].session \in 0 .. Len(sessions)
    /\ invoices'[k].session # invoices[k].session => Relinked(invoices'[k])
    /\ \/ Touched(invoices'[k])
       \/ /\ invoices'[k].status = invoices[k].status /\ invoices'[k].total = invoices[k].total
          /\ invoices'[k].session = invoices[k].session

LEMMA EditShape ==
    ASSUME Typed, NEW k \in Live, NEW row \in InvoiceRow, NEW mark \in Marks,
           Edit(k, row, mark),
           row.user = invoices[k].user, row.edited = invoices[k].edited,
           row.month # invoices[k].month => mark = "month",
           row.status # invoices[k].status => mark = row.status,
           row.session # invoices[k].session => mark = "session",
           row.session \in 0 .. Len(sessions),
           row.total # invoices[k].total => mark = "total"
    PROVE  EditedRow(k)
<1> DEFINE new == [row EXCEPT !.edited = @ \cup {mark}]
<1>1. invoices' = [invoices EXCEPT ![k] = new]
  BY DEF Edit
<1>2. k \in 1 .. Len(invoices) /\ invoices \in Seq(InvoiceRow)
  BY RowTyped DEF Typed
<1>3. /\ new \in InvoiceRow /\ new.user = row.user /\ new.month = row.month
      /\ new.status = row.status /\ new.total = row.total /\ new.session = row.session
      /\ new.edited = invoices[k].edited \cup {mark}
  BY DEF InvoiceRow
<1> HIDE DEF new
<1>4. /\ invoices' \in Seq(InvoiceRow) /\ Len(invoices') = Len(invoices)
      /\ \A i \in 1 .. Len(invoices) : invoices'[i] = IF i = k THEN new ELSE invoices[i]
  BY <1>1, <1>2, <1>3, ExceptSeq
<1>5. invoices'[k] = new
  BY <1>2, <1>4
<1>6. mark \in new.edited /\ invoices[k].edited \subseteq new.edited
  BY <1>3
<1>7. /\ mark = "month" => Edited(new, {"month"})
      /\ mark = "session" => Relinked(new)
      /\ mark # "month" => Touched(new)
  BY <1>6 DEF Edited, Relinked, Touched
<1>8. \A i \in 1 .. Len(invoices) :
        /\ invoices'[i].user = invoices[i].user
        /\ i # k => invoices'[i] = invoices[i]
        /\ invoices[i].edited \subseteq invoices'[i].edited
  BY <1>3, <1>4, <1>6
<1>9. Touched(new) \/ /\ new.status = invoices[k].status /\ new.total = invoices[k].total
                      /\ new.session = invoices[k].session
  <2>1. CASE mark # "month"
    BY <1>7, <2>1
  <2>2. CASE mark = "month"
    <3>1. row.session = invoices[k].session /\ row.total = invoices[k].total
      BY <2>2
    <3>2. row.status = invoices[k].status
      BY <2>2 DEF InvoiceRow, Status
    <3> QED BY <1>3, <3>1, <3>2
  <2> QED BY <2>1, <2>2
<1>10. /\ new.month # invoices[k].month => Edited(new, {"month"})
       /\ new.status # invoices[k].status => new.status \in new.edited
       /\ new.session # invoices[k].session => Relinked(new)
       /\ new.session \in 0 .. Len(sessions)
  BY <1>3, <1>6, <1>7
<1> QED BY <1>4, <1>5, <1>8, <1>9, <1>10 DEF EditedRow

LEMMA PatchShape ==
    ASSUME Typed, NEW k \in Invoice, PatchInvoice(k)
    PROVE  EditedRow(k)
<1>1. k \in Live
  BY DEF PatchInvoice
<1>2. invoices[k] \in InvoiceRow /\ invoices[k].session \in 0 .. Len(sessions)
  BY <1>1, RowTyped DEF Typed
<1>3. ASSUME NEW st \in EditStatus, Edit(k, [invoices[k] EXCEPT !.status = st], st)
      PROVE  EditedRow(k)
  <2> DEFINE row == [invoices[k] EXCEPT !.status = st]
  <2>1. st \in Status /\ st \in Marks
    BY BillingAssumption DEF Marks
  <2>2. /\ row \in InvoiceRow /\ row.user = invoices[k].user /\ row.edited = invoices[k].edited
        /\ row.month = invoices[k].month /\ row.status = st /\ row.total = invoices[k].total
        /\ row.session = invoices[k].session
    BY <1>2, <2>1 DEF InvoiceRow
  <2>3. Edit(k, row, st)
    BY <1>3
  <2> HIDE DEF row
  <2> QED BY <1>1, <1>2, <2>1, <2>2, <2>3, EditShape
<1>4. ASSUME NEW t \in EditTotal, Edit(k, [invoices[k] EXCEPT !.total = t], "total")
      PROVE  EditedRow(k)
  <2> DEFINE row == [invoices[k] EXCEPT !.total = t]
  <2>1. t \in Nat /\ "total" \in Marks
    BY BillingAssumption DEF Marks
  <2>2. /\ row \in InvoiceRow /\ row.user = invoices[k].user /\ row.edited = invoices[k].edited
        /\ row.month = invoices[k].month /\ row.status = invoices[k].status
        /\ row.session = invoices[k].session
    BY <1>2, <2>1 DEF InvoiceRow
  <2>3. Edit(k, row, "total")
    BY <1>4
  <2> HIDE DEF row
  <2> QED BY <1>1, <1>2, <2>1, <2>2, <2>3, EditShape
<1>5. ASSUME NEW t \in Known, Edit(k, [invoices[k] EXCEPT !.session = t], "session")
      PROVE  EditedRow(k)
  <2> DEFINE row == [invoices[k] EXCEPT !.session = t]
  <2>1. t \in Nat /\ t \in 0 .. Len(sessions) /\ "session" \in Marks
    BY RowTyped DEF Known, NoSession, Marks
  <2>2. /\ row \in InvoiceRow /\ row.user = invoices[k].user /\ row.edited = invoices[k].edited
        /\ row.month = invoices[k].month /\ row.status = invoices[k].status
        /\ row.total = invoices[k].total /\ row.session = t
    BY <1>2, <2>1 DEF InvoiceRow
  <2>3. Edit(k, row, "session")
    BY <1>5
  <2> HIDE DEF row
  <2> QED BY <1>1, <1>2, <2>1, <2>2, <2>3, EditShape
<1>6. ASSUME NEW m \in EditMonth, Edit(k, [invoices[k] EXCEPT !.month = m], "month")
      PROVE  EditedRow(k)
  <2> DEFINE row == [invoices[k] EXCEPT !.month = m]
  <2>1. m \in Nat /\ "month" \in Marks
    BY BillingAssumption DEF Marks
  <2>2. /\ row \in InvoiceRow /\ row.user = invoices[k].user /\ row.edited = invoices[k].edited
        /\ row.total = invoices[k].total /\ row.status = invoices[k].status
        /\ row.session = invoices[k].session
    BY <1>2, <2>1 DEF InvoiceRow
  <2>3. Edit(k, row, "month")
    BY <1>6
  <2> HIDE DEF row
  <2> QED BY <1>1, <1>2, <2>1, <2>2, <2>3, EditShape
<1> QED BY <1>3, <1>4, <1>5, <1>6 DEF PatchInvoice

LEMMA ToStateShape ==
    ASSUME Typed, NEW k \in Live, NEW st \in Status \cup {"gone"},
           Edit(k, [invoices[k] EXCEPT !.status = st], st)
    PROVE  EditedRow(k)
<1> DEFINE row == [invoices[k] EXCEPT !.status = st]
<1>1. invoices[k] \in InvoiceRow /\ invoices[k].session \in 0 .. Len(sessions)
  BY RowTyped DEF Typed
<1>2. /\ row \in InvoiceRow /\ row.user = invoices[k].user /\ row.edited = invoices[k].edited
      /\ row.month = invoices[k].month /\ row.status = st /\ row.total = invoices[k].total
      /\ row.session = invoices[k].session
  BY <1>1 DEF InvoiceRow
<1>3. Edit(k, row, st) /\ st \in Marks
  BY DEF Marks
<1> HIDE DEF row
<1> QED BY <1>1, <1>2, <1>3, EditShape

\* A client's own row at the end.
LEMMA PostShape ==
    ASSUME Typed, NEW u \in User, PostInvoice(u)
    PROVE  /\ invoices' \in Seq(InvoiceRow) /\ Len(invoices') = Len(invoices) + 1
           /\ \A i \in 1 .. Len(invoices) : invoices'[i] = invoices[i]
           /\ invoices'[Len(invoices) + 1].session \in 0 .. Len(sessions)
           /\ invoices'[Len(invoices) + 1].edited = {"posted"}
           /\ Len(invoices) < MaxInvoice
<1>1. PICK m \in EditMonth, st \in EditStatus, t \in EditTotal, k \in Known :
           invoices' = Append(invoices, [user |-> u, month |-> m, status |-> st, total |-> t,
                                         session |-> k, edited |-> {"posted"}])
  BY DEF PostInvoice
<1> DEFINE row == [user |-> u, month |-> m, status |-> st, total |-> t,
                   session |-> k, edited |-> {"posted"}]
<1>2. k \in Nat /\ k \in 0 .. Len(sessions)
  BY RowTyped DEF Known, NoSession
<1>3. row \in InvoiceRow
  BY <1>2, BillingAssumption DEF InvoiceRow, Marks
<1>4. row.session = k /\ row.edited = {"posted"}
  OBVIOUS
<1> HIDE DEF row
<1>5. invoices' = Append(invoices, row) /\ invoices \in Seq(InvoiceRow)
  BY <1>1 DEF row, Typed
<1>6. Len(invoices) < MaxInvoice
  BY DEF PostInvoice
<1> QED BY <1>2, <1>3, <1>4, <1>5, <1>6, AppendProperties

LEMMA PostTyped ==
    ASSUME Typed, NEW u \in User, PostInvoice(u)
    PROVE  Typed'
<1>1. \A r \in Req : InRange(req[r], Len(invoices'), Len(sessions))
  <2>1. /\ Len(invoices) \in Nat /\ Len(sessions) \in Nat /\ Len(sessions) <= Len(sessions)
        /\ Len(invoices') \in Nat /\ Len(invoices) <= Len(invoices')
    BY PostShape, RowTyped
  <2>2. \A r \in Req : InRange(req[r], Len(invoices), Len(sessions))
    BY DEF Typed
  <2> QED BY <2>1, <2>2, InRangeGrows
<1>2. \A v \in User : gen.existing[v] <= Len(invoices')
  BY PostShape, RowTyped DEF Typed, GenRow
<1>3. \A i \in 1 .. Len(invoices') : invoices'[i].session \in 0 .. Len(sessions)
  <2>1. \A i \in 1 .. Len(invoices') : i \in 1 .. Len(invoices) \/ i = Len(invoices) + 1
    BY PostShape, RowTyped
  <2> QED BY <2>1, PostShape, RowTyped DEF Typed
<1> QED BY <1>1, <1>2, <1>3, PostShape DEF PostInvoice, Typed

LEMMA EditTyped ==
    ASSUME Typed, NEW k, EditedRow(k), UNCHANGED <<price, month, sessions, gen>>,
           req' \in [Req -> ReqRow],
           \A q \in Req : req'[q] = req[q] \/ req'[q] = ReqIdle
    PROVE  Typed'
<1>1. \A i \in 1 .. Len(invoices') : invoices'[i].session \in 0 .. Len(sessions)
  BY DEF EditedRow, Typed
<1>2. \A q \in Req : InRange(req'[q], Len(invoices'), Len(sessions))
  BY IdleTyped DEF EditedRow, Typed, InRange, PayLabel, VerifyLabel
<1> QED BY <1>1, <1>2 DEF EditedRow, Typed

\* A new session that nobody knows of yet.
LEMMA CheckoutShape ==
    ASSUME Typed, NEW r \in Req, CreateStripeCheckout(r)
    PROVE  /\ sessions' \in Seq(SessionRow) /\ Len(sessions') = Len(sessions) + 1
           /\ \A s \in 1 .. Len(sessions) : sessions'[s] = sessions[s]
           /\ sessions'[Len(sessions) + 1] = NewSession(req[r].inv, req[r].amount)
           /\ sessions'[Len(sessions) + 1] \in SessionRow
<1>1. req[r].inv \in Nat /\ req[r].amount \in Nat
  BY DEF Typed, ReqRow
<1>2. NewSession(req[r].inv, req[r].amount) \in SessionRow
  BY <1>1 DEF NewSession, SessionRow
<1>3. sessions' = Append(sessions, NewSession(req[r].inv, req[r].amount))
  BY DEF CreateStripeCheckout
<1> QED BY <1>2, <1>3, AppendProperties DEF Typed

\* The state of a session is set, by the answer to the client or by the client.
LEMMA AnswerShape ==
    ASSUME Typed, NEW r \in Req, req[r].pc \in PayLabel, NEW ok \in BOOLEAN, Answer(r, ok)
    PROVE  /\ sessions' \in Seq(SessionRow) /\ Len(sessions') = Len(sessions)
           /\ \A s \in 1 .. Len(sessions) :
                /\ sessions'[s].inv = sessions[s].inv /\ sessions'[s].amount = sessions[s].amount
                /\ s # req[r].session => sessions'[s] = sessions[s]
                /\ s = req[r].session => sessions'[s].state = "open" /\ sessions'[s].clean = ok
           /\ req' = [req EXCEPT ![r] = ReqIdle]
<1> DEFINE k == req[r].session
           row == [sessions[k] EXCEPT !.state = "open", !.clean = ok]
<1>1. sessions' = [sessions EXCEPT ![k] = row] /\ req' = [req EXCEPT ![r] = ReqIdle]
  BY DEF Answer, Return
<1>2. k \in 1 .. Len(sessions)
  BY DEF Typed, InRange
<1>3. sessions[k] \in SessionRow
  BY <1>2, RowTyped
<1>4. /\ row \in SessionRow /\ row.inv = sessions[k].inv /\ row.amount = sessions[k].amount
      /\ row.state = "open" /\ row.clean = ok
  BY <1>3 DEF SessionRow
<1> HIDE DEF row
<1>5. /\ sessions' \in Seq(SessionRow) /\ Len(sessions') = Len(sessions)
      /\ \A s \in 1 .. Len(sessions) : sessions'[s] = IF s = k THEN row ELSE sessions[s]
  BY <1>1, <1>2, <1>4, ExceptSeq DEF Typed
<1> QED BY <1>1, <1>2, <1>4, <1>5

LEMMA PaysShape ==
    ASSUME Typed, NEW k \in Session, CustomerPays(k)
    PROVE  /\ sessions' \in Seq(SessionRow) /\ Len(sessions') = Len(sessions)
           /\ k \in 1 .. Len(sessions) /\ sessions[k].state = "open"
           /\ \A s \in 1 .. Len(sessions) :
                /\ sessions'[s].inv = sessions[s].inv /\ sessions'[s].amount = sessions[s].amount
                /\ sessions'[s].clean = sessions[s].clean
                /\ sessions'[s].state = IF s = k THEN "paid" ELSE sessions[s].state
<1> DEFINE row == [sessions[k] EXCEPT !.state = "paid"]
<1>1. sessions' = [sessions EXCEPT ![k] = row] /\ sessions[k].state = "open"
  BY DEF CustomerPays
<1>2. k \in 1 .. Len(sessions)
  BY RowTyped, BillingAssumption DEF CustomerPays, Session
<1>3. sessions[k] \in SessionRow
  BY <1>2, RowTyped
<1>4. /\ row \in SessionRow /\ row.inv = sessions[k].inv /\ row.amount = sessions[k].amount
      /\ row.state = "paid" /\ row.clean = sessions[k].clean
  BY <1>3 DEF SessionRow
<1> HIDE DEF row
<1>5. /\ sessions' \in Seq(SessionRow) /\ Len(sessions') = Len(sessions)
      /\ \A s \in 1 .. Len(sessions) : sessions'[s] = IF s = k THEN row ELSE sessions[s]
  BY <1>1, <1>2, <1>4, ExceptSeq DEF Typed
<1> QED BY <1>1, <1>2, <1>4, <1>5

-----------------------------------------------------------------------------
(***************************************************************************)
(* The moves of a request that change nothing else: where it goes to, and  *)
(* what it then knows.                                                     *)
(***************************************************************************)
\* A request with record c has begun a payment, or a verification that goes
\* on only if the invoice is "pending"; or it goes on with what it knew.
Moves(r, c) ==
    /\ c \in ReqRow
    /\ \/ c = ReqIdle
       \/ /\ c.pc = "checkout" /\ c.inv \in 1 .. Len(invoices) /\ Payable(c.inv)
          /\ c.amount = invoices[c.inv].total /\ req[r].pc = "idle"
       \/ /\ c.pc = "ask" /\ c.inv \in 1 .. Len(invoices) /\ c.session \in 1 .. Len(sessions)
          /\ invoices[c.inv].session = c.session
          /\ c.ok => invoices[c.inv].status = "pending"
       \/ c.pc = "set state" /\ c.inv \in 1 .. Len(invoices) /\ c.to \in Status
       \/ /\ c.inv = req[r].inv /\ c.session = req[r].session /\ c.amount = req[r].amount
          /\ c.ok => req[r].ok
          /\ \/ req[r].pc = "store" /\ c.pc = "check pending" /\ ~c.ok
             \/ req[r].pc = "check pending" /\ c.pc = "set pending"
             \/ /\ req[r].pc = "ask" /\ c.pc = "check paid" /\ req[r].ok
                /\ sessions[req[r].session].state = "paid"
             \/ req[r].pc = "check paid" /\ c.pc = "set paid"

\* The actions that are such moves.
Move(r) ==
    /\ UNCHANGED <<invoices, price, month, sessions, gen>>
    /\ \E c : Moves(r, c) /\ req' = [req EXCEPT ![r] = c]

LEMMA ReturnMoves ==
    ASSUME NEW r \in Req, Return(r), UNCHANGED <<invoices, price, month, sessions, gen>>
    PROVE  Move(r)
BY IdleTyped DEF Return, Move, Moves

LEMMA PayRequestMoves ==
    ASSUME Typed, NEW r \in Req, NEW i \in Invoice, PayRequest(r, i)
    PROVE  Move(r)
<1> DEFINE b == [ReqIdle EXCEPT !.inv = i, !.amount = invoices[i].total]
           c == [b EXCEPT !.pc = "checkout"]
<1>1. i \in 1 .. Len(invoices)
  BY RowTyped DEF PayRequest
<1>2. i \in Nat /\ invoices[i].total \in Nat
  BY <1>1, RowTyped DEF InvoiceRow
<1>3. c \in ReqRow /\ c.pc = "checkout" /\ c.inv = i /\ c.amount = invoices[i].total
  BY <1>2, IdleTyped DEF ReqRow, ReqIdle
<1>4. req' = [req EXCEPT ![r] = c] /\ Payable(i) /\ req[r].pc = "idle"
  BY DEF PayRequest, Goto
<1> HIDE DEF c
<1> QED BY <1>1, <1>3, <1>4 DEF Move, Moves, PayRequest

LEMMA VerifyRequestMoves ==
    ASSUME Typed, NEW r \in Req, NEW s \in Session, VerifyRequest(r, s)
    PROVE  Move(r)
<1>1. s \in 1 .. Len(sessions)
  BY RowTyped, BillingAssumption DEF VerifyRequest, Session
<1>2. PICK i \in Newest(VerifyLimit) :
        /\ invoices[i].session = s
        /\ Goto(r, "ask", [ReqIdle EXCEPT !.inv = i, !.session = s,
                                          !.ok = invoices[i].status = "pending"])
  BY DEF VerifyRequest
<1> DEFINE b == [ReqIdle EXCEPT !.inv = i, !.session = s,
                                !.ok = invoices[i].status = "pending"]
           c == [b EXCEPT !.pc = "ask"]
<1>3. i \in 1 .. Len(invoices)
  BY DEF Newest, Live
<1>4. i \in Nat /\ s \in Nat
  BY <1>1, <1>3
<1>5. c \in ReqRow /\ c.pc = "ask" /\ c.inv = i /\ c.session = s
  BY <1>4, IdleTyped DEF ReqRow, ReqIdle, VerifyLabel
<1>6. c.ok = (invoices[i].status = "pending")
  BY DEF ReqIdle
<1>7. req' = [req EXCEPT ![r] = c]
  BY <1>2 DEF Goto
<1> HIDE DEF c
<1> QED BY <1>1, <1>2, <1>3, <1>5, <1>6, <1>7 DEF Move, Moves, VerifyRequest

LEMMA TransitionRequestMoves ==
    ASSUME Typed, NEW r \in Req, NEW i \in Invoice, TransitionRequest(r, i)
    PROVE  Move(r)
<1>1. PICK to \in Status : /\ CanTransition(i, to)
                           /\ Goto(r, "set state", [ReqIdle EXCEPT !.inv = i, !.to = to])
  BY DEF TransitionRequest
<1> DEFINE b == [ReqIdle EXCEPT !.inv = i, !.to = to]
           c == [b EXCEPT !.pc = "set state"]
<1>2. i \in 1 .. Len(invoices) /\ i \in Nat
  <2>1. i \in Live
    BY <1>1 DEF CanTransition
  <2>2. i \in 1 .. Len(invoices)
    BY <2>1, RowTyped
  <2> QED BY <2>2
<1>3. c \in ReqRow /\ c.pc = "set state" /\ c.inv = i /\ c.to = to
  BY <1>2, IdleTyped DEF ReqRow, ReqIdle
<1>4. req' = [req EXCEPT ![r] = c]
  BY <1>1 DEF Goto
<1> HIDE DEF c
<1> QED BY <1>2, <1>3, <1>4 DEF Move, Moves, TransitionRequest

\* A request that goes on keeps all but its place.
LEMMA GotoKeeps ==
    ASSUME Typed, NEW r \in Req, NEW l \in PayLabel \cup VerifyLabel, Goto(r, l, req[r])
    PROVE  \E c \in ReqRow : /\ req' = [req EXCEPT ![r] = c] /\ c.pc = l
                             /\ c.inv = req[r].inv /\ c.session = req[r].session
                             /\ c.amount = req[r].amount /\ c.ok = req[r].ok
<1> DEFINE c == [req[r] EXCEPT !.pc = l]
<1>1. req[r] \in ReqRow
  BY DEF Typed
<1>2. /\ c \in ReqRow /\ c.pc = l /\ c.inv = req[r].inv /\ c.session = req[r].session
      /\ c.amount = req[r].amount /\ c.ok = req[r].ok
  BY <1>1 DEF ReqRow
<1>3. req' = [req EXCEPT ![r] = c]
  BY DEF Goto
<1> HIDE DEF c
<1> QED BY <1>2, <1>3

LEMMA TransitionToPendingMoves ==
    ASSUME Typed, NEW r \in Req, TransitionToPending(r)
    PROVE  Move(r) \/ (Answer(r, FALSE) /\ UNCHANGED <<invoices, price, month, gen>>)
<1>1. CASE CanTransition(req[r].inv, "pending")
  <2>1. Goto(r, "set pending", req[r]) /\ req[r].pc = "check pending"
        /\ UNCHANGED <<invoices, price, month, sessions, gen>>
    BY <1>1 DEF TransitionToPending
  <2>2. "set pending" \in PayLabel \cup VerifyLabel
    BY DEF PayLabel
  <2>3. PICK c \in ReqRow : /\ req' = [req EXCEPT ![r] = c] /\ c.pc = "set pending"
                            /\ c.inv = req[r].inv /\ c.session = req[r].session
                            /\ c.amount = req[r].amount /\ c.ok = req[r].ok
    BY <2>1, <2>2, GotoKeeps, Zenon
  <2> QED BY <2>1, <2>3 DEF Move, Moves
<1>2. CASE ~CanTransition(req[r].inv, "pending")
  BY <1>2 DEF TransitionToPending
<1> QED BY <1>1, <1>2

\* The session could not be stored, because of an error or because the row
\* is gone.
LEMMA NotStoredMoves ==
    ASSUME Typed, NEW r \in Req, req[r].pc = "store",
           Goto(r, "check pending", [req[r] EXCEPT !.ok = FALSE]),
           UNCHANGED <<invoices, price, month, sessions, gen>>
    PROVE  Move(r)
<1> DEFINE b == [req[r] EXCEPT !.ok = FALSE]
           c == [b EXCEPT !.pc = "check pending"]
<1>1. req[r] \in ReqRow
  BY DEF Typed
<1>2. /\ c \in ReqRow /\ c.pc = "check pending" /\ c.inv = req[r].inv
      /\ c.session = req[r].session /\ c.amount = req[r].amount /\ ~c.ok
  BY <1>1 DEF ReqRow, PayLabel
<1>3. req' = [req EXCEPT ![r] = c]
  BY DEF Goto
<1> HIDE DEF c
<1> QED BY <1>2, <1>3 DEF Move, Moves

LEMMA PayStoreFailsMoves ==
    ASSUME Typed, NEW r \in Req, PayStoreFails(r)
    PROVE  \/ Move(r)
           \/ /\ req[r].pc \in {"check pending", "set pending"}
              /\ Answer(r, FALSE) /\ UNCHANGED <<invoices, price, month, gen>>
<1>1. CASE req[r].pc = "store"
  BY <1>1, NotStoredMoves DEF PayStoreFails
<1>2. CASE req[r].pc # "store"
  BY <1>2 DEF PayStoreFails
<1> QED BY <1>1, <1>2

LEMMA CheckStripeSessionMoves ==
    ASSUME Typed, NEW r \in Req, CheckStripeSession(r)
    PROVE  Move(r)
<1>1. CASE sessions[req[r].session].state = "paid" /\ req[r].ok
  <2>1. Goto(r, "check paid", req[r]) /\ req[r].pc = "ask"
        /\ UNCHANGED <<invoices, price, month, sessions, gen>>
    BY <1>1 DEF CheckStripeSession
  <2>2. "check paid" \in PayLabel \cup VerifyLabel
    BY DEF VerifyLabel
  <2>3. PICK c \in ReqRow : /\ req' = [req EXCEPT ![r] = c] /\ c.pc = "check paid"
                            /\ c.inv = req[r].inv /\ c.session = req[r].session
                            /\ c.amount = req[r].amount /\ c.ok = req[r].ok
    BY <2>1, <2>2, GotoKeeps, Zenon
  <2> QED BY <1>1, <2>1, <2>3 DEF Move, Moves
<1>2. CASE ~(sessions[req[r].session].state = "paid" /\ req[r].ok)
  BY <1>2, ReturnMoves DEF CheckStripeSession
<1> QED BY <1>1, <1>2

LEMMA TransitionToPaidMoves ==
    ASSUME Typed, NEW r \in Req, TransitionToPaid(r)
    PROVE  Move(r)
<1>1. CASE CanTransition(req[r].inv, "paid")
  <2>1. Goto(r, "set paid", req[r]) /\ req[r].pc = "check paid"
        /\ UNCHANGED <<invoices, price, month, sessions, gen>>
    BY <1>1 DEF TransitionToPaid
  <2>2. "set paid" \in PayLabel \cup VerifyLabel
    BY DEF VerifyLabel
  <2>3. PICK c \in ReqRow : /\ req' = [req EXCEPT ![r] = c] /\ c.pc = "set paid"
                            /\ c.inv = req[r].inv /\ c.session = req[r].session
                            /\ c.amount = req[r].amount /\ c.ok = req[r].ok
    BY <2>1, <2>2, GotoKeeps, Zenon
  <2> QED BY <2>1, <2>3 DEF Move, Moves
<1>2. CASE ~CanTransition(req[r].inv, "paid")
  BY <1>2, ReturnMoves DEF TransitionToPaid
<1> QED BY <1>1, <1>2

-----------------------------------------------------------------------------
(***************************************************************************)
(* Every step is one of thirteen kinds.                                    *)
(***************************************************************************)
\* The generator lists or skips, prices change, the month ends.
Quiet ==
    /\ UNCHANGED <<invoices, sessions, req>>
    /\ \/ UNCHANGED gen
       \/ ListDeployments
       \/ ListInvoices
       \/ \E u \in User : Billing(u) /\ GenNext(u)

\* The answer to the client when Transition failed.
AnswerFailed(r) ==
    /\ req[r].pc \in {"check pending", "set pending"}
    /\ Answer(r, FALSE)
    /\ UNCHANGED <<invoices, price, month, gen>>

\* A client writes into a row, at once or at the end of a request.
ClientWrites(k) ==
    /\ EditedRow(k)
    /\ \/ UNCHANGED req
       \/ \E r \in Req : req' = [req EXCEPT ![r] = ReqIdle]
    /\ UNCHANGED <<price, month, sessions, gen>>

RequestStep(r) ==
    \/ Move(r) \/ CreateStripeCheckout(r) \/ StoreLive(r)
    \/ AnswerFailed(r) \/ SetPendingLive(r) \/ SetPaidLive(r)

Step ==
    \/ Quiet /\ price' \in [User -> Nat] /\ month' \in Nat
    \/ \E u \in User : UpdateLive(u) \/ CreateInvoice(u) \/ PostInvoice(u)
    \/ \E r \in Req : RequestStep(r)
    \/ \E k : ClientWrites(k)
    \/ \E s \in Session : CustomerPays(s)
    \/ Crash

LEMMA PaySteps ==
    ASSUME Typed, NEW r \in Req, Pay(r)
    PROVE  RequestStep(r)
<1>1. ASSUME NEW i \in Invoice, PayRequest(r, i) PROVE RequestStep(r)
  BY <1>1, PayRequestMoves DEF RequestStep
<1>2. CASE StripeFails(r)
  BY <1>2, ReturnMoves DEF StripeFails, RequestStep
<1>3. CASE TransitionToPending(r)
  BY <1>3, TransitionToPendingMoves DEF TransitionToPending, RequestStep, AnswerFailed
<1>4. CASE PayStoreFails(r)
  BY <1>4, PayStoreFailsMoves DEF RequestStep, AnswerFailed
<1>5. CASE CreateStripeCheckout(r)
  BY <1>5 DEF RequestStep
<1>6. CASE StoreSession(r)
  <2>1. CASE req[r].inv \in Live
    BY <1>6, <2>1 DEF RequestStep, StoreLive
  <2>2. CASE req[r].inv \notin Live
    BY <1>6, <2>2, NotStoredMoves DEF RequestStep, StoreSession
  <2> QED BY <2>1, <2>2
<1>7. CASE SetPending(r)
  <2>1. CASE req[r].inv \in Live
    BY <1>7, <2>1 DEF RequestStep, SetPendingLive
  <2>2. CASE req[r].inv \notin Live
    BY <1>7, <2>2 DEF RequestStep, SetPending, AnswerFailed
  <2> QED BY <2>1, <2>2
<1> QED BY <1>1, <1>2, <1>3, <1>4, <1>5, <1>6, <1>7 DEF Pay

LEMMA VerifySteps ==
    ASSUME Typed, NEW r \in Req, Verify(r)
    PROVE  RequestStep(r)
<1>1. ASSUME NEW s \in Session, VerifyRequest(r, s) PROVE RequestStep(r)
  BY <1>1, VerifyRequestMoves DEF RequestStep
<1>2. CASE CheckStripeSession(r) \/ TransitionToPaid(r)
  BY <1>2, CheckStripeSessionMoves, TransitionToPaidMoves DEF RequestStep
<1>3. CASE VerifyFails(r)
  BY <1>3, ReturnMoves DEF VerifyFails, RequestStep
<1>4. CASE SetPaid(r)
  <2>1. CASE req[r].inv \in Live
    BY <1>4, <2>1 DEF RequestStep, SetPaidLive
  <2>2. CASE req[r].inv \notin Live
    BY <1>4, <2>2, ReturnMoves DEF RequestStep, SetPaid
  <2> QED BY <2>1, <2>2
<1> QED BY <1>1, <1>2, <1>3, <1>4 DEF Verify

LEMMA ClientSteps ==
    ASSUME Typed, NEW r \in Req, ClientTransition(r)
    PROVE  RequestStep(r) \/ \E k : ClientWrites(k)
<1>1. ASSUME NEW i \in Invoice, TransitionRequest(r, i) PROVE RequestStep(r)
  BY <1>1, TransitionRequestMoves DEF RequestStep
<1>2. CASE SetStateFails(r)
  BY <1>2, ReturnMoves DEF SetStateFails, RequestStep
<1>3. CASE SetState(r) /\ req[r].inv \notin Live
  BY <1>3, ReturnMoves DEF SetState, RequestStep
<1>4. CASE SetState(r) /\ req[r].inv \in Live
  <2>1. req[r].to \in Status
    BY <1>4 DEF SetState, Typed, InRange
  <2>2. EditedRow(req[r].inv)
    BY <1>4, <2>1, ToStateShape DEF SetState
  <2> QED BY <1>4, <2>2 DEF SetState, ClientWrites, Return
<1> QED BY <1>1, <1>2, <1>3, <1>4 DEF ClientTransition

LEMMA ClientsSteps ==
    ASSUME Typed, Clients
    PROVE  (\E u \in User : PostInvoice(u)) \/ \E k : ClientWrites(k)
<1>1. ASSUME NEW i \in Invoice, PatchInvoice(i) PROVE ClientWrites(i)
  BY <1>1, PatchShape DEF PatchInvoice, ClientWrites
<1>2. ASSUME NEW i \in Invoice, DeleteInvoice(i) PROVE ClientWrites(i)
  BY <1>2, ToStateShape DEF DeleteInvoice, ClientWrites
<1> QED BY <1>1, <1>2 DEF Clients

LEMMA NextSteps ==
    ASSUME Typed, Next
    PROVE  Step
<1>1. CASE Generate
  <2>1. CASE ListDeployments \/ ListInvoices
    BY <2>1 DEF Step, Quiet, ListDeployments, ListInvoices, Typed
  <2>2. ASSUME NEW u \in User, SkipSettled(u) \/ BillFails(u) PROVE Step
    BY <2>2 DEF Step, Quiet, SkipSettled, BillFails, Typed
  <2>3. ASSUME NEW u \in User, CreateInvoice(u) PROVE Step
    BY <2>3 DEF Step
  <2>4. ASSUME NEW u \in User, UpdateInvoice(u) PROVE Step
    <3>1. CASE gen.existing[u] \in Live
      BY <2>4, <3>1 DEF Step, UpdateLive
    <3>2. CASE gen.existing[u] \notin Live
      BY <2>4, <3>2 DEF Step, Quiet, UpdateInvoice, Typed
    <3> QED BY <3>1, <3>2
  <2> QED BY <1>1, <2>1, <2>2, <2>3, <2>4 DEF Generate
<1>2. ASSUME NEW r \in Req, Pay(r) \/ Verify(r) \/ ClientTransition(r) PROVE Step
  BY <1>2, PaySteps, VerifySteps, ClientSteps DEF Step
<1>3. CASE Surroundings
  <2>1. ASSUME NEW u \in User, PriceChanges(u) PROVE Step
    <3>1. PICK c \in 1 .. MaxCents : price' = [price EXCEPT ![u] = c]
      BY <2>1 DEF PriceChanges
    <3>2. price' \in [User -> Nat]
      BY <3>1, BillingAssumption DEF Typed
    <3> QED BY <2>1, <3>2 DEF PriceChanges, Step, Quiet, Typed
  <2>2. CASE MonthEnds
    BY <2>2 DEF MonthEnds, Step, Quiet, Typed
  <2> QED BY <1>3, <2>1, <2>2 DEF Surroundings, Step
<1>4. CASE Clients
  BY <1>4, ClientsSteps DEF Step
<1> QED BY <1>1, <1>2, <1>3, <1>4 DEF Next, Step

-----------------------------------------------------------------------------
(***************************************************************************)
(* Every step keeps the types.                                             *)
(***************************************************************************)
LEMMA ListDeploymentsShape ==
    ASSUME Typed, ListDeployments
    PROVE  gen' \in GenRow /\ gen'.pc = "list" /\ \A u \in User : gen'.existing[u] = 0
BY DEF ListDeployments, GenIdle, GenRow, Typed

LEMMA ListInvoicesShape ==
    ASSUME Typed, ListInvoices
    PROVE  /\ gen' \in GenRow /\ gen'.pc = "bill" /\ gen'.month = gen.month
           /\ \A u \in User : /\ gen'.existing[u] = Existing(u)
                              /\ gen'.status[u] = IF Existing(u) = 0 THEN "none"
                                                  ELSE invoices[Existing(u)].status
<1> DEFINE ex == [u \in User |-> Existing(u)]
           st == [u \in User |-> IF ex[u] = 0 THEN "none" ELSE invoices[ex[u]].status]
           td == {u \in User : gen.bills[u] > 0}
<1>1. ex \in [User -> Nat] /\ \A u \in User : ex[u] = Existing(u)
  BY ExistingIsMine
<1>2. \A u \in User : /\ st[u] = IF Existing(u) = 0 THEN "none" ELSE invoices[Existing(u)].status
                      /\ st[u] \in Status \cup {"none"}
  BY ExistingIsMine, RowTyped
<1>3. st \in [User -> Status \cup {"none"}] /\ td \in SUBSET User
  BY <1>2
<1>4. gen' = [gen EXCEPT !.pc = "bill", !.existing = ex, !.status = st, !.todo = td]
  BY DEF ListInvoices
<1> HIDE DEF ex, st, td
<1>5. /\ gen' \in GenRow /\ gen'.pc = "bill" /\ gen'.month = gen.month
      /\ gen'.existing = ex /\ gen'.status = st
  BY <1>1, <1>3, <1>4 DEF Typed, GenRow
<1> QED BY <1>1, <1>2, <1>5

LEMMA QuietTyped ==
    ASSUME Typed, Quiet, price' \in [User -> Nat], month' \in Nat
    PROVE  Typed'
<1>1. gen' \in GenRow /\ \A u \in User : gen'.existing[u] <= Len(invoices)
  <2>1. CASE UNCHANGED gen
    BY <2>1 DEF Typed
  <2>2. CASE ListDeployments
    BY <2>2, ListDeploymentsShape, RowTyped
  <2>3. CASE ListInvoices
    BY <2>3, ListInvoicesShape, ExistingIsMine, RowTyped
  <2>4. ASSUME NEW u \in User, Billing(u), GenNext(u)
        PROVE  gen' \in GenRow /\ \A v \in User : gen'.existing[v] <= Len(invoices)
    BY <2>4, GenNextTyped
  <2> QED BY <2>1, <2>2, <2>3, <2>4 DEF Quiet
<1> QED BY <1>1 DEF Quiet, Typed

LEMMA CrashTyped ==
    ASSUME Typed, Crash
    PROVE  Typed'
<1>1. \A r \in Req : req'[r] = ReqIdle
  BY DEF Crash
<1>2. \A u \in User : gen'.existing[u] <= Len(invoices)
  BY RowTyped DEF Crash, GenIdle
<1>3. \A r \in Req : InRange(req'[r], Len(invoices), Len(sessions))
  BY <1>1, IdleTyped DEF InRange, PayLabel, VerifyLabel
<1> QED BY <1>2, <1>3, IdleTyped DEF Crash, Typed

\* A request that returns refers to no row.
LEMMA IdleInRange ==
    ASSUME NEW n, NEW m
    PROVE  InRange(ReqIdle, n, m)
BY IdleTyped DEF InRange, PayLabel, VerifyLabel

LEMMA MovesInRange ==
    ASSUME Typed, NEW r \in Req, NEW c, Moves(r, c)
    PROVE  c \in ReqRow /\ InRange(c, Len(invoices), Len(sessions))
<1>1. CASE c = ReqIdle
  BY <1>1, IdleInRange DEF Moves
<1>2. CASE c.pc \in {"checkout", "ask", "set state"} /\ c # ReqIdle
  BY <1>2 DEF Moves, InRange, PayLabel, VerifyLabel
<1>3. CASE c.pc \notin {"checkout", "ask", "set state"} /\ c # ReqIdle
  BY <1>3 DEF Moves, InRange, Typed, PayLabel, VerifyLabel
<1> QED BY <1>1, <1>2, <1>3

\* The record after the session has been made, and after it has been stored.
LEMMA CheckoutMove ==
    ASSUME Typed, NEW r \in Req, CreateStripeCheckout(r)
    PROVE  /\ req' \in [Req -> ReqRow]
           /\ \A q \in Req \ {r} : req'[q] = req[q]
           /\ req'[r].pc = "store" /\ req'[r].session = Len(sessions) + 1
           /\ req'[r].inv = req[r].inv /\ req'[r].amount = req[r].amount
<1> DEFINE n == Len(sessions')
           b == [req[r] EXCEPT !.session = n]
           c == [b EXCEPT !.pc = "store"]
<1>1. req' = [req EXCEPT ![r] = c]
  BY DEF CreateStripeCheckout, Goto
<1>2. n = Len(sessions) + 1 /\ n \in Nat
  BY CheckoutShape, RowTyped
<1> HIDE DEF n
<1>3. req[r] \in ReqRow
  BY DEF Typed
<1>4. /\ c \in ReqRow /\ c.pc = "store" /\ c.session = n
      /\ c.inv = req[r].inv /\ c.amount = req[r].amount
  BY <1>2, <1>3 DEF ReqRow, PayLabel
<1> HIDE DEF c
<1> QED BY <1>1, <1>2, <1>4, MoveShape DEF Typed

LEMMA StoreMove ==
    ASSUME Typed, NEW r \in Req, StoreLive(r)
    PROVE  /\ req' \in [Req -> ReqRow]
           /\ \A q \in Req \ {r} : req'[q] = req[q]
           /\ req'[r].pc = "check pending" /\ req'[r].session = req[r].session
           /\ req'[r].inv = req[r].inv /\ req'[r].amount = req[r].amount
<1>1. "check pending" \in PayLabel \cup VerifyLabel
  BY DEF PayLabel
<1>2. Goto(r, "check pending", req[r])
  BY DEF StoreLive, StoreSession
<1>3. PICK c \in ReqRow : /\ req' = [req EXCEPT ![r] = c] /\ c.pc = "check pending"
                          /\ c.inv = req[r].inv /\ c.session = req[r].session
                          /\ c.amount = req[r].amount /\ c.ok = req[r].ok
  BY <1>1, <1>2, GotoKeeps, Zenon
<1> QED BY <1>3, MoveShape DEF Typed

\* A request that ends: all the others are as they were.
LEMMA IdleMove ==
    ASSUME Typed, NEW r \in Req, req' = [req EXCEPT ![r] = ReqIdle]
    PROVE  /\ req' \in [Req -> ReqRow]
           /\ req'[r] = ReqIdle /\ req'[r].pc = "idle"
           /\ \A q \in Req \ {r} : req'[q] = req[q]
BY MoveShape, IdleTyped DEF Typed

LEMMA SetPendingShape ==
    ASSUME Typed, NEW r \in Req, SetPendingLive(r)
    PROVE  /\ req[r].pc \in PayLabel /\ req[r].ok \in BOOLEAN /\ Answer(r, req[r].ok)
           /\ req[r].inv \in 1 .. Len(invoices)
           /\ invoices' \in Seq(InvoiceRow) /\ Len(invoices') = Len(invoices)
           /\ \A i \in 1 .. Len(invoices) :
                /\ invoices'[i].user = invoices[i].user /\ invoices'[i].month = invoices[i].month
                /\ invoices'[i].session = invoices[i].session
                /\ invoices'[i].total = invoices[i].total
                /\ invoices'[i].edited = invoices[i].edited
                /\ invoices'[i].status = IF i = req[r].inv THEN "pending" ELSE invoices[i].status
<1>1. req[r].pc \in PayLabel /\ req[r].ok \in BOOLEAN /\ req[r].inv \in 1 .. Len(invoices)
  BY RowTyped DEF SetPendingLive, SetPending, PayLabel, Typed, ReqRow
<1>2. "pending" \in Status
  BY DEF Status
<1>3. invoices' = [invoices EXCEPT ![req[r].inv].status = "pending"] /\ Answer(r, req[r].ok)
  BY DEF SetPendingLive, SetPending
<1> QED BY <1>1, <1>2, <1>3, StatusShape

LEMMA SetPaidShape ==
    ASSUME Typed, NEW r \in Req, SetPaidLive(r)
    PROVE  /\ req' = [req EXCEPT ![r] = ReqIdle]
           /\ req[r].inv \in 1 .. Len(invoices)
           /\ invoices' \in Seq(InvoiceRow) /\ Len(invoices') = Len(invoices)
           /\ \A i \in 1 .. Len(invoices) :
                /\ invoices'[i].user = invoices[i].user /\ invoices'[i].month = invoices[i].month
                /\ invoices'[i].session = invoices[i].session
                /\ invoices'[i].total = invoices[i].total
                /\ invoices'[i].edited = invoices[i].edited
                /\ invoices'[i].status = IF i = req[r].inv THEN "paid" ELSE invoices[i].status
<1>1. req[r].inv \in 1 .. Len(invoices)
  BY RowTyped DEF SetPaidLive
<1>2. "paid" \in Status
  BY DEF Status
<1>3. invoices' = [invoices EXCEPT ![req[r].inv].status = "paid"] /\ req' = [req EXCEPT ![r] = ReqIdle]
  BY DEF SetPaidLive, SetPaid, Return
<1> QED BY <1>1, <1>2, <1>3, StatusShape

LEMMA StepTyped ==
    ASSUME Typed, Step
    PROVE  Typed'
<1>1. ASSUME NEW r \in Req, Move(r) PROVE Typed'
  <2>1. PICK c : Moves(r, c) /\ req' = [req EXCEPT ![r] = c]
    BY <1>1 DEF Move
  <2> QED BY <1>1, <2>1, MovesInRange, MoveTyped, RowTyped DEF Move, Typed
<1>2. ASSUME NEW r \in Req, CreateStripeCheckout(r) PROVE Typed'
  <2>1. ASSUME NEW q \in Req PROVE InRange(req'[q], Len(invoices), Len(sessions'))
    <3>1. Len(sessions') = Len(sessions) + 1 /\ Len(sessions) \in Nat
      BY <1>2, CheckoutShape, RowTyped
    <3>2. InRange(req[q], Len(invoices), Len(sessions))
      BY DEF Typed
    <3>3. CASE q # r
      <4>1. req'[q] = req[q]
        BY <1>2, <3>3, CheckoutMove
      <4>2. Len(invoices) \in Nat
        BY RowTyped
      <4> QED BY <3>1, <3>2, <4>1, <4>2, InRangeGrows
    <3>4. CASE q = r
      <4>1. /\ req'[q].pc = "store" /\ req'[q].session = Len(sessions) + 1
            /\ req'[q].inv = req[q].inv /\ req[q].pc = "checkout"
        BY <1>2, <3>4, CheckoutMove DEF CreateStripeCheckout
      <4> QED BY <3>1, <3>2, <4>1 DEF InRange
    <3> QED BY <3>3, <3>4
  <2>2. \A i \in 1 .. Len(invoices) : invoices[i].session \in 0 .. Len(sessions')
    BY <1>2, CheckoutShape, RowTyped DEF Typed
  <2> QED BY <1>2, <2>1, <2>2, CheckoutMove, CheckoutShape DEF CreateStripeCheckout, Typed
<1>3. ASSUME NEW r \in Req, StoreLive(r) PROVE Typed'
  <2>1. ASSUME NEW q \in Req PROVE InRange(req'[q], Len(invoices'), Len(sessions))
    <3>1. Len(invoices') = Len(invoices)
      BY <1>3, StoreShape
    <3>2. InRange(req[q], Len(invoices), Len(sessions))
      BY DEF Typed
    <3>3. CASE q # r
      BY <1>3, <3>1, <3>2, <3>3, StoreMove
    <3>4. CASE q = r
      <4>1. /\ req'[q].pc = "check pending" /\ req'[q].session = req[q].session
            /\ req'[q].inv = req[q].inv /\ req[q].pc = "store"
        BY <1>3, <3>4, StoreMove DEF StoreLive, StoreSession
      <4> QED BY <3>1, <3>2, <4>1 DEF InRange, PayLabel
    <3> QED BY <3>3, <3>4
  <2>2. \A i \in 1 .. Len(invoices') : invoices'[i].session \in 0 .. Len(sessions)
    <3>1. req[r].session \in 1 .. Len(sessions) /\ Len(sessions) \in Nat
      BY <1>3, RowTyped DEF Typed, InRange, StoreLive, StoreSession, PayLabel
    <3> QED BY <1>3, <3>1, StoreShape DEF Typed
  <2> QED BY <1>3, <2>1, <2>2, StoreMove, StoreShape DEF StoreLive, StoreSession, Typed
<1>4. ASSUME NEW r \in Req, AnswerFailed(r) PROVE Typed'
  <2>1. /\ sessions' \in Seq(SessionRow) /\ Len(sessions') = Len(sessions)
        /\ req' = [req EXCEPT ![r] = ReqIdle]
    BY <1>4, AnswerShape DEF AnswerFailed, PayLabel
  <2> QED BY <1>4, <2>1, IdleTyped, IdleInRange, MoveTyped, RowTyped DEF AnswerFailed, Typed
<1>5. ASSUME NEW r \in Req, SetPendingLive(r) PROVE Typed'
  <2>1. /\ sessions' \in Seq(SessionRow) /\ Len(sessions') = Len(sessions)
        /\ req' = [req EXCEPT ![r] = ReqIdle]
    BY <1>5, SetPendingShape, AnswerShape
  <2>2. /\ invoices' \in Seq(InvoiceRow) /\ Len(invoices') = Len(invoices)
        /\ \A i \in 1 .. Len(invoices) : invoices'[i].session = invoices[i].session
    BY <1>5, SetPendingShape
  <2>3. UNCHANGED <<price, month, gen>>
    BY <1>5 DEF SetPendingLive, SetPending
  <2>4. ReqIdle \in ReqRow /\ InRange(ReqIdle, Len(invoices'), Len(sessions'))
    BY IdleTyped, IdleInRange
  <2>5. Len(sessions') >= Len(sessions)
    BY <2>1, RowTyped
  <2> QED BY <2>1, <2>2, <2>3, <2>4, <2>5, MoveTyped
<1>6. ASSUME NEW r \in Req, SetPaidLive(r) PROVE Typed'
  <2>1. /\ invoices' \in Seq(InvoiceRow) /\ Len(invoices') = Len(invoices)
        /\ \A i \in 1 .. Len(invoices) : invoices'[i].session = invoices[i].session
        /\ req' = [req EXCEPT ![r] = ReqIdle]
    BY <1>6, SetPaidShape
  <2>2. sessions' = sessions /\ sessions \in Seq(SessionRow) /\ Len(sessions) \in Nat
    BY <1>6, RowTyped DEF SetPaidLive, SetPaid, Typed
  <2>3. UNCHANGED <<price, month, gen>>
    BY <1>6 DEF SetPaidLive, SetPaid
  <2>4. ReqIdle \in ReqRow /\ InRange(ReqIdle, Len(invoices'), Len(sessions'))
    BY IdleTyped, IdleInRange
  <2>5. Len(sessions') >= Len(sessions) /\ sessions' \in Seq(SessionRow)
    BY <2>2
  <2> QED BY <2>1, <2>3, <2>4, <2>5, MoveTyped
<1>7. ASSUME NEW s \in Session, CustomerPays(s) PROVE Typed'
  BY <1>7, PaysShape DEF CustomerPays, Typed
<1>8. ASSUME NEW k, ClientWrites(k) PROVE Typed'
  <2>1. req' \in [Req -> ReqRow] /\ \A q \in Req : req'[q] = req[q] \/ req'[q] = ReqIdle
    BY <1>8, IdleTyped DEF ClientWrites, Typed
  <2> QED BY <1>8, <2>1, EditTyped DEF ClientWrites
<1> QED BY <1>1, <1>2, <1>3, <1>4, <1>5, <1>6, <1>7, <1>8, QuietTyped, UpdateTyped, CreateTyped,
           PostTyped, CrashTyped
        DEF Step, RequestStep

-----------------------------------------------------------------------------
(***************************************************************************)
(* PaidWasPaid, however requests overlap.                                  *)
(***************************************************************************)
\* What no step does to a session: none goes, none changes its invoice, and
\* one that has been paid stays so.
SessionsKeep ==
    /\ Len(sessions') >= Len(sessions)
    /\ \A s \in 1 .. Len(sessions) :
            /\ sessions'[s].inv = sessions[s].inv
            /\ sessions[s].state = "paid" => sessions'[s].state = "paid"

\* What no step does to an invoice: none goes, and none forgets what clients
\* wrote; and what no step but SetPaid does: none becomes paid, if not by the
\* hand of a client.
MarksKeep ==
    /\ Len(invoices') >= Len(invoices)
    /\ \A i \in 1 .. Len(invoices) : invoices[i].edited \subseteq invoices'[i].edited

Trusted(row) == Edited(row, {"paid", "session", "posted"})

InvoicesKeep ==
    /\ MarksKeep
    /\ \A i \in 1 .. Len(invoices') :
            invoices'[i].status = "paid" /\ ~Trusted(invoices'[i]) =>
                i \in 1 .. Len(invoices) /\ invoices[i].status = "paid"

\* The sessions that rows name are the same, but where a client wrote one.
LinksKeep ==
    \A i \in 1 .. Len(invoices') :
        \/ invoices'[i].session = NoSession
        \/ Relinked(invoices'[i])
        \/ i \in 1 .. Len(invoices) /\ invoices'[i].session = invoices[i].session

LEMMA SameSessions ==
    ASSUME Typed, sessions' = sessions
    PROVE  SessionsKeep
<1>1. Len(sessions) \in Nat
  BY RowTyped
<1> QED BY <1>1 DEF SessionsKeep

LEMMA PaidWasPaidKept ==
    ASSUME PaidInv, Typed', SessionsKeep, InvoicesKeep
    PROVE  PaidWasPaid'
<1>1. ASSUME NEW i \in 1 .. Len(invoices'), invoices'[i].status = "paid", ~Trusted(invoices'[i])
      PROVE  \E s \in 1 .. Len(sessions') : sessions'[s].inv = i /\ sessions'[s].state = "paid"
  <2>0. i \in 1 .. Len(invoices) /\ invoices[i].status = "paid"
    BY <1>1 DEF InvoicesKeep
  <2>a. ~Trusted(invoices[i])
    BY <1>1, <2>0, MarksGrow DEF InvoicesKeep, MarksKeep, Trusted
  <2>1. PICK s \in 1 .. Len(sessions) : sessions[s].inv = i /\ sessions[s].state = "paid"
    BY <2>0, <2>a DEF PaidInv, PaidWasPaid, Trusted
  <2>2. s \in 1 .. Len(sessions') /\ sessions'[s].inv = i /\ sessions'[s].state = "paid"
    BY <2>1, RowTyped DEF PaidInv, SessionsKeep, Typed
  <2> QED BY <2>2
<1> QED BY <1>1 DEF PaidWasPaid, Trusted

\* A request that waits is not disturbed, as long as its session stays hidden
\* while it is being stored.
LEMMA RequestKept ==
    ASSUME PaidInv, SessionsKeep, MarksKeep, NEW q \in Req, req'[q] = req[q],
           req[q].pc \in PayLabel => sessions'[req[q].session].state = "hidden"
    PROVE  ReqOK(req'[q], invoices', sessions')
<1>1. ReqOK(req[q], invoices, sessions) /\ InRange(req[q], Len(invoices), Len(sessions))
  BY DEF PaidInv, RequestsOK, Typed
<1>2. ASSUME NEW i \in 1 .. Len(invoices), Relinked(invoices[i]) PROVE Relinked(invoices'[i])
  <2>1. invoices[i].edited \subseteq invoices'[i].edited
    BY DEF MarksKeep
  <2> QED BY <1>2, <2>1, MarksGrow, Zenon
<1>3. req[q].session \in 1 .. Len(sessions) =>
        /\ sessions'[req[q].session].inv = sessions[req[q].session].inv
        /\ sessions[req[q].session].state = "paid" => sessions'[req[q].session].state = "paid"
  BY DEF SessionsKeep
<1> QED BY <1>1, <1>2, <1>3 DEF ReqOK, InRange, PayLabel, VerifyLabel

LEMMA LinkedKept ==
    ASSUME PaidInv, SessionsKeep, MarksKeep, LinksKeep
    PROVE  Linked(invoices', sessions')
<1>1. ASSUME NEW i \in 1 .. Len(invoices'), invoices'[i].session # NoSession,
             ~Relinked(invoices'[i])
      PROVE  sessions'[invoices'[i].session].inv = i
  <2>1. i \in 1 .. Len(invoices) /\ invoices'[i].session = invoices[i].session
    BY <1>1 DEF LinksKeep
  <2>2. ~Relinked(invoices[i])
    BY <1>1, <2>1, MarksGrow DEF MarksKeep
  <2>3. sessions[invoices[i].session].inv = i
    BY <1>1, <2>1, <2>2 DEF PaidInv, Linked
  <2>4. invoices[i].session \in 1 .. Len(sessions)
    BY <1>1, <2>1, RowTyped DEF PaidInv, Typed, NoSession
  <2> QED BY <2>1, <2>3, <2>4 DEF SessionsKeep
<1> QED BY <1>1 DEF Linked

LEMMA OwnKept ==
    ASSUME PaidInv,
           \A q \in Req : req'[q].pc \in PayLabel =>
                            req[q].pc \in PayLabel /\ req'[q].session = req[q].session
    PROVE  OwnSession'
BY DEF PaidInv, OwnSession

\* Steps that leave the sessions and the requests alone.
LEMMA TablePaid ==
    ASSUME PaidInv, Typed', UNCHANGED <<sessions, req>>, InvoicesKeep, LinksKeep
    PROVE  PaidInv'
<1>1. SessionsKeep /\ MarksKeep
  BY SameSessions DEF PaidInv, InvoicesKeep
<1>2. RequestsOK'
  <2>1. ASSUME NEW q \in Req PROVE ReqOK(req'[q], invoices', sessions')
    BY <1>1, RequestKept DEF PaidInv, RequestsOK, ReqOK
  <2> QED BY <2>1 DEF RequestsOK
<1>3. OwnSession'
  BY DEF PaidInv, OwnSession
<1>4. Linked(invoices', sessions')
  BY <1>1, LinkedKept
<1>5. PaidWasPaid'
  BY <1>1, PaidWasPaidKept
<1> QED BY <1>2, <1>3, <1>4, <1>5 DEF PaidInv

LEMMA UpdatePaid ==
    ASSUME PaidInv, NEW u \in User, UpdateLive(u)
    PROVE  PaidInv'
<1>1. Typed /\ Typed'
  BY UpdateTyped DEF PaidInv
<1>2. InvoicesKeep /\ LinksKeep
  BY <1>1, UpdateShape, RowTyped DEF InvoicesKeep, MarksKeep, LinksKeep
<1> QED BY <1>1, <1>2, TablePaid DEF UpdateLive, UpdateInvoice

\* A row is added: a draft of the generator, or one that a client posted.
LEMMA AppendPaid ==
    ASSUME PaidInv, Typed', UNCHANGED <<sessions, req>>, Len(invoices') = Len(invoices) + 1,
           \A i \in 1 .. Len(invoices) : invoices'[i] = invoices[i],
           LET row == invoices'[Len(invoices) + 1]
           IN  \/ row.status # "paid" /\ row.session = NoSession
               \/ row.edited = {"posted"}
    PROVE  PaidInv'
<1> DEFINE n == Len(invoices) + 1
<1>1. Len(invoices) \in Nat /\ \A i \in 1 .. Len(invoices') : i \in 1 .. Len(invoices) \/ i = n
  BY RowTyped DEF PaidInv
<1>2. invoices'[n].edited = {"posted"} => Trusted(invoices'[n]) /\ Relinked(invoices'[n])
  BY DEF Trusted, Relinked, Edited
<1>3. InvoicesKeep
  BY <1>1, <1>2 DEF InvoicesKeep, MarksKeep
<1>4. LinksKeep
  BY <1>1, <1>2 DEF LinksKeep
<1> QED BY <1>3, <1>4, TablePaid

LEMMA CreatePaid ==
    ASSUME PaidInv, NEW u \in User, CreateInvoice(u)
    PROVE  PaidInv'
<1>1. Typed /\ Typed'
  BY CreateTyped DEF PaidInv
<1> QED BY <1>1, CreateShape, AppendPaid DEF CreateInvoice

LEMMA PostPaid ==
    ASSUME PaidInv, NEW u \in User, PostInvoice(u)
    PROVE  PaidInv'
<1>1. Typed /\ Typed'
  BY PostTyped DEF PaidInv
<1> QED BY <1>1, PostShape, AppendPaid DEF PostInvoice

\* A step of one request that leaves the invoices' sessions alone.
LEMMA OneRequestPaid ==
    ASSUME PaidInv, Typed', NEW r \in Req, \A q \in Req \ {r} : req'[q] = req[q],
           SessionsKeep, InvoicesKeep, LinksKeep,
           \A q \in Req \ {r} :
                req[q].pc \in PayLabel => sessions'[req[q].session].state = "hidden",
           ReqOK(req'[r], invoices', sessions'),
           req'[r].pc \in PayLabel =>
                req[r].pc \in PayLabel /\ req'[r].session = req[r].session
    PROVE  PaidInv'
<1>0. MarksKeep
  BY DEF InvoicesKeep
<1>1. RequestsOK'
  BY <1>0, RequestKept DEF RequestsOK
<1>2. OwnSession'
  BY OwnKept
<1>3. Linked(invoices', sessions')
  BY <1>0, LinkedKept
<1>4. PaidWasPaid'
  BY PaidWasPaidKept
<1> QED BY <1>1, <1>2, <1>3, <1>4 DEF PaidInv

\* Rows that are as they were.
LEMMA SameInvoices ==
    ASSUME Typed, invoices' = invoices
    PROVE  MarksKeep /\ InvoicesKeep /\ LinksKeep
<1>1. Len(invoices) \in Nat
  BY RowTyped
<1> QED BY <1>1 DEF MarksKeep, InvoicesKeep, LinksKeep

\* A request that returns holds nothing.
LEMMA IdleOK ==
    ASSUME NEW c, c.pc = "idle", NEW I, NEW S
    PROVE  ReqOK(c, I, S) /\ c.pc \notin PayLabel
BY DEF ReqOK, PayLabel, VerifyLabel

\* A request that stores its session keeps it hidden.
LEMMA OthersHidden ==
    ASSUME PaidInv, NEW q \in Req, req[q].pc \in PayLabel
    PROVE  sessions[req[q].session].state = "hidden" /\ req[q].session \in 1 .. Len(sessions)
BY DEF PaidInv, RequestsOK, ReqOK, Typed, InRange

\* Clients write into a row.
LEMMA ClientPaid ==
    ASSUME PaidInv, Typed', NEW k, ClientWrites(k)
    PROVE  PaidInv'
<1>1. Typed /\ Len(invoices) \in Nat /\ EditedRow(k) /\ sessions' = sessions
      /\ k \in 1 .. Len(invoices)
  BY RowTyped DEF PaidInv, ClientWrites, EditedRow
<1>2. SessionsKeep
  BY <1>1, SameSessions
<1>3. MarksKeep
  BY <1>1 DEF EditedRow, MarksKeep
<1>4. InvoicesKeep
  <2>1. invoices'[k].status = "paid" /\ ~Trusted(invoices'[k]) => invoices[k].status = "paid"
    BY <1>1 DEF EditedRow, Trusted, Edited
  <2> QED BY <1>1, <1>3, <2>1 DEF EditedRow, InvoicesKeep
<1>5. LinksKeep
  BY <1>1 DEF EditedRow, LinksKeep
<1>6. CASE UNCHANGED req
  BY <1>1, <1>4, <1>5, <1>6, TablePaid
<1>7. ASSUME NEW r \in Req, req' = [req EXCEPT ![r] = ReqIdle] PROVE PaidInv'
  <2>1. req'[r].pc = "idle" /\ \A q \in Req \ {r} : req'[q] = req[q]
    BY <1>1, <1>7, IdleTyped DEF Typed
  <2>2. \A q \in Req \ {r} : req[q].pc \in PayLabel => sessions'[req[q].session].state = "hidden"
    BY <1>1, OthersHidden
  <2>3. ReqOK(req'[r], invoices', sessions') /\ req'[r].pc \notin PayLabel
    BY <2>1, IdleOK
  <2> QED BY <1>2, <1>4, <1>5, <2>1, <2>2, <2>3, OneRequestPaid
<1> QED BY <1>6, <1>7 DEF ClientWrites

LEMMA MovesOK ==
    ASSUME PaidInv, NEW r \in Req, NEW c, Moves(r, c)
    PROVE  /\ ReqOK(c, invoices, sessions)
           /\ c.pc \in PayLabel => req[r].pc \in PayLabel /\ c.session = req[r].session
<1>1. ReqOK(req[r], invoices, sessions)
  BY DEF PaidInv, RequestsOK
<1>2. CASE c = ReqIdle
  BY <1>2, IdleTyped, IdleOK
<1>3. CASE c.pc \in {"checkout", "set state"} /\ c # ReqIdle
  BY <1>3 DEF ReqOK, PayLabel, VerifyLabel
<1>4. CASE c.pc = "ask" /\ c # ReqIdle
  <2>1. c.inv \in 1 .. Len(invoices) /\ c.session \in 1 .. Len(sessions)
        /\ invoices[c.inv].session = c.session
    BY <1>4 DEF Moves
  <2>2. sessions[c.session].inv = c.inv \/ Relinked(invoices[c.inv])
    BY <2>1, RowTyped DEF PaidInv, Linked, NoSession
  <2> QED BY <1>4, <2>2 DEF ReqOK, PayLabel
<1>5. CASE c.pc \notin {"checkout", "set state", "ask"} /\ c # ReqIdle
  BY <1>1, <1>5 DEF Moves, ReqOK, PayLabel, VerifyLabel
<1> QED BY <1>2, <1>3, <1>4, <1>5

LEMMA MovePaid ==
    ASSUME PaidInv, Typed', NEW r \in Req, Move(r)
    PROVE  PaidInv'
<1>1. PICK c : Moves(r, c) /\ req' = [req EXCEPT ![r] = c]
  BY DEF Move
<1>2. req'[r] = c /\ \A q \in Req \ {r} : req'[q] = req[q]
  BY <1>1 DEF PaidInv, Typed
<1>3. UNCHANGED <<invoices, sessions>>
  BY DEF Move
<1>4. SessionsKeep /\ InvoicesKeep /\ LinksKeep
  BY <1>3, SameSessions, SameInvoices DEF PaidInv
<1>5. \A q \in Req \ {r} : req[q].pc \in PayLabel => sessions'[req[q].session].state = "hidden"
  BY <1>3, OthersHidden
<1>6. ReqOK(c, invoices, sessions) /\ (c.pc \in PayLabel => req[r].pc \in PayLabel /\ c.session = req[r].session)
  BY <1>1, MovesOK
<1> QED BY <1>2, <1>3, <1>4, <1>5, <1>6, OneRequestPaid

LEMMA CheckoutPaid ==
    ASSUME PaidInv, Typed', NEW r \in Req, CreateStripeCheckout(r)
    PROVE  PaidInv'
<1> DEFINE n == Len(sessions) + 1
<1>1. Typed /\ Len(sessions) \in Nat
  BY RowTyped DEF PaidInv
<1>2. /\ Len(sessions') = n /\ \A s \in 1 .. Len(sessions) : sessions'[s] = sessions[s]
      /\ sessions'[n].inv = req[r].inv /\ sessions'[n].state = "hidden"
  <2>1. /\ Len(sessions') = n /\ \A s \in 1 .. Len(sessions) : sessions'[s] = sessions[s]
        /\ sessions'[n] = NewSession(req[r].inv, req[r].amount)
    BY <1>1, CheckoutShape
  <2> QED BY <2>1 DEF NewSession
<1>3. /\ \A q \in Req \ {r} : req'[q] = req[q]
      /\ req'[r].pc = "store" /\ req'[r].session = n /\ req'[r].inv = req[r].inv
  BY <1>1, CheckoutMove
<1>4. SessionsKeep /\ MarksKeep /\ InvoicesKeep /\ LinksKeep
  BY <1>1, <1>2, SameInvoices DEF SessionsKeep, CreateStripeCheckout
<1>5. \A q \in Req \ {r} : req[q].pc \in PayLabel =>
        sessions'[req[q].session].state = "hidden" /\ req[q].session # n
  BY <1>1, <1>2, OthersHidden
<1>6. RequestsOK'
  <2>1. ReqOK(req'[r], invoices', sessions')
    BY <1>2, <1>3 DEF ReqOK, PayLabel, VerifyLabel
  <2>2. \A q \in Req \ {r} : ReqOK(req'[q], invoices', sessions')
    BY <1>3, <1>4, <1>5, RequestKept
  <2> QED BY <2>1, <2>2 DEF RequestsOK
<1>7. OwnSession'
  <2>1. ASSUME NEW p \in Req, NEW q \in Req, p # q, req'[p].pc \in PayLabel, req'[q].pc \in PayLabel
        PROVE  req'[p].session # req'[q].session
    <3>1. CASE p # r /\ q # r
      BY <1>3, <2>1, <3>1 DEF PaidInv, OwnSession
    <3>2. CASE p = r \/ q = r
      BY <1>3, <1>5, <2>1, <3>2
    <3> QED BY <3>1, <3>2
  <2> QED BY <2>1 DEF OwnSession
<1>8. Linked(invoices', sessions')
  BY <1>4, LinkedKept
<1>9. PaidWasPaid'
  BY <1>4, PaidWasPaidKept
<1> QED BY <1>6, <1>7, <1>8, <1>9 DEF PaidInv

LEMMA StorePaid ==
    ASSUME PaidInv, Typed', NEW r \in Req, StoreLive(r)
    PROVE  PaidInv'
<1>1. Typed /\ req[r].pc = "store" /\ sessions' = sessions
  BY DEF PaidInv, StoreLive, StoreSession
<1>2. /\ \A q \in Req \ {r} : req'[q] = req[q]
      /\ req'[r].pc = "check pending" /\ req'[r].session = req[r].session
      /\ req'[r].inv = req[r].inv
  BY <1>1, StoreMove
<1>3. SessionsKeep /\ MarksKeep /\ InvoicesKeep
  <2>1. Len(invoices) \in Nat
    BY <1>1, RowTyped
  <2>2. MarksKeep /\ InvoicesKeep
    BY <1>1, <2>1, StoreShape DEF MarksKeep, InvoicesKeep
  <2> QED BY <1>1, <2>2, SameSessions
<1>4. RequestsOK'
  <2>1. ReqOK(req'[r], invoices', sessions')
    BY <1>1, <1>2 DEF PaidInv, RequestsOK, ReqOK, PayLabel, VerifyLabel
  <2>2. \A q \in Req \ {r} : ReqOK(req'[q], invoices', sessions')
    BY <1>1, <1>2, <1>3, OthersHidden, RequestKept
  <2> QED BY <2>1, <2>2 DEF RequestsOK
<1>5. OwnSession'
  BY <1>1, <1>2, OwnKept DEF PayLabel
<1>6. ASSUME NEW i \in 1 .. Len(invoices), invoices'[i].session # NoSession
      PROVE  sessions[invoices'[i].session].inv = i \/ Relinked(invoices'[i])
  <2>1. CASE i = req[r].inv
    <3>1. invoices'[i].session = req[r].session
      BY <1>1, <2>1, StoreShape
    <3>2. sessions[req[r].session].inv = req[r].inv
      BY <1>1 DEF PaidInv, RequestsOK, ReqOK, PayLabel
    <3> QED BY <2>1, <3>1, <3>2
  <2>2. CASE i # req[r].inv
    <3>1. invoices'[i].session = invoices[i].session /\ invoices'[i].edited = invoices[i].edited
      BY <1>1, <2>2, StoreShape
    <3>2. Relinked(invoices[i]) => Relinked(invoices'[i])
      BY <3>1, SameMarks
    <3> QED BY <1>6, <3>1, <3>2 DEF PaidInv, Linked
  <2> QED BY <2>1, <2>2
<1>7. Linked(invoices', sessions')
  BY <1>1, <1>6, StoreShape DEF Linked
<1>8. PaidWasPaid'
  BY <1>3, PaidWasPaidKept
<1> QED BY <1>4, <1>5, <1>7, <1>8 DEF PaidInv

\* The answer publishes a session that was hidden, so none that has been paid.
LEMMA AnswerKeeps ==
    ASSUME PaidInv, NEW r \in Req, req[r].pc \in PayLabel, NEW ok \in BOOLEAN, Answer(r, ok)
    PROVE  /\ SessionsKeep
           /\ \A q \in Req \ {r} : req[q].pc \in PayLabel =>
                                        sessions'[req[q].session].state = "hidden"
           /\ ReqOK(req'[r], invoices', sessions') /\ req'[r].pc = "idle"
           /\ \A q \in Req \ {r} : req'[q] = req[q]
<1>1. Typed /\ Len(sessions) \in Nat
  BY RowTyped DEF PaidInv
<1>2. /\ Len(sessions') = Len(sessions)
      /\ \A s \in 1 .. Len(sessions) :
                /\ sessions'[s].inv = sessions[s].inv
                /\ s # req[r].session => sessions'[s] = sessions[s]
      /\ req' = [req EXCEPT ![r] = ReqIdle]
  BY <1>1, AnswerShape
<1>3. SessionsKeep
  BY <1>1, <1>2, OthersHidden DEF SessionsKeep
<1>4. req'[r].pc = "idle" /\ \A q \in Req \ {r} : req'[q] = req[q]
  BY <1>1, <1>2, IdleMove
<1>5. ReqOK(req'[r], invoices', sessions')
  BY <1>4, IdleOK
<1>6. ASSUME NEW q \in Req \ {r}, req[q].pc \in PayLabel
      PROVE  sessions'[req[q].session].state = "hidden"
  <2>1. req[q].session # req[r].session
    BY <1>6 DEF PaidInv, OwnSession
  <2> QED BY <1>2, <1>6, <2>1, OthersHidden
<1> QED BY <1>3, <1>4, <1>5, <1>6

LEMMA AnswerFailedPaid ==
    ASSUME PaidInv, Typed', NEW r \in Req, AnswerFailed(r)
    PROVE  PaidInv'
<1>1. req[r].pc \in PayLabel /\ Answer(r, FALSE) /\ invoices' = invoices
  BY DEF AnswerFailed, PayLabel
<1>2. InvoicesKeep /\ LinksKeep
  BY <1>1, SameInvoices DEF PaidInv
<1> QED BY <1>1, <1>2, AnswerKeeps, OneRequestPaid DEF PayLabel

LEMMA SetPendingPaid ==
    ASSUME PaidInv, Typed', NEW r \in Req, SetPendingLive(r)
    PROVE  PaidInv'
<1>1. Typed /\ Len(invoices) \in Nat
  BY RowTyped DEF PaidInv
<1>2. /\ req[r].pc \in PayLabel /\ req[r].ok \in BOOLEAN /\ Answer(r, req[r].ok)
      /\ Len(invoices') = Len(invoices)
      /\ \A i \in 1 .. Len(invoices) :
            /\ invoices'[i].session = invoices[i].session
            /\ invoices'[i].edited = invoices[i].edited
            /\ invoices'[i].status = IF i = req[r].inv THEN "pending" ELSE invoices[i].status
  BY <1>1, SetPendingShape
<1>3. InvoicesKeep /\ LinksKeep
  BY <1>1, <1>2 DEF InvoicesKeep, MarksKeep, LinksKeep
<1>4. /\ SessionsKeep
      /\ \A q \in Req \ {r} : req[q].pc \in PayLabel =>
                                   sessions'[req[q].session].state = "hidden"
      /\ ReqOK(req'[r], invoices', sessions') /\ req'[r].pc = "idle"
      /\ \A q \in Req \ {r} : req'[q] = req[q]
  BY <1>2, AnswerKeeps
<1> QED BY <1>2, <1>3, <1>4, OneRequestPaid DEF PayLabel

\* The invoice becomes paid, and the session that was asked about is for it.
LEMMA SetPaidPaid ==
    ASSUME PaidInv, Typed', NEW r \in Req, SetPaidLive(r)
    PROVE  PaidInv'
<1>1. Typed /\ req[r].pc = "set paid" /\ sessions' = sessions
  BY DEF PaidInv, SetPaidLive, SetPaid
<1>2. /\ req' = [req EXCEPT ![r] = ReqIdle] /\ Len(invoices') = Len(invoices)
      /\ \A i \in 1 .. Len(invoices) :
            /\ invoices'[i].session = invoices[i].session
            /\ invoices'[i].edited = invoices[i].edited
            /\ invoices'[i].status = IF i = req[r].inv THEN "paid" ELSE invoices[i].status
  BY <1>1, SetPaidShape
<1>3. req'[r].pc = "idle" /\ \A q \in Req \ {r} : req'[q] = req[q]
  BY <1>1, <1>2, IdleMove
<1>4. SessionsKeep /\ MarksKeep /\ LinksKeep
  <2>1. Len(invoices) \in Nat
    BY <1>1, RowTyped
  <2>2. MarksKeep
    BY <1>2, <2>1 DEF MarksKeep
  <2>3. LinksKeep
    BY <1>2 DEF LinksKeep
  <2> QED BY <1>1, <2>2, <2>3, SameSessions
<1>5. RequestsOK'
  <2>1. ReqOK(req'[r], invoices', sessions')
    BY <1>3, IdleOK
  <2>2. \A q \in Req \ {r} : ReqOK(req'[q], invoices', sessions')
    BY <1>1, <1>3, <1>4, OthersHidden, RequestKept
  <2> QED BY <2>1, <2>2 DEF RequestsOK
<1>6. OwnSession'
  BY <1>3, OwnKept DEF PayLabel
<1>7. Linked(invoices', sessions')
  BY <1>4, LinkedKept
<1>8. /\ req[r].session \in 1 .. Len(sessions)
      /\ sessions[req[r].session].inv = req[r].inv \/ Relinked(invoices[req[r].inv])
      /\ sessions[req[r].session].state = "paid"
  BY <1>1 DEF PaidInv, Typed, InRange, RequestsOK, ReqOK, VerifyLabel
<1>9. PaidWasPaid'
  <2>1. ASSUME NEW i \in 1 .. Len(invoices), invoices'[i].status = "paid", ~Trusted(invoices'[i])
        PROVE  \E s \in 1 .. Len(sessions) : sessions[s].inv = i /\ sessions[s].state = "paid"
    <3>1. ~Trusted(invoices[i])
      BY <1>2, <2>1, SameMarks DEF Trusted
    <3>2. ~Relinked(invoices[i])
      BY <3>1 DEF Trusted, Relinked, Edited
    <3>3. CASE i = req[r].inv
      BY <1>8, <3>2, <3>3
    <3>4. CASE i # req[r].inv
      BY <1>2, <2>1, <3>1, <3>4 DEF PaidInv, PaidWasPaid, Trusted
    <3> QED BY <3>3, <3>4
  <2> QED BY <1>1, <1>2, <2>1 DEF PaidWasPaid, Trusted
<1> QED BY <1>5, <1>6, <1>7, <1>9 DEF PaidInv

LEMMA CustomerPaysPaid ==
    ASSUME PaidInv, Typed', NEW k \in Session, CustomerPays(k)
    PROVE  PaidInv'
<1>1. Typed /\ Len(sessions) \in Nat /\ UNCHANGED <<invoices, req>>
  BY RowTyped DEF PaidInv, CustomerPays
<1>2. /\ Len(sessions') = Len(sessions) /\ sessions[k].state = "open"
      /\ \A s \in 1 .. Len(sessions) :
                /\ sessions'[s].inv = sessions[s].inv
                /\ sessions'[s].state = IF s = k THEN "paid" ELSE sessions[s].state
  BY <1>1, PaysShape
<1>3. SessionsKeep /\ MarksKeep /\ InvoicesKeep /\ LinksKeep
  BY <1>1, <1>2, SameInvoices DEF SessionsKeep
<1>4. \A q \in Req : req[q].pc \in PayLabel => sessions'[req[q].session].state = "hidden"
  BY <1>2, OthersHidden
<1>5. RequestsOK' /\ OwnSession'
  BY <1>1, <1>3, <1>4, RequestKept, OwnKept DEF RequestsOK
<1>6. Linked(invoices', sessions')
  BY <1>3, LinkedKept
<1>7. PaidWasPaid'
  BY <1>3, PaidWasPaidKept
<1> QED BY <1>5, <1>6, <1>7 DEF PaidInv

LEMMA CrashPaid ==
    ASSUME PaidInv, Typed', Crash
    PROVE  PaidInv'
<1>1. Typed /\ UNCHANGED <<invoices, sessions>> /\ \A r \in Req : req'[r].pc = "idle"
  BY IdleTyped DEF Crash, PaidInv
<1>2. RequestsOK' /\ OwnSession'
  BY <1>1 DEF RequestsOK, ReqOK, OwnSession, PayLabel, VerifyLabel
<1> QED BY <1>1, <1>2 DEF PaidInv, Linked, PaidWasPaid

LEMMA StepPaid ==
    ASSUME PaidInv, Step
    PROVE  PaidInv'
<1>1. Typed'
  BY StepTyped DEF PaidInv
<1>2. CASE Quiet
  BY <1>1, <1>2 DEF Quiet, PaidInv, RequestsOK, OwnSession, Linked, PaidWasPaid
<1> QED BY <1>1, <1>2, UpdatePaid, CreatePaid, PostPaid, ClientPaid, MovePaid, CheckoutPaid, StorePaid,
           AnswerFailedPaid, SetPendingPaid, SetPaidPaid, CustomerPaysPaid, CrashPaid
        DEF Step, RequestStep

\* Whatever invoicePayHandler and verifyPaymentHandler interleave, crash or
\* fail to store, an invoice is "paid" only if a session made for it was paid,
\* or a client wrote "paid" or the session into it, or posted it.
THEOREM PaidAlwaysWasPaid == Spec => []PaidWasPaid
<1>1. Init => PaidInv
  <2>1. ASSUME Init
        PROVE  RequestsOK /\ OwnSession /\ Linked(invoices, sessions) /\ PaidWasPaid
    <3>1. Len(invoices) = 0 /\ \A r \in Req : req[r].pc = "idle"
      BY <2>1, IdleTyped DEF Init
    <3>2. Linked(invoices, sessions) /\ PaidWasPaid
      BY <3>1 DEF Linked, PaidWasPaid
    <3> QED BY <3>1, <3>2 DEF RequestsOK, ReqOK, OwnSession, PayLabel, VerifyLabel
  <2> QED BY <2>1, InitTyped DEF PaidInv
<1>2. PaidInv => PaidWasPaid
  BY DEF PaidInv
<1>3. PaidInv /\ [Next]_vars => PaidInv'
  <2>1. CASE Next
    BY <2>1, NextSteps, StepPaid DEF PaidInv
  <2>2. CASE UNCHANGED vars
    BY <2>2 DEF vars, PaidInv, Typed, RequestsOK, OwnSession, Linked, PaidWasPaid
  <2> QED BY <2>1, <2>2
<1> QED BY <1>1, <1>2, <1>3, PTL DEF Spec

-----------------------------------------------------------------------------
(***************************************************************************)
(* OneInvoicePerMonth, as long as the generator's list holds all rows.     *)
(***************************************************************************)
\* The rows that count keep their customer and their month, and no row counts
\* that did not count before.
RowsKeep ==
    /\ Len(invoices') = Len(invoices)
    /\ \A i \in 1 .. Len(invoices) : Counts(invoices'[i]) =>
            /\ Counts(invoices[i])
            /\ invoices'[i].user = invoices[i].user /\ invoices'[i].month = invoices[i].month

\* A step that keeps all of it, and brings no row back.
LEMMA RowsKept ==
    ASSUME Len(invoices') = Len(invoices),
           \A i \in 1 .. Len(invoices) :
                /\ invoices'[i].user = invoices[i].user /\ invoices'[i].month = invoices[i].month
                /\ invoices'[i].edited = invoices[i].edited
                /\ invoices[i].status = "gone" => invoices'[i].status = "gone"
    PROVE  RowsKeep
<1>1. ASSUME NEW i \in 1 .. Len(invoices), Counts(invoices'[i]) PROVE Counts(invoices[i])
  BY <1>1, SameMarks DEF Counts
<1> QED BY <1>1 DEF RowsKeep

LEMMA MonthMeans ==
    OneInvoicePerMonth <=>
        \A i, j \in 1 .. Len(invoices) :
            /\ Counts(invoices[i]) /\ Counts(invoices[j])
            /\ invoices[i].user = invoices[j].user /\ invoices[i].month = invoices[j].month
            => i = j
BY DEF OneInvoicePerMonth, Live, Counts

LEMMA MonthMeansPrimed ==
    OneInvoicePerMonth' <=>
        \A i, j \in 1 .. Len(invoices') :
            /\ Counts(invoices'[i]) /\ Counts(invoices'[j])
            /\ invoices'[i].user = invoices'[j].user /\ invoices'[i].month = invoices'[j].month
            => i = j
BY DEF OneInvoicePerMonth, Live, Counts

\* What the generator may still insert, it could have inserted before.
GenKeeps ==
    gen'.pc = "bill" =>
        /\ gen.pc = "bill" /\ gen'.month = gen.month
        /\ gen'.todo \subseteq gen.todo /\ gen'.existing = gen.existing

LEMMA RowsMonth ==
    ASSUME MonthInv, Typed', RowsKeep, GenKeeps
    PROVE  MonthInv'
<1>1. OneInvoicePerMonth' /\ (Len(invoices) <= MaxInvoice)'
  BY MonthMeans, MonthMeansPrimed DEF MonthInv, RowsKeep
<1>2. NoneYet'
  BY DEF MonthInv, NoneYet, RowsKeep, GenKeeps
<1> QED BY <1>1, <1>2 DEF MonthInv

\* Requests and customers leave the generator alone.
LEMMA OthersMonth ==
    ASSUME MonthInv, Typed', RowsKeep, UNCHANGED gen
    PROVE  MonthInv'
BY RowsMonth DEF GenKeeps

LEMMA GenNextKeeps ==
    ASSUME Typed, NEW u \in User, Billing(u), GenNext(u)
    PROVE  GenKeeps /\ (gen'.pc = "bill" => u \notin gen'.todo)
BY GenNextTyped, IdleTyped DEF GenKeeps, Billing

LEMMA ListInvoicesMonth ==
    ASSUME MaxInvoice <= GenLimit, MonthInv, Typed', ListInvoices
    PROVE  MonthInv'
<1>1. Typed /\ invoices' = invoices /\ Len(invoices) \in Nat /\ Len(invoices) <= GenLimit
  BY RowTyped, BillingAssumption DEF MonthInv, ListInvoices
<1>2. Newest(GenLimit) = Live
  <2>1. ASSUME NEW i \in Live PROVE Cardinality({j \in Live : j > i}) < GenLimit
    <3> DEFINE N == Len(invoices)
               above == {j \in Live : j > i}
    <3>1. i \in 1 .. N /\ N \in Nat /\ N <= GenLimit
      BY <1>1, <2>1 DEF Live
    <3>2. above \subseteq (i + 1) .. N
      BY <3>1 DEF Live
    <3>3. IsFiniteSet((i + 1) .. N)
          /\ Cardinality((i + 1) .. N) = IF i + 1 > N THEN 0 ELSE N - (i + 1) + 1
      <4>1. i + 1 \in Int /\ N \in Int
        BY <3>1
      <4> HIDE DEF N
      <4> QED BY <4>1, FS_Interval, Zenon
    <3>4. Cardinality(above) \in Nat /\ Cardinality(above) <= Cardinality((i + 1) .. N)
      BY <3>2, <3>3, FS_Subset, FS_CardinalityType
    <3>5. Cardinality((i + 1) .. N) < N
      BY <3>1, <3>3
    <3> HIDE DEF above
    <3>6. Cardinality(above) < GenLimit
      BY <3>1, <3>3, <3>4, <3>5, BillingAssumption
    <3> QED BY <3>6 DEF above
  <2> QED BY <2>1 DEF Newest
<1>3. ASSUME NEW u \in User, NEW i \in 1 .. Len(invoices), gen'.existing[u] = 0
      PROVE  ~(Counts(invoices[i]) /\ invoices[i].user = u /\ invoices[i].month = gen.month)
  <2>1. Mine(u) = {}
    BY <1>1, <1>3, ListInvoicesShape, ExistingIsMine
  <2> QED BY <1>2, <2>1 DEF Mine, Counts, Live
<1>4. NoneYet'
  <2>1. gen'.month = gen.month
    BY <1>1, ListInvoicesShape
  <2> QED BY <1>1, <1>3, <2>1 DEF NoneYet
<1>5. OneInvoicePerMonth'
  BY <1>1, MonthMeans, MonthMeansPrimed DEF MonthInv
<1> QED BY <1>1, <1>4, <1>5 DEF MonthInv

\* A client's own row does not count.
LEMMA PostMonth ==
    ASSUME MonthInv, Typed', NEW u \in User, PostInvoice(u)
    PROVE  MonthInv'
<1> DEFINE n == Len(invoices) + 1
<1>1. Typed /\ Len(invoices) \in Nat /\ Len(invoices) < MaxInvoice /\ gen' = gen
  BY RowTyped DEF MonthInv, PostInvoice
<1>2. /\ Len(invoices') = n /\ \A i \in 1 .. Len(invoices) : invoices'[i] = invoices[i]
      /\ invoices'[n].edited = {"posted"}
  BY <1>1, PostShape
<1>3. \A i \in 1 .. n : i \in 1 .. Len(invoices) \/ i = n
  BY <1>1
<1>4. ~Counts(invoices'[n])
  BY <1>2 DEF Counts, Edited
<1>5. OneInvoicePerMonth'
  BY <1>2, <1>3, <1>4, MonthMeans, MonthMeansPrimed DEF MonthInv
<1>6. NoneYet'
  BY <1>1, <1>2, <1>3, <1>4 DEF MonthInv, NoneYet
<1> QED BY <1>1, <1>2, <1>5, <1>6, BillingAssumption DEF MonthInv

LEMMA ClientMonth ==
    ASSUME MonthInv, Typed', NEW k, ClientWrites(k)
    PROVE  MonthInv'
<1>1. EditedRow(k) /\ UNCHANGED gen
  BY DEF ClientWrites
<1>2. ASSUME NEW i \in 1 .. Len(invoices), Counts(invoices'[i])
      PROVE  Counts(invoices[i]) /\ invoices'[i].month = invoices[i].month
  <2>1. invoices[i].edited \subseteq invoices'[i].edited
    BY <1>1 DEF EditedRow
  <2>2. ~Edited(invoices'[i], {"month", "posted"})
    BY <1>2 DEF Counts
  <2>3. ~Edited(invoices[i], {"month", "posted"})
    BY <2>1, <2>2, MarksGrow
  <2>4. CASE i = k
    <3>1. invoices[k].status # "gone"
      BY <1>1 DEF EditedRow, Live
    <3>2. ~Edited(invoices'[k], {"month"})
      BY <2>2, <2>4 DEF Edited
    <3>3. invoices'[k].month = invoices[k].month
      BY <1>1, <3>2 DEF EditedRow
    <3> QED BY <2>3, <2>4, <3>1, <3>3 DEF Counts
  <2>5. CASE i # k
    BY <1>1, <1>2, <2>5 DEF EditedRow
  <2> QED BY <2>4, <2>5
<1>3. RowsKeep
  BY <1>1, <1>2 DEF RowsKeep, EditedRow
<1> QED BY <1>1, <1>3, OthersMonth

LEMMA CreateMonth ==
    ASSUME MonthInv, Typed', NEW u \in User, CreateInvoice(u)
    PROVE  MonthInv'
<1> DEFINE n == Len(invoices) + 1
<1>1. Typed /\ Len(invoices) \in Nat /\ Billing(u) /\ GenNext(u)
      /\ gen.existing[u] = 0 /\ Len(invoices) < MaxInvoice
  BY RowTyped DEF MonthInv, CreateInvoice
<1>2. /\ Len(invoices') = n /\ \A i \in 1 .. Len(invoices) : invoices'[i] = invoices[i]
      /\ invoices'[n].user = u /\ invoices'[n].month = gen.month
  BY <1>1, CreateShape
<1>3. \A i \in 1 .. n : i \in 1 .. Len(invoices) \/ i = n
  BY <1>1
<1>4. \A i \in 1 .. Len(invoices) :
        ~(Counts(invoices[i]) /\ invoices[i].user = u /\ invoices[i].month = gen.month)
  BY <1>1 DEF MonthInv, NoneYet, Billing
<1>5. OneInvoicePerMonth'
  <2>1. ASSUME NEW i \in 1 .. n, NEW j \in 1 .. n,
               Counts(invoices'[i]), Counts(invoices'[j]),
               invoices'[i].user = invoices'[j].user, invoices'[i].month = invoices'[j].month
        PROVE  i = j
    <3>1. CASE i # n /\ j # n
      BY <1>2, <1>3, <2>1, <3>1, MonthMeans DEF MonthInv
    <3>2. CASE i = n \/ j = n
      BY <1>2, <1>3, <1>4, <2>1, <3>2
    <3> QED BY <3>1, <3>2
  <2> QED BY <1>2, <2>1, MonthMeansPrimed
<1>6. NoneYet'
  <2>1. GenKeeps /\ (gen'.pc = "bill" => u \notin gen'.todo)
    BY <1>1, GenNextKeeps
  <2>2. ASSUME NEW v \in User, NEW i \in 1 .. n,
               gen'.pc = "bill", v \in gen'.todo, gen'.existing[v] = 0
        PROVE  ~(Counts(invoices'[i]) /\ invoices'[i].user = v /\ invoices'[i].month = gen'.month)
    <3>1. v # u /\ v \in gen.todo /\ gen.pc = "bill" /\ gen.existing[v] = 0
          /\ gen'.month = gen.month
      BY <2>1, <2>2 DEF GenKeeps
    <3> QED BY <1>2, <1>3, <3>1 DEF MonthInv, NoneYet
  <2> QED BY <1>2, <2>2 DEF NoneYet
<1> QED BY <1>1, <1>2, <1>5, <1>6, BillingAssumption DEF MonthInv

LEMMA StepMonth ==
    ASSUME MaxInvoice <= GenLimit, MonthInv, Step
    PROVE  MonthInv'
<1>1. Typed /\ Typed'
  BY StepTyped DEF MonthInv
<1>2. CASE Quiet
  <2>1. RowsKeep
    BY <1>2 DEF Quiet, RowsKeep
  <2>2. CASE UNCHANGED gen
    BY <1>1, <2>1, <2>2, OthersMonth
  <2>3. CASE ListDeployments
    BY <1>1, <2>1, <2>3, ListDeploymentsShape, RowsMonth DEF GenKeeps
  <2>4. CASE ListInvoices
    BY <1>1, <2>4, ListInvoicesMonth
  <2>5. ASSUME NEW u \in User, Billing(u), GenNext(u) PROVE MonthInv'
    BY <1>1, <2>1, <2>5, GenNextKeeps, RowsMonth
  <2> QED BY <1>2, <2>2, <2>3, <2>4, <2>5 DEF Quiet
<1>3. ASSUME NEW u \in User, UpdateLive(u) PROVE MonthInv'
  <2>1. RowsKeep
    BY <1>1, <1>3, UpdateShape, RowsKept
  <2>2. GenKeeps
    BY <1>1, <1>3, GenNextKeeps DEF UpdateLive, UpdateInvoice
  <2> QED BY <1>1, <2>1, <2>2, RowsMonth
<1>4. ASSUME NEW r \in Req, Move(r) \/ CreateStripeCheckout(r) \/ AnswerFailed(r) PROVE MonthInv'
  <2>1. UNCHANGED <<invoices, gen>>
    BY <1>4 DEF Move, CreateStripeCheckout, AnswerFailed
  <2> QED BY <1>1, <2>1, OthersMonth DEF RowsKeep
<1>5. ASSUME NEW r \in Req, StoreLive(r) PROVE MonthInv'
  <2>1. RowsKeep
    BY <1>1, <1>5, StoreShape, RowsKept
  <2>2. UNCHANGED gen
    BY <1>5 DEF StoreLive, StoreSession
  <2> QED BY <1>1, <2>1, <2>2, OthersMonth
<1>6. ASSUME NEW r \in Req, SetPendingLive(r) PROVE MonthInv'
  <2>1. invoices[req[r].inv].status # "gone"
    BY <1>6 DEF SetPendingLive, Live
  <2>2. RowsKeep
    BY <1>1, <1>6, <2>1, SetPendingShape, RowsKept
  <2>3. UNCHANGED gen
    BY <1>6 DEF SetPendingLive, SetPending
  <2> QED BY <1>1, <2>2, <2>3, OthersMonth
<1>7. ASSUME NEW r \in Req, SetPaidLive(r) PROVE MonthInv'
  <2>1. invoices[req[r].inv].status # "gone"
    BY <1>7 DEF SetPaidLive, Live
  <2>2. RowsKeep
    BY <1>1, <1>7, <2>1, SetPaidShape, RowsKept
  <2>3. UNCHANGED gen
    BY <1>7 DEF SetPaidLive, SetPaid
  <2> QED BY <1>1, <2>2, <2>3, OthersMonth
<1>8. ASSUME NEW s \in Session, CustomerPays(s) PROVE MonthInv'
  <2>1. UNCHANGED <<invoices, gen>>
    BY <1>8 DEF CustomerPays
  <2> QED BY <1>1, <2>1, OthersMonth DEF RowsKeep
<1>9. CASE Crash
  <2>1. invoices' = invoices /\ gen'.pc = "idle"
    BY <1>9, IdleTyped DEF Crash
  <2> QED BY <1>1, <2>1, RowsMonth DEF RowsKeep, GenKeeps
<1> QED BY <1>1, <1>2, <1>3, <1>4, <1>5, <1>6, <1>7, <1>8, <1>9, CreateMonth,
           PostMonth, ClientMonth
        DEF Step, RequestStep

\* As long as the generator's page holds the whole table invoices, a customer
\* has one invoice for a month, however runs of the generator are cut off and
\* whatever happens between its list and its inserts, not counting invoices
\* that clients posted or moved to the month.
THEOREM OneInvoiceEveryMonth ==
    ASSUME MaxInvoice <= GenLimit
    PROVE  Spec => []OneInvoicePerMonth
<1>1. Init => MonthInv
  <2>1. ASSUME Init PROVE Len(invoices) <= MaxInvoice /\ NoneYet /\ OneInvoicePerMonth
    <3>1. Len(invoices) = 0
      BY <2>1 DEF Init
    <3> QED BY <3>1, BillingAssumption DEF NoneYet, OneInvoicePerMonth, Live
  <2> QED BY <2>1, InitTyped DEF MonthInv
<1>2. MonthInv => OneInvoicePerMonth
  BY DEF MonthInv
<1>3. MonthInv /\ [Next]_vars => MonthInv'
  <2>1. CASE Next
    BY <2>1, NextSteps, StepMonth DEF MonthInv
  <2>2. CASE UNCHANGED vars
    BY <2>2 DEF vars, MonthInv, Typed, NoneYet, OneInvoicePerMonth, Live
  <2> QED BY <2>1, <2>2
<1> QED BY <1>1, <1>2, <1>3, PTL DEF Spec

-----------------------------------------------------------------------------
(***************************************************************************)
(* ChargedAmount and PaymentIsCredited, for payments of an invoice that do *)
(* not overlap each other or a run of the generator.                       *)
(***************************************************************************)
SameMoney(i) ==
    /\ invoices'[i].status = invoices[i].status
    /\ invoices'[i].total = invoices[i].total
    /\ invoices'[i].session = invoices[i].session

\* What a request that waits relies on: unless a client touches it, the row of
\* a payment is as it was, and a settled row stays settled and keeps a session.
RowFor(c, i) ==
    \/ Touched(invoices'[i])
    \/ /\ ~Touched(invoices[i])
       /\ c.pc \in {"checkout"} \cup PayLabel => SameMoney(i)
       /\ c.pc \in VerifyLabel =>
            /\ invoices[i].session # NoSession => invoices'[i].session # NoSession
            /\ Settled(invoices[i].status) => Settled(invoices'[i].status)

RowsFor(q) == req[q].pc # "idle" => RowFor(req[q], req[q].inv)

AmountsKeep == \A s \in 1 .. Len(sessions) : sessions'[s].amount = sessions[s].amount

LEMMA RowKept ==
    ASSUME NEW c, NEW i, RowFor(c, i), Touched(invoices[i]) \/ RowOK(c, invoices[i])
    PROVE  Touched(invoices'[i]) \/ RowOK(c, invoices'[i])
<1>1. CASE Touched(invoices'[i])
  BY <1>1
<1>2. CASE ~Touched(invoices'[i])
  <2>1. RowOK(c, invoices[i])
    BY <1>2 DEF RowFor
  <2>2. CASE c.pc \in {"checkout"} \cup PayLabel
    <3>1. SameMoney(i)
      BY <1>2, <2>2 DEF RowFor
    <3> QED BY <2>1, <3>1 DEF RowOK, SameMoney
  <2>3. CASE c.pc \in VerifyLabel
    <3>1. /\ invoices[i].session # NoSession => invoices'[i].session # NoSession
          /\ Settled(invoices[i].status) => Settled(invoices'[i].status)
      BY <1>2, <2>3 DEF RowFor
    <3> QED BY <2>1, <2>3, <3>1 DEF RowOK, PayLabel, VerifyLabel
  <2>4. CASE c.pc \notin {"checkout"} \cup PayLabel \cup VerifyLabel
    BY <2>4 DEF RowOK, PayLabel, VerifyLabel
  <2> QED BY <2>2, <2>3, <2>4
<1> QED BY <1>1, <1>2

LEMMA PaymentKept ==
    ASSUME CreditInv, NEW q \in Req, req'[q] = req[q], RowsFor(q), AmountsKeep
    PROVE  PaymentOK(req'[q], invoices', sessions')
<1>1. PaymentOK(req[q], invoices, sessions)
  BY DEF CreditInv, PaymentsOK
<1>2. req[q].pc \in PayLabel => sessions'[req[q].session].amount = sessions[req[q].session].amount
  BY DEF CreditInv, PaidInv, Typed, InRange, AmountsKeep
<1>3. req[q].pc # "idle" => Touched(invoices'[req[q].inv]) \/ RowOK(req[q], invoices'[req[q].inv])
  BY <1>1, RowKept DEF PaymentOK, RowsFor
<1> QED BY <1>1, <1>2, <1>3 DEF PaymentOK

LEMMA WhoPays ==
    ASSUME NEW q \in Req
    PROVE  Paying(q) <=> req[q].pc \in {"checkout"} \cup PayLabel
BY DEF Paying, PayLabel

\* A request under way has a row.
LEMMA HasRow ==
    ASSUME Typed, NEW q \in Req, req[q].pc # "idle"
    PROVE  req[q].inv \in 1 .. Len(invoices)
BY DEF Typed, InRange

\* Rows that are as they were do for every request.
LEMMA SameRowsFor ==
    ASSUME CreditInv, NEW q \in Req,
           \A i \in 1 .. Len(invoices) :
                SameMoney(i) /\ invoices'[i].edited = invoices[i].edited
    PROVE  RowsFor(q)
<1>1. CASE req[q].pc = "idle"
  BY <1>1 DEF RowsFor
<1>2. CASE req[q].pc # "idle"
  <2> DEFINE i == req[q].inv
  <2>1. i \in 1 .. Len(invoices)
    BY <1>2, HasRow DEF CreditInv, PaidInv
  <2>2. SameMoney(i) /\ (Touched(invoices'[i]) <=> Touched(invoices[i]))
    BY <2>1, SameMarks
  <2> HIDE DEF i
  <2>3. RowFor(req[q], i)
    BY <2>2 DEF RowFor, SameMoney
  <2> QED BY <2>3 DEF RowsFor, i
<1> QED BY <1>1, <1>2

LEMMA IdlePaymentOK ==
    ASSUME NEW c, c.pc = "idle", NEW I, NEW S
    PROVE  PaymentOK(c, I, S)
BY DEF PaymentOK, PayLabel

\* A clean session keeps what it has if its row does, or a client touches it.
LEMMA CleanKept ==
    ASSUME CreditInv, NEW s \in 1 .. Len(sessions), sessions[s].clean,
           Len(invoices') >= Len(invoices), Len(invoices') \in Nat,
           LET i == sessions[s].inv
           IN  i \in 1 .. Len(invoices) =>
                \/ Touched(invoices'[i])
                \/ /\ ~Touched(invoices[i])
                   /\ CleanRow(invoices[i], s, sessions[s].amount) =>
                        CleanRow(invoices'[i], s, sessions[s].amount)
    PROVE  /\ sessions[s].inv \in 1 .. Len(invoices')
           /\ \/ Touched(invoices'[sessions[s].inv])
              \/ CleanRow(invoices'[sessions[s].inv], s, sessions[s].amount)
<1>1. /\ sessions[s].inv \in 1 .. Len(invoices)
      /\ \/ Touched(invoices[sessions[s].inv])
         \/ CleanRow(invoices[sessions[s].inv], s, sessions[s].amount)
  BY DEF CreditInv, CleanOK
<1>2. sessions[s].inv \in 1 .. Len(invoices')
  BY <1>1, RowTyped DEF CreditInv, PaidInv
<1> QED BY <1>1, <1>2

LEMMA DraftsKept ==
    ASSUME CreditInv, GenKeeps, gen'.pc = "bill" => gen'.status = gen.status,
           Len(invoices') >= Len(invoices), Len(invoices') \in Nat,
           \A i \in 1 .. Len(invoices) :
                Touched(invoices[i]) \/ invoices[i].status = "draft" =>
                    Touched(invoices'[i]) \/ invoices'[i].status = "draft"
    PROVE  DraftsAreDrafts'
<1>1. ASSUME gen'.pc = "bill", NEW u \in User, gen'.existing[u] # 0, ~Settled(gen'.status[u])
      PROVE  /\ gen'.existing[u] \in 1 .. Len(invoices')
             /\ \/ Touched(invoices'[gen'.existing[u]])
                \/ invoices'[gen'.existing[u]].status = "draft"
  <2>1. gen.pc = "bill" /\ gen'.existing = gen.existing /\ gen'.status = gen.status
    BY <1>1 DEF GenKeeps
  <2>2. /\ gen.existing[u] \in 1 .. Len(invoices)
        /\ Touched(invoices[gen.existing[u]]) \/ invoices[gen.existing[u]].status = "draft"
    BY <1>1, <2>1 DEF CreditInv, DraftsAreDrafts, UpdatesDraft
  <2> QED BY <2>1, <2>2, RowTyped DEF CreditInv, PaidInv
<1> QED BY <1>1 DEF DraftsAreDrafts, UpdatesDraft

\* The generator lists, skips, or is not concerned.
LEMMA QuietCredit ==
    ASSUME CreditInv, PaidInv', Apart', Quiet
    PROVE  CreditInv'
<1>1. Typed /\ UNCHANGED <<invoices, sessions, req>> /\ Len(invoices) \in Nat
  BY RowTyped DEF CreditInv, PaidInv, Quiet
<1>2. PaymentsOK' /\ CleanOK(invoices', sessions') /\ NeverFailed'
  BY <1>1 DEF CreditInv, PaymentsOK, NeverFailed
<1>3. DraftsAreDrafts'
  <2>1. CASE UNCHANGED gen
    BY <1>1, <2>1 DEF CreditInv, DraftsAreDrafts, UpdatesDraft
  <2>2. CASE ListDeployments
    BY <1>1, <2>2, ListDeploymentsShape DEF DraftsAreDrafts
  <2>3. CASE ListInvoices
    <3>1. ASSUME NEW u \in User, gen'.existing[u] # 0, ~Settled(gen'.status[u])
          PROVE  /\ gen'.existing[u] \in 1 .. Len(invoices)
                 /\ \/ Touched(invoices[gen'.existing[u]])
                    \/ invoices[gen'.existing[u]].status = "draft"
      <4>1. gen'.existing[u] \in 1 .. Len(invoices)
            /\ gen'.status[u] = invoices[gen'.existing[u]].status
        BY <1>1, <2>3, <3>1, ListInvoicesShape, ExistingIsMine
      <4>2. \/ Touched(invoices[gen'.existing[u]])
            \/ invoices[gen'.existing[u]].status \in Status \ {"failed"}
        BY <1>1, <4>1, RowTyped DEF CreditInv, NeverFailed, InvoiceRow
      <4> QED BY <3>1, <4>1, <4>2 DEF Settled, Status
    <3> QED BY <1>1, <3>1 DEF DraftsAreDrafts, UpdatesDraft
  <2>4. ASSUME NEW u \in User, Billing(u), GenNext(u) PROVE DraftsAreDrafts'
    <3>1. GenKeeps /\ (gen'.pc = "bill" => gen'.status = gen.status)
      BY <1>1, <2>4, GenNextKeeps, GenNextTyped, IdleTyped
    <3> QED BY <1>1, <3>1, DraftsKept
  <2> QED BY <2>1, <2>2, <2>3, <2>4 DEF Quiet
<1> QED BY <1>2, <1>3 DEF CreditInv

\* The generator writes the amount of a draft: no payment is under way.
LEMMA UpdateCredit ==
    ASSUME CreditInv, PaidInv', Apart', NEW u \in User, UpdateLive(u)
    PROVE  CreditInv'
<1> DEFINE k == gen.existing[u]
<1>1. Typed /\ Len(invoices) \in Nat /\ UNCHANGED <<sessions, req>>
      /\ Billing(u) /\ GenNext(u) /\ UpdatesDraft(u)
  BY RowTyped DEF CreditInv, PaidInv, UpdateLive, UpdateInvoice
<1>2. /\ Len(invoices') = Len(invoices)
      /\ \A i \in 1 .. Len(invoices) :
                /\ invoices'[i].status = invoices[i].status
                /\ invoices'[i].session = invoices[i].session
                /\ Touched(invoices'[i]) <=> Touched(invoices[i])
                /\ i # k => invoices'[i] = invoices[i]
  BY <1>1, UpdateShape, SameMarks
<1>3. k \in 1 .. Len(invoices) /\ (Touched(invoices[k]) \/ invoices[k].status = "draft")
  BY <1>1 DEF CreditInv, DraftsAreDrafts, Billing
<1>4. \A q \in Req : ~Paying(q)
  BY <1>1 DEF CreditInv, Apart, Billing
<1>5. PaymentsOK'
  <2>1. ASSUME NEW q \in Req PROVE PaymentOK(req'[q], invoices', sessions')
    <3>1. req[q].pc # "idle" => req[q].inv \in 1 .. Len(invoices)
      BY <1>1, HasRow
    <3>2. req[q].pc \notin {"checkout"} \cup PayLabel
      BY <1>4, WhoPays
    <3>a. RowsFor(q) /\ AmountsKeep
      BY <1>1, <1>2, <3>1, <3>2 DEF RowsFor, RowFor, AmountsKeep
    <3> QED BY <1>1, <3>a, PaymentKept
  <2> QED BY <2>1 DEF PaymentsOK
<1>6. CleanOK(invoices', sessions')
  <2>1. ASSUME NEW s \in 1 .. Len(sessions), sessions[s].clean
        PROVE  /\ sessions[s].inv \in 1 .. Len(invoices')
               /\ \/ Touched(invoices'[sessions[s].inv])
                  \/ CleanRow(invoices'[sessions[s].inv], s, sessions[s].amount)
    <3>1. ASSUME NEW i \in 1 .. Len(invoices), ~Touched(invoices[i]),
                 CleanRow(invoices[i], s, sessions[s].amount)
          PROVE  CleanRow(invoices'[i], s, sessions[s].amount)
      BY <1>2, <1>3, <3>1 DEF CleanRow, Settled
    <3> QED BY <1>1, <1>2, <2>1, <3>1, CleanKept
  <2> QED BY <1>1, <1>2, <2>1 DEF CleanOK
<1>7. NeverFailed'
  BY <1>2 DEF CreditInv, NeverFailed
<1>8. DraftsAreDrafts'
  <2>1. GenKeeps /\ (gen'.pc = "bill" => gen'.status = gen.status)
    BY <1>1, GenNextKeeps, GenNextTyped, IdleTyped
  <2> QED BY <1>1, <1>2, <2>1, DraftsKept
<1> QED BY <1>5, <1>6, <1>7, <1>8 DEF CreditInv

\* A row is added: a draft of the generator, or one that a client posted.
LEMMA AppendCredit ==
    ASSUME CreditInv, PaidInv', Apart', UNCHANGED <<sessions, req>>,
           Len(invoices') = Len(invoices) + 1,
           \A i \in 1 .. Len(invoices) : invoices'[i] = invoices[i],
           \/ invoices'[Len(invoices) + 1].status = "draft"
           \/ invoices'[Len(invoices) + 1].edited = {"posted"},
           GenKeeps, gen'.pc = "bill" => gen'.status = gen.status
    PROVE  CreditInv'
<1>1. Typed /\ Len(invoices) \in Nat
  BY RowTyped DEF CreditInv, PaidInv
<1>2. \A i \in 1 .. Len(invoices) : SameMoney(i) /\ invoices'[i].edited = invoices[i].edited
  BY DEF SameMoney
<1>3. PaymentsOK'
  <2>1. AmountsKeep
    BY DEF AmountsKeep
  <2> QED BY <1>2, <2>1, SameRowsFor, PaymentKept DEF PaymentsOK
<1>4. CleanOK(invoices', sessions')
  <2>1. ASSUME NEW s \in 1 .. Len(sessions), sessions[s].clean
        PROVE  /\ sessions[s].inv \in 1 .. Len(invoices')
               /\ \/ Touched(invoices'[sessions[s].inv])
                  \/ CleanRow(invoices'[sessions[s].inv], s, sessions[s].amount)
    BY <1>1, <2>1, CleanKept
  <2> QED BY <2>1 DEF CleanOK
<1>5. NeverFailed'
  <2>1. \A i \in 1 .. Len(invoices') : i \in 1 .. Len(invoices) \/ i = Len(invoices) + 1
    BY <1>1
  <2>2. invoices'[Len(invoices) + 1].edited = {"posted"} => Touched(invoices'[Len(invoices) + 1])
    BY DEF Touched, Edited, Marks
  <2> QED BY <2>1, <2>2 DEF CreditInv, NeverFailed
<1>6. DraftsAreDrafts'
  BY <1>1, DraftsKept
<1> QED BY <1>3, <1>4, <1>5, <1>6 DEF CreditInv

LEMMA CreateCredit ==
    ASSUME CreditInv, PaidInv', Apart', NEW u \in User, CreateInvoice(u)
    PROVE  CreditInv'
<1>1. Typed /\ UNCHANGED <<sessions, req>> /\ Billing(u) /\ GenNext(u)
  BY DEF CreditInv, PaidInv, CreateInvoice
<1>2. GenKeeps /\ (gen'.pc = "bill" => gen'.status = gen.status)
  BY <1>1, GenNextKeeps, GenNextTyped, IdleTyped
<1> QED BY <1>1, <1>2, CreateShape, AppendCredit

LEMMA PostCredit ==
    ASSUME CreditInv, PaidInv', Apart', NEW u \in User, PostInvoice(u)
    PROVE  CreditInv'
<1>1. Typed /\ UNCHANGED <<sessions, req, gen>>
  BY DEF CreditInv, PaidInv, PostInvoice
<1>2. GenKeeps
  BY <1>1 DEF GenKeeps
<1> QED BY <1>1, <1>2, PostShape, AppendCredit

\* A step of one request that leaves the invoices alone.
LEMMA OneRequestCredit ==
    ASSUME CreditInv, PaidInv', Apart', NEW r \in Req, \A q \in Req \ {r} : req'[q] = req[q],
           UNCHANGED <<invoices, gen>>, AmountsKeep,
           PaymentOK(req'[r], invoices, sessions'),
           \A s \in 1 .. Len(sessions') :
                sessions'[s].clean => /\ s \in 1 .. Len(sessions) /\ sessions[s].clean
                                      /\ sessions'[s].inv = sessions[s].inv
    PROVE  CreditInv'
<1>1. /\ Len(invoices) \in Nat
      /\ \A i \in 1 .. Len(invoices) : SameMoney(i) /\ invoices'[i].edited = invoices[i].edited
  BY RowTyped DEF CreditInv, PaidInv, SameMoney
<1>2. PaymentsOK'
  <2>1. \A q \in Req \ {r} : PaymentOK(req'[q], invoices', sessions')
    BY <1>1, SameRowsFor, PaymentKept
  <2> QED BY <2>1 DEF PaymentsOK
<1>3. CleanOK(invoices', sessions')
  <2>1. ASSUME NEW s \in 1 .. Len(sessions'), sessions'[s].clean
        PROVE  /\ sessions'[s].inv \in 1 .. Len(invoices)
               /\ \/ Touched(invoices[sessions'[s].inv])
                  \/ CleanRow(invoices[sessions'[s].inv], s, sessions'[s].amount)
    <3>1. /\ s \in 1 .. Len(sessions) /\ sessions[s].clean
          /\ sessions'[s].inv = sessions[s].inv /\ sessions'[s].amount = sessions[s].amount
      BY <2>1 DEF AmountsKeep
    <3> QED BY <3>1 DEF CreditInv, CleanOK
  <2> QED BY <2>1 DEF CleanOK
<1>4. NeverFailed' /\ DraftsAreDrafts'
  BY DEF CreditInv, NeverFailed, DraftsAreDrafts, UpdatesDraft
<1> QED BY <1>2, <1>3, <1>4 DEF CreditInv

LEMMA MovesPaymentOK ==
    ASSUME CreditInv, NEW r \in Req, NEW c, Moves(r, c)
    PROVE  PaymentOK(c, invoices, sessions)
<1>1. PaymentOK(req[r], invoices, sessions)
  BY DEF CreditInv, PaymentsOK
<1>2. CASE c = ReqIdle
  BY <1>2, IdleTyped, IdlePaymentOK
<1>3. CASE c.pc = "checkout" /\ c # ReqIdle
  <2>1. c.inv \in 1 .. Len(invoices) /\ Payable(c.inv) /\ c.amount = invoices[c.inv].total
    BY <1>3 DEF Moves
  <2>2. Touched(invoices[c.inv]) \/ invoices[c.inv].status = "draft"
    BY <2>1 DEF Payable, CreditInv, NeverFailed
  <2> QED BY <1>3, <2>1, <2>2 DEF PaymentOK, RowOK, PayLabel, VerifyLabel
<1>4. CASE c.pc = "ask" /\ c # ReqIdle
  <2>1. c.session \in 1 .. Len(sessions) /\ invoices[c.inv].session = c.session
        /\ (c.ok => invoices[c.inv].status = "pending")
    BY <1>4 DEF Moves
  <2>2. c.session # NoSession
    BY <2>1 DEF NoSession
  <2> QED BY <1>4, <2>1, <2>2 DEF PaymentOK, RowOK, PayLabel, VerifyLabel, Settled
<1>5. CASE c.pc = "set state"
  BY <1>5 DEF PaymentOK, RowOK, PayLabel, VerifyLabel
<1>6. CASE c.pc \notin {"checkout", "ask", "set state"} /\ c # ReqIdle
  <2>1. /\ c.inv = req[r].inv /\ c.session = req[r].session /\ c.amount = req[r].amount
        /\ c.ok => req[r].ok
    BY <1>6 DEF Moves
  <2>2. CASE req[r].pc = "store" /\ c.pc = "check pending" /\ ~c.ok
    BY <1>1, <2>1, <2>2 DEF PaymentOK, RowOK, PayLabel, VerifyLabel
  <2>3. CASE req[r].pc = "check pending" /\ c.pc = "set pending"
    BY <1>1, <2>1, <2>3 DEF PaymentOK, RowOK, PayLabel, VerifyLabel
  <2>4. CASE req[r].pc = "ask" /\ c.pc = "check paid" /\ req[r].ok
    BY <1>1, <2>1, <2>4 DEF PaymentOK, RowOK, PayLabel, VerifyLabel
  <2>5. CASE req[r].pc = "check paid" /\ c.pc = "set paid"
    BY <1>1, <2>1, <2>5 DEF PaymentOK, RowOK, PayLabel, VerifyLabel
  <2> QED BY <1>6, <2>2, <2>3, <2>4, <2>5 DEF Moves
<1> QED BY <1>2, <1>3, <1>4, <1>5, <1>6

LEMMA MoveCredit ==
    ASSUME CreditInv, PaidInv', Apart', NEW r \in Req, Move(r)
    PROVE  CreditInv'
<1>1. PICK c : Moves(r, c) /\ req' = [req EXCEPT ![r] = c]
  BY DEF Move
<1>2. req'[r] = c /\ \A q \in Req \ {r} : req'[q] = req[q]
  BY <1>1 DEF CreditInv, PaidInv, Typed
<1>3. UNCHANGED <<invoices, sessions, gen>> /\ AmountsKeep
  BY DEF Move, AmountsKeep
<1>4. PaymentOK(c, invoices, sessions)
  BY <1>1, MovesPaymentOK
<1> QED BY <1>2, <1>3, <1>4, OneRequestCredit

LEMMA CheckoutCredit ==
    ASSUME CreditInv, PaidInv', Apart', NEW r \in Req, CreateStripeCheckout(r)
    PROVE  CreditInv'
<1> DEFINE n == Len(sessions) + 1
<1>1. Typed /\ Len(sessions) \in Nat /\ UNCHANGED <<invoices, gen>> /\ req[r].pc = "checkout"
  BY RowTyped DEF CreditInv, PaidInv, CreateStripeCheckout
<1>2. /\ Len(sessions') = n /\ \A s \in 1 .. Len(sessions) : sessions'[s] = sessions[s]
      /\ sessions'[n].amount = req[r].amount /\ sessions'[n].clean = FALSE
  <2>1. /\ Len(sessions') = n /\ \A s \in 1 .. Len(sessions) : sessions'[s] = sessions[s]
        /\ sessions'[n] = NewSession(req[r].inv, req[r].amount)
    BY <1>1, CheckoutShape
  <2> QED BY <2>1 DEF NewSession
<1>3. /\ \A q \in Req \ {r} : req'[q] = req[q]
      /\ req'[r].pc = "store" /\ req'[r].session = n /\ req'[r].inv = req[r].inv
      /\ req'[r].amount = req[r].amount
  BY <1>1, CheckoutMove
<1>4. PaymentOK(req[r], invoices, sessions)
  BY DEF CreditInv, PaymentsOK
<1>5. PaymentOK(req'[r], invoices, sessions')
  BY <1>1, <1>2, <1>3, <1>4 DEF PaymentOK, RowOK, PayLabel, VerifyLabel
<1>6. \A s \in 1 .. Len(sessions') : s \in 1 .. Len(sessions) \/ s = n
  BY <1>1, <1>2
<1>7. \A s \in 1 .. Len(sessions') :
        sessions'[s].clean => /\ s \in 1 .. Len(sessions) /\ sessions[s].clean
                              /\ sessions'[s].inv = sessions[s].inv
  BY <1>2, <1>6
<1>8. AmountsKeep
  BY <1>2 DEF AmountsKeep
<1> QED BY <1>1, <1>3, <1>5, <1>7, <1>8, OneRequestCredit

LEMMA AnswerFailedCredit ==
    ASSUME CreditInv, PaidInv', Apart', NEW r \in Req, AnswerFailed(r)
    PROVE  CreditInv'
<1>1. Typed /\ UNCHANGED <<invoices, gen>> /\ req[r].pc \in PayLabel /\ Answer(r, FALSE)
  BY DEF CreditInv, PaidInv, AnswerFailed, PayLabel
<1>2. /\ Len(sessions') = Len(sessions)
      /\ \A s \in 1 .. Len(sessions) :
            /\ sessions'[s].inv = sessions[s].inv /\ sessions'[s].amount = sessions[s].amount
            /\ s # req[r].session => sessions'[s] = sessions[s]
            /\ s = req[r].session => sessions'[s].clean = FALSE
      /\ req' = [req EXCEPT ![r] = ReqIdle]
  BY <1>1, AnswerShape
<1>3. req'[r].pc = "idle" /\ \A q \in Req \ {r} : req'[q] = req[q]
  BY <1>1, <1>2, IdleMove
<1>4. PaymentOK(req'[r], invoices, sessions') /\ AmountsKeep
  BY <1>2, <1>3, IdlePaymentOK DEF AmountsKeep
<1>5. \A s \in 1 .. Len(sessions') :
        sessions'[s].clean => /\ s \in 1 .. Len(sessions) /\ sessions[s].clean
                              /\ sessions'[s].inv = sessions[s].inv
  BY <1>2
<1> QED BY <1>1, <1>3, <1>4, <1>5, OneRequestCredit

\* A payment under way holds its row, unless a client touches it.
LEMMA PayingRow ==
    ASSUME CreditInv, NEW r \in Req, req[r].pc \in PayLabel
    PROVE  /\ gen.pc = "idle"
           /\ req[r].inv \in 1 .. Len(invoices)
           /\ Touched(invoices[req[r].inv]) \/ invoices[req[r].inv].status = "draft"
           /\ \A q \in Req \ {r} :
                req[q].pc \in {"checkout"} \cup PayLabel => req[q].inv # req[r].inv
<1>1. Paying(r)
  BY WhoPays
<1>2. req[r].inv \in 1 .. Len(invoices)
  BY HasRow DEF CreditInv, PaidInv, PayLabel
<1>3. Touched(invoices[req[r].inv]) \/ invoices[req[r].inv].status = "draft"
  <2>1. PaymentOK(req[r], invoices, sessions) /\ req[r].pc # "idle"
    BY DEF CreditInv, PaymentsOK, PayLabel
  <2> QED BY <2>1 DEF PaymentOK, RowOK
<1> QED BY <1>1, <1>2, <1>3, WhoPays DEF CreditInv, Apart

\* A session is stored in a row whose payment this is: no clean session has it.
LEMMA StoreCredit ==
    ASSUME CreditInv, PaidInv', Apart', NEW r \in Req, StoreLive(r)
    PROVE  CreditInv'
<1> DEFINE k == req[r].inv
<1>1. Typed /\ Len(invoices) \in Nat /\ UNCHANGED <<sessions, gen>> /\ req[r].pc = "store"
      /\ req[r].pc \in PayLabel
  BY RowTyped DEF CreditInv, PaidInv, StoreLive, StoreSession, PayLabel
<1>2. /\ Len(invoices') = Len(invoices)
      /\ \A i \in 1 .. Len(invoices) :
                /\ invoices'[i].status = invoices[i].status
                /\ invoices'[i].total = invoices[i].total
                /\ Touched(invoices'[i]) <=> Touched(invoices[i])
                /\ invoices'[i].session = IF i = k THEN req[r].session ELSE invoices[i].session
  <2>1. ASSUME NEW i \in 1 .. Len(invoices) PROVE Touched(invoices'[i]) <=> Touched(invoices[i])
    <3>1. invoices'[i].edited = invoices[i].edited
      BY <1>1, StoreShape
    <3> QED BY <3>1, SameMarks, Zenon
  <2> QED BY <1>1, <2>1, StoreShape
<1>3. /\ \A q \in Req \ {r} : req'[q] = req[q]
      /\ req'[r].pc = "check pending" /\ req'[r].session = req[r].session
      /\ req'[r].inv = k /\ req'[r].amount = req[r].amount
  BY <1>1, StoreMove
<1>4. req[r].session # NoSession /\ k \in 1 .. Len(invoices)
  <2>1. InRange(req[r], Len(invoices), Len(sessions))
    BY <1>1 DEF Typed
  <2>2. req[r].session \in 1 .. Len(sessions) /\ k \in 1 .. Len(invoices)
    BY <1>1, <2>1 DEF InRange
  <2> QED BY <2>2 DEF NoSession
<1>5. PaymentsOK'
  <2>1. PaymentOK(req[r], invoices, sessions)
    BY DEF CreditInv, PaymentsOK
  <2>2. PaymentOK(req'[r], invoices', sessions')
    <3>1. Touched(invoices'[k]) \/ RowOK(req'[r], invoices'[k])
      BY <1>1, <1>2, <1>3, <1>4, <2>1 DEF PaymentOK, RowOK, PayLabel, VerifyLabel
    <3> QED BY <1>1, <1>3, <2>1, <3>1 DEF PaymentOK
  <2>3. ASSUME NEW q \in Req \ {r} PROVE PaymentOK(req'[q], invoices', sessions')
    <3>1. req[q].pc # "idle" => req[q].inv \in 1 .. Len(invoices)
      BY <1>1, HasRow
    <3>2. req[q].pc \in {"checkout"} \cup PayLabel => req[q].inv # k
      BY <1>1, PayingRow
    <3>3. RowsFor(q)
      BY <1>2, <1>4, <3>1, <3>2 DEF RowsFor, RowFor, SameMoney
    <3> QED BY <1>1, <1>3, <3>3, PaymentKept DEF AmountsKeep
  <2> QED BY <2>2, <2>3 DEF PaymentsOK
<1>6. CleanOK(invoices', sessions')
  <2>1. ASSUME NEW s \in 1 .. Len(sessions), sessions[s].clean
        PROVE  /\ sessions[s].inv \in 1 .. Len(invoices')
               /\ \/ Touched(invoices'[sessions[s].inv])
                  \/ CleanRow(invoices'[sessions[s].inv], s, sessions[s].amount)
    <3>1. ASSUME NEW i \in 1 .. Len(invoices), ~Touched(invoices[i]),
                 CleanRow(invoices[i], s, sessions[s].amount)
          PROVE  CleanRow(invoices'[i], s, sessions[s].amount)
      <4>1. i # k
        BY <1>1, <3>1, PayingRow DEF CleanRow, Settled
      <4> QED BY <1>2, <3>1, <4>1 DEF CleanRow
    <3> QED BY <1>1, <1>2, <2>1, <3>1, CleanKept
  <2> QED BY <1>1, <1>2, <2>1 DEF CleanOK
<1>7. NeverFailed' /\ DraftsAreDrafts'
  <2>1. gen'.pc = "idle"
    BY <1>1, PayingRow
  <2>2. NeverFailed'
    BY <1>2, <1>4 DEF CreditInv, NeverFailed
  <2> QED BY <2>1, <2>2 DEF DraftsAreDrafts
<1> QED BY <1>5, <1>6, <1>7 DEF CreditInv

\* The end of a payment: the row becomes "pending", and if no error was
\* ignored on the way it has the amount and the name of the session.
LEMMA SetPendingCredit ==
    ASSUME CreditInv, PaidInv', Apart', NEW r \in Req, SetPendingLive(r)
    PROVE  CreditInv'
<1> DEFINE k == req[r].inv
           t == req[r].session
<1>1. Typed /\ Len(invoices) \in Nat /\ UNCHANGED gen /\ req[r].pc = "set pending"
  BY RowTyped DEF CreditInv, PaidInv, SetPendingLive, SetPending
<1>2. /\ req[r].pc \in PayLabel /\ req[r].ok \in BOOLEAN /\ Answer(r, req[r].ok)
      /\ Len(invoices') = Len(invoices)
      /\ \A i \in 1 .. Len(invoices) :
            /\ invoices'[i].session = invoices[i].session
            /\ invoices'[i].total = invoices[i].total
            /\ Touched(invoices'[i]) <=> Touched(invoices[i])
            /\ invoices'[i].status = IF i = k THEN "pending" ELSE invoices[i].status
  BY <1>1, SetPendingShape, SameMarks
<1>3. /\ Len(sessions') = Len(sessions)
      /\ \A s \in 1 .. Len(sessions) :
            /\ sessions'[s].inv = sessions[s].inv /\ sessions'[s].amount = sessions[s].amount
            /\ s # t => sessions'[s] = sessions[s]
            /\ s = t => sessions'[s].clean = req[r].ok
      /\ req' = [req EXCEPT ![r] = ReqIdle]
  <2>1. PICK ok \in BOOLEAN : ok = req[r].ok /\ Answer(r, ok)
    BY <1>2
  <2>2. /\ Len(sessions') = Len(sessions)
        /\ \A s \in 1 .. Len(sessions) :
              /\ sessions'[s].inv = sessions[s].inv /\ sessions'[s].amount = sessions[s].amount
              /\ s # t => sessions'[s] = sessions[s]
              /\ s = t => sessions'[s].clean = ok
        /\ req' = [req EXCEPT ![r] = ReqIdle]
    <3>1. Typed /\ req[r].pc \in PayLabel
      BY <1>1, <1>2
    <3> QED BY <2>1, <3>1, AnswerShape
  <2> QED BY <2>1, <2>2
<1>4. req'[r].pc = "idle" /\ \A q \in Req \ {r} : req'[q] = req[q]
  BY <1>1, <1>3, IdleMove
<1>5. /\ k \in 1 .. Len(invoices) /\ gen.pc = "idle"
      /\ Touched(invoices[k]) \/ invoices[k].status = "draft"
      /\ \A q \in Req \ {r} : req[q].pc \in {"checkout"} \cup PayLabel => req[q].inv # k
  BY <1>2, PayingRow
<1>6. /\ sessions[t].inv = k
      /\ \/ Touched(invoices[k])
         \/ /\ sessions[t].amount = invoices[k].total
            /\ req[r].ok => invoices[k].session = t
  <2>1. PaymentOK(req[r], invoices, sessions) /\ ReqOK(req[r], invoices, sessions)
    BY DEF CreditInv, PaymentsOK, PaidInv, RequestsOK
  <2> QED BY <1>1, <2>1 DEF PaymentOK, RowOK, ReqOK, PayLabel
<1>7. PaymentsOK'
  <2>1. ASSUME NEW q \in Req \ {r} PROVE PaymentOK(req'[q], invoices', sessions')
    <3>1. req[q].pc # "idle" => req[q].inv \in 1 .. Len(invoices)
      BY <1>1, HasRow
    <3>2. RowsFor(q)
      BY <1>2, <1>5, <3>1 DEF RowsFor, RowFor, SameMoney, Settled
    <3> QED BY <1>3, <1>4, <3>2, PaymentKept DEF AmountsKeep
  <2>2. PaymentOK(req'[r], invoices', sessions')
    BY <1>4, IdlePaymentOK
  <2> QED BY <2>1, <2>2 DEF PaymentsOK
<1>8. CleanOK(invoices', sessions')
  <2>1. ASSUME NEW s \in 1 .. Len(sessions), sessions'[s].clean
        PROVE  /\ sessions[s].inv \in 1 .. Len(invoices')
               /\ \/ Touched(invoices'[sessions[s].inv])
                  \/ CleanRow(invoices'[sessions[s].inv], s, sessions[s].amount)
    <3>1. CASE s = t
      <4>1. req[r].ok
        BY <1>3, <2>1, <3>1
      <4>2. Touched(invoices'[k]) \/ CleanRow(invoices'[k], t, sessions[t].amount)
        BY <1>2, <1>5, <1>6, <4>1 DEF CleanRow, Settled
      <4> QED BY <1>2, <1>5, <1>6, <3>1, <4>2
    <3>2. CASE s # t
      <4>1. sessions[s].clean
        BY <1>3, <2>1, <3>2
      <4>2. ASSUME NEW i \in 1 .. Len(invoices), ~Touched(invoices[i]),
                   CleanRow(invoices[i], s, sessions[s].amount)
            PROVE  CleanRow(invoices'[i], s, sessions[s].amount)
        BY <1>2, <4>2 DEF CleanRow, Settled
      <4>3. \A i \in 1 .. Len(invoices) : Touched(invoices[i]) => Touched(invoices'[i])
        BY <1>2
      <4>4. Len(invoices') >= Len(invoices) /\ Len(invoices') \in Nat
        <5>1. Len(invoices) \in Nat /\ Len(invoices') = Len(invoices)
          BY <1>1, <1>2, Zenon
        <5> QED BY <5>1
      <4> QED BY <4>1, <4>2, <4>3, <4>4, CleanKept
    <3> QED BY <3>1, <3>2
  <2> QED BY <1>2, <1>3, <2>1 DEF CleanOK
<1>9. NeverFailed' /\ DraftsAreDrafts'
  <2>1. gen'.pc = "idle"
    BY <1>1, <1>5
  <2>2. NeverFailed'
    BY <1>2 DEF CreditInv, NeverFailed
  <2> QED BY <2>1, <2>2 DEF DraftsAreDrafts
<1> QED BY <1>7, <1>8, <1>9 DEF CreditInv

\* A settled row becomes paid: it is nobody's draft.
LEMMA SetPaidCredit ==
    ASSUME CreditInv, PaidInv', Apart', NEW r \in Req, SetPaidLive(r)
    PROVE  CreditInv'
<1> DEFINE k == req[r].inv
<1>1. Typed /\ Len(invoices) \in Nat /\ UNCHANGED <<sessions, gen>> /\ req[r].pc = "set paid"
  BY RowTyped DEF CreditInv, PaidInv, SetPaidLive, SetPaid
<1>2. /\ req' = [req EXCEPT ![r] = ReqIdle] /\ k \in 1 .. Len(invoices)
      /\ Len(invoices') = Len(invoices)
      /\ \A i \in 1 .. Len(invoices) :
            /\ invoices'[i].session = invoices[i].session
            /\ invoices'[i].total = invoices[i].total
            /\ Touched(invoices'[i]) <=> Touched(invoices[i])
            /\ invoices'[i].status = IF i = k THEN "paid" ELSE invoices[i].status
  BY <1>1, SetPaidShape, SameMarks
<1>3. req'[r].pc = "idle" /\ \A q \in Req \ {r} : req'[q] = req[q]
  BY <1>1, <1>2, IdleMove
<1>4. \/ Touched(invoices[k])
      \/ Settled(invoices[k].status) /\ invoices[k].session # NoSession
  <2>1. PaymentOK(req[r], invoices, sessions)
    BY DEF CreditInv, PaymentsOK
  <2> QED BY <1>1, <2>1 DEF PaymentOK, RowOK, VerifyLabel
<1>5. PaymentsOK'
  <2>1. ASSUME NEW q \in Req \ {r} PROVE PaymentOK(req'[q], invoices', sessions')
    <3>1. req[q].pc # "idle" => req[q].inv \in 1 .. Len(invoices)
      BY <1>1, HasRow
    <3>2. req[q].pc \in {"checkout"} \cup PayLabel =>
            Touched(invoices[req[q].inv]) \/ invoices[req[q].inv].status = "draft"
      <4>1. PaymentOK(req[q], invoices, sessions)
        BY DEF CreditInv, PaymentsOK
      <4> QED BY <4>1 DEF PaymentOK, RowOK, PayLabel
    <3>3. RowsFor(q)
      <4>1. CASE req[q].pc = "idle" \/ req[q].inv = k
        BY <1>2, <1>4, <3>1, <3>2, <4>1 DEF RowsFor, RowFor, SameMoney, Settled
      <4>2. CASE req[q].pc # "idle" /\ req[q].inv # k
        BY <1>2, <3>1, <4>2 DEF RowsFor, RowFor, SameMoney
      <4> QED BY <4>1, <4>2
    <3> QED BY <1>1, <1>3, <3>3, PaymentKept DEF AmountsKeep
  <2>2. PaymentOK(req'[r], invoices', sessions')
    BY <1>3, IdlePaymentOK
  <2> QED BY <2>1, <2>2 DEF PaymentsOK
<1>6. CleanOK(invoices', sessions')
  <2>1. ASSUME NEW s \in 1 .. Len(sessions), sessions[s].clean
        PROVE  /\ sessions[s].inv \in 1 .. Len(invoices')
               /\ \/ Touched(invoices'[sessions[s].inv])
                  \/ CleanRow(invoices'[sessions[s].inv], s, sessions[s].amount)
    <3>1. ASSUME NEW i \in 1 .. Len(invoices), CleanRow(invoices[i], s, sessions[s].amount)
          PROVE  CleanRow(invoices'[i], s, sessions[s].amount)
      BY <1>2, <3>1 DEF CleanRow, Settled
    <3>2. \A i \in 1 .. Len(invoices) : Touched(invoices[i]) => Touched(invoices'[i])
      BY <1>2
    <3>3. Len(invoices') >= Len(invoices) /\ Len(invoices') \in Nat
      <4>1. Len(invoices) \in Nat /\ Len(invoices') = Len(invoices)
        BY <1>1, <1>2, Zenon
      <4> QED BY <4>1
    <3> QED BY <2>1, <3>1, <3>2, <3>3, CleanKept
  <2> QED BY <1>1, <1>2, <2>1 DEF CleanOK
<1>7. NeverFailed'
  BY <1>2, <1>4 DEF CreditInv, NeverFailed
<1>8. DraftsAreDrafts'
  <2>1. GenKeeps
    BY <1>1 DEF GenKeeps
  <2>2. \A i \in 1 .. Len(invoices) :
            Touched(invoices[i]) \/ invoices[i].status = "draft" =>
                Touched(invoices'[i]) \/ invoices'[i].status = "draft"
    BY <1>2, <1>4 DEF Settled
  <2>3. gen' = gen /\ Len(invoices) \in Nat
    BY <1>1
  <2>4. Len(invoices') = Len(invoices)
    BY <1>2
  <2> QED BY <2>1, <2>2, <2>3, <2>4, DraftsKept
<1> QED BY <1>5, <1>6, <1>7, <1>8 DEF CreditInv

\* A client touches a row, or moves it to another month.
LEMMA ClientCredit ==
    ASSUME CreditInv, PaidInv', Apart', NEW k, ClientWrites(k)
    PROVE  CreditInv'
<1>1. Typed /\ Len(invoices) \in Nat /\ UNCHANGED <<sessions, gen>> /\ EditedRow(k)
  BY RowTyped DEF CreditInv, PaidInv, ClientWrites
<1>2. Len(invoices') = Len(invoices) /\ k \in 1 .. Len(invoices)
  BY <1>1 DEF EditedRow, Live
<1>3. ASSUME NEW i \in 1 .. Len(invoices)
      PROVE  Touched(invoices'[i]) \/ (~Touched(invoices[i]) /\ SameMoney(i))
  <2>1. Touched(invoices[i]) => Touched(invoices'[i])
    <3>1. invoices[i].edited \subseteq invoices'[i].edited
      BY <1>1 DEF EditedRow
    <3> QED BY <3>1, MarksGrow, Zenon
  <2>2. Touched(invoices'[i]) \/ SameMoney(i)
    BY <1>1 DEF EditedRow, SameMoney
  <2> QED BY <2>1, <2>2
<1>4. PaymentsOK'
  <2>1. ASSUME NEW q \in Req PROVE PaymentOK(req'[q], invoices', sessions')
    <3>1. CASE req'[q] = req[q]
      <4>1. CASE req[q].pc = "idle"
        BY <3>1, <4>1, IdlePaymentOK
      <4>2. CASE req[q].pc # "idle"
        <5>1. req[q].inv \in 1 .. Len(invoices)
          BY <1>1, <4>2, HasRow
        <5>2. RowsFor(q)
          BY <1>3, <5>1 DEF RowsFor, RowFor, SameMoney
        <5> QED BY <1>1, <3>1, <5>2, PaymentKept DEF AmountsKeep
      <4> QED BY <4>1, <4>2
    <3>2. CASE req'[q] # req[q]
      <4>1. req'[q].pc = "idle"
        BY <1>1, <3>2, IdleTyped DEF ClientWrites, Typed
      <4> QED BY <4>1, IdlePaymentOK
    <3> QED BY <3>1, <3>2
  <2> QED BY <2>1 DEF PaymentsOK
<1>5. CleanOK(invoices', sessions')
  <2>1. ASSUME NEW s \in 1 .. Len(sessions), sessions[s].clean
        PROVE  /\ sessions[s].inv \in 1 .. Len(invoices')
               /\ \/ Touched(invoices'[sessions[s].inv])
                  \/ CleanRow(invoices'[sessions[s].inv], s, sessions[s].amount)
    <3>1. ASSUME NEW i \in 1 .. Len(invoices)
          PROVE  \/ Touched(invoices'[i])
                 \/ /\ ~Touched(invoices[i])
                    /\ CleanRow(invoices[i], s, sessions[s].amount) =>
                            CleanRow(invoices'[i], s, sessions[s].amount)
      BY <1>3 DEF SameMoney, CleanRow
    <3> QED BY <1>1, <1>2, <2>1, <3>1, CleanKept
  <2> QED BY <1>1, <2>1 DEF CleanOK
<1>6. NeverFailed'
  BY <1>2, <1>3 DEF CreditInv, NeverFailed, SameMoney
<1>7. DraftsAreDrafts'
  <2>1. GenKeeps /\ gen'.status = gen.status
    BY <1>1 DEF GenKeeps
  <2>2. \A i \in 1 .. Len(invoices) :
            Touched(invoices[i]) \/ invoices[i].status = "draft" =>
                Touched(invoices'[i]) \/ invoices'[i].status = "draft"
    BY <1>3 DEF SameMoney
  <2> QED BY <1>1, <1>2, <2>1, <2>2, DraftsKept
<1> QED BY <1>4, <1>5, <1>6, <1>7 DEF CreditInv

LEMMA CustomerPaysCredit ==
    ASSUME CreditInv, PaidInv', Apart', NEW k \in Session, CustomerPays(k)
    PROVE  CreditInv'
<1>1. Typed /\ UNCHANGED <<invoices, gen, req>>
  BY DEF CreditInv, PaidInv, CustomerPays
<1>2. /\ Len(sessions') = Len(sessions)
      /\ \A s \in 1 .. Len(sessions) :
            /\ sessions'[s].inv = sessions[s].inv /\ sessions'[s].amount = sessions[s].amount
            /\ sessions'[s].clean = sessions[s].clean
  BY <1>1, PaysShape
<1>3. \A i \in 1 .. Len(invoices) : SameMoney(i) /\ invoices'[i].edited = invoices[i].edited
  BY <1>1 DEF SameMoney
<1>4. PaymentsOK'
  <2>1. AmountsKeep
    BY <1>2 DEF AmountsKeep
  <2> QED BY <1>1, <1>3, <2>1, SameRowsFor, PaymentKept DEF PaymentsOK
<1>5. CleanOK(invoices', sessions')
  BY <1>1, <1>2 DEF CreditInv, CleanOK
<1> QED BY <1>1, <1>4, <1>5 DEF CreditInv, NeverFailed, DraftsAreDrafts, UpdatesDraft

LEMMA CrashCredit ==
    ASSUME CreditInv, PaidInv', Apart', Crash
    PROVE  CreditInv'
<1>1. UNCHANGED <<invoices, sessions>> /\ gen'.pc = "idle" /\ \A r \in Req : req'[r].pc = "idle"
  BY IdleTyped DEF Crash
<1>2. PaymentsOK' /\ DraftsAreDrafts'
  BY <1>1, IdlePaymentOK DEF PaymentsOK, DraftsAreDrafts
<1> QED BY <1>1, <1>2 DEF CreditInv, NeverFailed

LEMMA StepCredit ==
    ASSUME CreditInv, Step, SerialStep
    PROVE  CreditInv'
<1>1. PaidInv'
  BY StepPaid DEF CreditInv
<1>2. Apart'
  BY DEF SerialStep, Apart, Paying
<1> QED BY <1>1, <1>2, QuietCredit, UpdateCredit, CreateCredit, PostCredit, ClientCredit, MoveCredit, CheckoutCredit,
           StoreCredit, AnswerFailedCredit, SetPendingCredit, SetPaidCredit,
           CustomerPaysCredit, CrashCredit
        DEF Step, RequestStep

LEMMA CreditInvariant == SerialSpec => []CreditInv
<1>1. Init => CreditInv
  <2>1. ASSUME Init
        PROVE  CreditInv
    <3>1. /\ Len(invoices) = 0 /\ Len(sessions) = 0 /\ gen.pc = "idle"
          /\ \A r \in Req : req[r].pc = "idle"
      BY <2>1, IdleTyped DEF Init
    <3>2. RequestsOK /\ OwnSession
      BY <3>1 DEF RequestsOK, ReqOK, OwnSession, PayLabel, VerifyLabel
    <3>3. Linked(invoices, sessions) /\ PaidWasPaid /\ NeverFailed /\ CleanOK(invoices, sessions)
      BY <3>1 DEF Linked, PaidWasPaid, NeverFailed, CleanOK
    <3>4. Apart /\ DraftsAreDrafts
      BY <3>1 DEF Apart, Paying, DraftsAreDrafts
    <3>5. PaymentsOK
      BY <3>1, IdlePaymentOK DEF PaymentsOK
    <3> QED BY <2>1, <3>2, <3>3, <3>4, <3>5, InitTyped DEF CreditInv, PaidInv
  <2> QED BY <2>1
<1>2. CreditInv /\ [Next /\ SerialStep]_vars => CreditInv'
  <2>1. CASE Next /\ SerialStep
    BY <2>1, NextSteps, StepCredit DEF CreditInv, PaidInv
  <2>2. CASE UNCHANGED vars
    <3>1. ASSUME CreditInv PROVE PaidInv'
      BY <2>2, <3>1 DEF vars, CreditInv, PaidInv, Typed, RequestsOK, OwnSession, Linked, PaidWasPaid
    <3>2. ASSUME CreditInv PROVE Apart' /\ PaymentsOK' /\ CleanOK(invoices', sessions')
      BY <2>2, <3>2 DEF vars, CreditInv, Apart, Paying, PaymentsOK
    <3>3. ASSUME CreditInv PROVE NeverFailed' /\ DraftsAreDrafts'
      BY <2>2, <3>3 DEF vars, CreditInv, NeverFailed, DraftsAreDrafts, UpdatesDraft
    <3> QED BY <3>1, <3>2, <3>3 DEF CreditInv
  <2> QED BY <2>1, <2>2
<1> QED BY <1>1, <1>2, PTL DEF SerialSpec

\* A paid invoice shows the amount that the checkout session asked for: the
\* generator, which updates drafts from a list it read before, never reaches
\* an invoice in payment.  Invoices that clients wrote into are excepted.
THEOREM PaidInvoicesShowTheCharge == SerialSpec => []ChargedAmount
<1>1. CreditInv => ChargedAmount
  <2> SUFFICES ASSUME CreditInv, NEW i \in 1 .. Len(invoices), ~Touched(invoices[i]),
                      invoices[i].status = "paid", sessions[invoices[i].session].clean
               PROVE  sessions[invoices[i].session].amount = invoices[i].total
    BY DEF ChargedAmount
  <2>1. invoices[i].session # NoSession /\ ~Relinked(invoices[i])
    BY DEF CreditInv, NeverFailed, Touched, Relinked, Edited, Marks
  <2>2. invoices[i].session \in 1 .. Len(sessions) /\ sessions[invoices[i].session].inv = i
    BY <2>1, RowTyped DEF CreditInv, PaidInv, Typed, Linked, NoSession
  <2> QED BY <2>2 DEF CreditInv, CleanOK, CleanRow
<1> QED BY <1>1, CreditInvariant, PTL

\* A payment that met no error can be verified: its invoice names the session,
\* unless a client wrote into the invoice or deleted it.
THEOREM PaymentsAreCredited == SerialSpec => []PaymentIsCredited
<1>1. CreditInv => PaymentIsCredited
  BY DEF CreditInv, CleanOK, CleanRow, PaymentIsCredited
<1> QED BY <1>1, CreditInvariant, PTL

----------------------------------------------------------------------------
(***************************************************************************)
(* The reporter of usage events.                                           *)
(***************************************************************************)
(***************************************************************************)
(* The inductive invariant.  That a batch holds open events only, and that *)
(* APIGate has answered for all of it before it is marked, is what each    *)
(* step hands on to the next.                                              *)
(***************************************************************************)
ReporterTyped ==
    /\ time \in [Event -> Nat] /\ clock \in Nat \ {0}
    /\ reported \subseteq Event /\ charged \subseteq Event /\ refused \subseteq Event
    /\ process \in {"up", "stopping", "down"} /\ pc \in {"idle", "send", "mark"}

BatchIsOpen == batch \subseteq Recorded \ reported

MarkWasAnswered == pc = "mark" => batch \subseteq charged \cup refused

ReporterInv == ReporterTyped /\ BatchIsOpen /\ MarkWasAnswered /\ BatchHasStore

meteringVars == <<Recorded, charged, refused, reported>>

\* A step keeps the invariant and is, for Metering, a step or a stutter.
Good == ReporterInv' /\ (Meter!Next \/ UNCHANGED meteringVars)

\* The initial state satisfies the invariant and is an initial one of Metering.
LEMMA InitGood ==
    ReporterInit => ReporterInv /\ Meter!Init
BY DEF ReporterInit, ReporterInv, ReporterTyped, BatchIsOpen, MarkWasAnswered, BatchHasStore,
       StoreOpen, Recorded, Meter!Init

\* Steps that leave the table, the service and the batch alone.
LEMMA LocalGood ==
    ASSUME ReporterInv, UNCHANGED <<time, reported, charged, refused, batch>>,
           clock' \in Nat \ {0}, process' \in {"up", "stopping", "down"}, pc' = pc,
           process' = "down" => pc = "idle" \/ process = "down"
    PROVE  Good
BY DEF Good, ReporterInv, ReporterTyped, BatchIsOpen, MarkWasAnswered, BatchHasStore,
       StoreOpen, Recorded, meteringVars

\* Steps after which the reporter is idle and the table is as it was.
LEMMA IdleGood ==
    ASSUME ReporterInv, Idle, UNCHANGED <<time, reported, charged, refused, clock>>,
           process' \in {"up", "stopping", "down"}
    PROVE  Good
BY DEF Good, ReporterInv, ReporterTyped, BatchIsOpen, MarkWasAnswered, BatchHasStore,
       StoreOpen, Recorded, meteringVars, Idle

\* CreateUsageEvent is Record: the row it inserts is new.
LEMMA CreateGood ==
    ASSUME ReporterInv, NEW e \in Event, CreateUsageEvent(e)
    PROVE  Good
<1>1. PICK t \in {clock, clock - 1} \ {0} : time' = [time EXCEPT ![e] = t]
  BY DEF CreateUsageEvent
<1>2. t \in Nat /\ t > 0 /\ time[e] = 0
  BY <1>1 DEF CreateUsageEvent, ReporterInv, ReporterTyped
<1>3. Recorded' = Recorded \cup {e}
  BY <1>1, <1>2 DEF Recorded, ReporterInv, ReporterTyped
<1>4. ReporterInv'
  BY <1>1, <1>2, <1>3 DEF CreateUsageEvent, service, ReporterInv, ReporterTyped, BatchIsOpen,
                          MarkWasAnswered, BatchHasStore, StoreOpen
<1>5. Meter!Record(e)
  BY <1>3 DEF CreateUsageEvent, service, Meter!Record
<1> QED BY <1>4, <1>5 DEF Good, Meter!Next

\* GetUnreportedEvents takes open events only, and with the store open.
LEMMA GetGood ==
    ASSUME ReporterInv, GetUnreportedEvents
    PROVE  Good
<1>1. PICK b \in Oldest(Unreported, BatchSize) : batch' = b
  BY DEF GetUnreportedEvents
<1>2. batch' \subseteq Recorded \ reported
  BY <1>1 DEF Oldest, Unreported
<1>3. UNCHANGED <<time, reported, charged, refused, clock, process>>
      /\ pc' = "send" /\ StoreOpen
  BY DEF GetUnreportedEvents, table, service
<1> QED
  BY <1>2, <1>3 DEF Good, ReporterInv, ReporterTyped, BatchIsOpen, MarkWasAnswered,
                    BatchHasStore, StoreOpen, Recorded, meteringVars

\* MeterUsageBatch is an answer for the whole batch.
LEMMA MeterGood ==
    ASSUME ReporterInv, MeterUsageBatch
    PROVE  Good
<1>1. PICK reject \in SUBSET batch : charged' = charged \cup (batch \ reject)
                                     /\ refused' = refused \cup reject
  BY DEF MeterUsageBatch
<1>2. UNCHANGED <<time, reported, clock, process, batch>> /\ pc' = "mark" /\ pc = "send"
  BY DEF MeterUsageBatch, table
<1>3. batch \subseteq Recorded \ reported /\ batch \subseteq Event
  BY DEF ReporterInv, BatchIsOpen, Recorded
<1>4. Recorded' = Recorded
  BY <1>2 DEF Recorded
<1>5. ReporterInv'
  BY <1>1, <1>2, <1>3, <1>4 DEF ReporterInv, ReporterTyped, BatchIsOpen, MarkWasAnswered,
                                BatchHasStore, StoreOpen
<1>6. Meter!Answer(batch \ reject, reject)
  BY <1>1, <1>2, <1>3, <1>4 DEF Meter!Answer
<1>7. batch \ reject \in SUBSET Event /\ reject \in SUBSET Event
  BY <1>1, <1>3
<1> QED BY <1>5, <1>6, <1>7 DEF Good, Meter!Next

\* A call that failed was an answer for the batch, or for nothing.
LEMMA MeterFailsGood ==
    ASSUME ReporterInv, MeterUsageFails
    PROVE  Good
<1>1. PICK accept \in {batch, {}} : charged' = charged \cup accept
  BY DEF MeterUsageFails
<1>2. UNCHANGED <<time, reported, refused, clock, process>> /\ pc' = "idle" /\ batch' = {}
  BY DEF MeterUsageFails, table, Idle
<1>3. accept \subseteq Recorded \ reported /\ accept \subseteq Event
  BY <1>1 DEF ReporterInv, BatchIsOpen, Recorded
<1>4. Recorded' = Recorded
  BY <1>2 DEF Recorded
<1>5. ReporterInv'
  BY <1>1, <1>2, <1>3, <1>4 DEF ReporterInv, ReporterTyped, BatchIsOpen, MarkWasAnswered,
                                BatchHasStore, StoreOpen
<1>6. Meter!Answer(accept, {})
  BY <1>1, <1>2, <1>3, <1>4 DEF Meter!Answer
<1>7. accept \in SUBSET Event /\ {} \in SUBSET Event
  BY <1>3
<1> QED BY <1>5, <1>6, <1>7 DEF Good, Meter!Next

\* MarkEventsReported closes what was answered for.
LEMMA MarkGood ==
    ASSUME ReporterInv, MarkEventsReported
    PROVE  Good
<1>1. UNCHANGED <<time, charged, refused, clock, process>> /\ pc = "mark"
      /\ pc' = "idle" /\ batch' = {} /\ reported' = reported \cup batch
  BY DEF MarkEventsReported, service, Idle
<1>2. batch \subseteq charged \cup refused /\ batch \subseteq Event
  BY <1>1 DEF ReporterInv, MarkWasAnswered, BatchIsOpen, Recorded
<1>3. Recorded' = Recorded
  BY <1>1 DEF Recorded
<1>4. ReporterInv'
  BY <1>1, <1>2, <1>3 DEF ReporterInv, ReporterTyped, BatchIsOpen, MarkWasAnswered,
                          BatchHasStore, StoreOpen
<1>5. Meter!Close(batch)
  BY <1>1, <1>2, <1>3 DEF Meter!Close
<1>6. batch \in SUBSET Event
  BY <1>2
<1> QED BY <1>4, <1>5, <1>6 DEF Good, Meter!Next

\* Every step of the reporter and of its process.
LEMMA StepGood ==
    ASSUME ReporterInv, [ReporterNext]_reporterVars
    PROVE  Good
<1>1. ASSUME NEW e \in Event, CreateUsageEvent(e) PROVE Good
  BY <1>1, CreateGood
<1>2. CASE ClockAdvances
  BY <1>2, LocalGood DEF ClockAdvances, table, service, ReporterInv, ReporterTyped
<1>3. CASE GetUnreportedEvents
  BY <1>3, GetGood
<1>4. CASE MeterUsageBatch
  BY <1>4, MeterGood
<1>5. CASE MeterUsageFails
  BY <1>5, MeterFailsGood
<1>6. CASE MarkEventsReported
  BY <1>6, MarkGood
<1>7. CASE MarkFails
  BY <1>7, IdleGood DEF MarkFails, table, service, ReporterInv, ReporterTyped
<1>8. CASE Stop
  BY <1>8, LocalGood DEF Stop, table, service, ReporterInv, ReporterTyped
<1>9. CASE CloseStore
  BY <1>9, LocalGood DEF CloseStore, table, service, ReporterInv, ReporterTyped
<1>10. CASE ReporterCrash
  BY <1>10, IdleGood DEF ReporterCrash, table, service, ReporterInv, ReporterTyped
<1>11. CASE Restart
  BY <1>11, LocalGood DEF Restart, table, service, ReporterInv, ReporterTyped
<1>12. CASE UNCHANGED reporterVars
  BY <1>12, LocalGood DEF reporterVars, ReporterInv, ReporterTyped
<1> QED
  BY <1>1, <1>2, <1>3, <1>4, <1>5, <1>6, <1>7, <1>8, <1>9, <1>10, <1>11, <1>12
     DEF ReporterNext, ReportBatch

(***************************************************************************)
(* While a batch is under way the database is open: Reporter.Stop waits    *)
(* for it before Shutdown closes the store, and a crash ends both.         *)
(***************************************************************************)
THEOREM BatchAlwaysHasStore == ReporterSpec => []BatchHasStore
<1>1. ReporterInit => ReporterInv
  BY InitGood
<1>2. ReporterInv /\ [ReporterNext]_reporterVars => ReporterInv'
  BY StepGood DEF Good
<1>3. ReporterInv => BatchHasStore
  BY DEF ReporterInv
<1> QED BY <1>1, <1>2, <1>3, PTL DEF ReporterSpec

(***************************************************************************)
(* The reporter implements Metering: an event is marked as reported only   *)
(* after APIGate answered for it and is not sent again after that, through *)
(* crashes, lost answers and failing marks (reportBatch).                  *)
(***************************************************************************)
THEOREM ReporterImplementsMetering == ReporterSpec => ImplementsMetering
<1>1. ReporterInit => ReporterInv /\ Meter!Init
  BY InitGood
<1>2. ReporterInv /\ [ReporterNext]_reporterVars => ReporterInv' /\ [Meter!Next]_meteringVars
  BY StepGood DEF Good
<1> QED BY <1>1, <1>2, PTL DEF ReporterSpec, ImplementsMetering, Meter!Spec, meteringVars
=============================================================================
