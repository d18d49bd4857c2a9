--------------------------- MODULE DomainsProofs ---------------------------
(***************************************************************************)
(* The App Proxy forwards a custom hostname only to a deployment it has    *)
(* pointed at, and the list of a deployment has the hostnames its owner    *)
(* was told about, for any set of deployments, hostnames and requests.     *)
(***************************************************************************)
EXTENDS Domains, TLAPS

Written == {"scheduled", "added", "removed", "verified"}

Label == {"idle", "schedule", "add", "remove", "lookup", "verify"} \cup Written

Ctx == [d : Depl \cup {Null}, h : Host \cup {Null}, target : Host \cup {Null},
        list : (SUBSET Entry) \cup {Null}]

RowsTyped ==
    /\ row \in [Depl -> {"absent", "pending", "down", "running", "erased"}]
    /\ slug \in [Depl -> Host]
    /\ domains \in [Depl -> (SUBSET Entry) \cup {Null}]
    /\ pointed = [d \in Depl |-> pointed[d]]

RequestsTyped ==
    /\ pc \in [Handler -> Label]
    /\ ctx \in [Handler -> Ctx]

\* A request works on a row that was there when it began, with a list.
AtWork(r) ==
    /\ ctx[r].d \in Depl /\ row[ctx[r].d] # "absent"
    /\ ctx[r].list \in SUBSET Entry

RequestsAtWork == \A r \in Handler : pc[r] # "idle" => AtWork(r)

(***************************************************************************)
(* The strengthening: not only what is stored but also what a request has  *)
(* read and will write back names as verified only what has pointed at the *)
(* deployment, as long as the row it will write to exists.                 *)
(***************************************************************************)
StoredBacked == \A d \in Depl : Exists(d) => Verified(List(d)) \subseteq pointed[d]

Backed(r) == Exists(ctx[r].d) => Verified(ctx[r].list) \subseteq pointed[ctx[r].d]

CarriedBacked == \A r \in Handler : pc[r] # "idle" => Backed(r)

DomainsInv ==
    RowsTyped /\ RequestsTyped /\ RequestsAtWork /\ StoredBacked /\ CarriedBacked

\* At first there is no row and no request.
LEMMA DomainsInitInv ==
    DomainsInit => DomainsInv
BY DomainsAssumption
   DEF DomainsInit, DomainsInv, RowsTyped, RequestsTyped, RequestsAtWork, StoredBacked,
       CarriedBacked, Exists, NoCtx, Label, Written, Ctx

-----------------------------------------------------------------------------
\* A larger list names more, and an absent one nothing.
LEMMA VerifiedMonotone ==
    ASSUME NEW k, NEW l, k \subseteq l
    PROVE  Verified(k) \subseteq Verified(l)
BY DEF Verified

LEMMA ListedIsEntries ==
    ASSUME RowsTyped, NEW d \in Depl
    PROVE  List(d) \in SUBSET Entry
BY DEF RowsTyped, List, parseDomainsList

\* An entry that is not a verified custom one adds no name.
LEMMA AddsNothing ==
    ASSUME NEW l, NEW e, e.type # "custom" \/ e.status # "verified"
    PROVE  Verified(l \cup {e}) \subseteq Verified(l)
BY DEF Verified

-----------------------------------------------------------------------------
\* Steps that change no local variable and begin no request: a row that exists existed before, or
\* is new and then no request works on it; what has pointed is not forgotten.
LEMMA RequestsKeep ==
    ASSUME DomainsInv, ctx' = ctx, pc' \in [Handler -> Label],
           \A r \in Handler : pc'[r] # "idle" => pc[r] # "idle",
           \A d \in Depl : row[d] # "absent" => row'[d] # "absent",
           \A d \in Depl : row[d] # "absent" /\ Exists(d)'
                              => Exists(d) /\ pointed[d] \subseteq pointed'[d]
    PROVE  RequestsTyped' /\ RequestsAtWork' /\ CarriedBacked'
<1>1. RequestsTyped'
  BY DEF DomainsInv, RequestsTyped
<1>2. RequestsAtWork'
  BY DEF DomainsInv, RequestsAtWork, AtWork
<1>3. ASSUME NEW r \in Handler, pc[r] # "idle", Exists(ctx[r].d)'
      PROVE  Verified(ctx[r].list) \subseteq pointed'[ctx[r].d]
  <2>1. ctx[r].d \in Depl /\ row[ctx[r].d] # "absent"
    BY <1>3 DEF DomainsInv, RequestsAtWork, AtWork
  <2>2. Exists(ctx[r].d) /\ pointed[ctx[r].d] \subseteq pointed'[ctx[r].d]
    BY <1>3, <2>1 DEF Exists
  <2> QED BY <1>3, <2>2 DEF DomainsInv, CarriedBacked, Backed
<1>4. CarriedBacked'
  BY <1>3 DEF CarriedBacked, Backed, Exists, Verified
<1> QED BY <1>1, <1>2, <1>4

LEMMA RequestsStay ==
    ASSUME DomainsInv, UNCHANGED <<pc, ctx>>,
           \A d \in Depl : row[d] # "absent" => row'[d] # "absent",
           \A d \in Depl : row[d] # "absent" /\ Exists(d)'
                              => Exists(d) /\ pointed[d] \subseteq pointed'[d]
    PROVE  RequestsTyped' /\ RequestsAtWork' /\ CarriedBacked'
<1>1. pc' \in [Handler -> Label] /\ \A r \in Handler : pc'[r] # "idle" => pc[r] # "idle"
  BY DEF DomainsInv, RequestsTyped
<1> QED BY <1>1, RequestsKeep

\* The client's write of a whole list: what it says is verified is recorded
\* as such.
LEMMA WritesKeeps ==
    ASSUME DomainsInv, NEW d \in Depl, NEW l \in ClientLists, Writes(d, l),
           UNCHANGED <<slug, pc, ctx>>,
           \/ row[d] = "absent" /\ row' = [row EXCEPT ![d] = "pending"]
           \/ Exists(d) /\ row' = row
    PROVE  DomainsInv'
<1>1. l = Null \/ l \in SUBSET Entry
  BY DomainsAssumption
<1>2. /\ domains' = [domains EXCEPT ![d] = l]
      /\ pointed' = [pointed EXCEPT ![d] = @ \cup Verified(parseDomainsList(l))]
  BY DEF Writes
<1>3. RowsTyped'
  BY <1>1, <1>2 DEF DomainsInv, RowsTyped
<1>4. \A x \in Depl : pointed[x] \subseteq pointed'[x]
  BY <1>2 DEF DomainsInv, RowsTyped
<1>5. RequestsTyped' /\ RequestsAtWork' /\ CarriedBacked'
  BY <1>4, RequestsStay DEF DomainsInv, RowsTyped, Exists
<1>6. ASSUME NEW x \in Depl, Exists(x)' PROVE Verified(List(x)') \subseteq pointed'[x]
  <2>1. CASE x = d
    <3>1. List(x)' = parseDomainsList(l)
      BY <1>2, <2>1 DEF List, DomainsInv, RowsTyped
    <3> QED BY <1>2, <2>1, <3>1 DEF DomainsInv, RowsTyped
  <2>2. CASE x # d
    <3>1. List(x)' = List(x) /\ Exists(x)
      BY <1>2, <1>6, <2>2 DEF List, Exists, DomainsInv, RowsTyped
    <3> QED BY <1>4, <3>1 DEF DomainsInv, StoredBacked
  <2> QED BY <2>1, <2>2
<1>7. StoredBacked'
  BY <1>6 DEF StoredBacked, Verified
<1> QED BY <1>3, <1>5, <1>7 DEF DomainsInv

\* Steps that leave the lists and the lookups alone and create no row.
LEMMA RowKeeps ==
    ASSUME DomainsInv, UNCHANGED <<domains, pc, ctx, pointed>>,
           slug' \in [Depl -> Host],
           row' \in [Depl -> {"absent", "pending", "down", "running", "erased"}],
           \A d \in Depl : row[d] # "absent" => row'[d] # "absent",
           \A d \in Depl : Exists(d)' => Exists(d)
    PROVE  DomainsInv'
<1>1. RowsTyped'
  BY DEF DomainsInv, RowsTyped
<1>2. RequestsTyped' /\ RequestsAtWork' /\ CarriedBacked'
  BY RequestsStay
<1>3. StoredBacked'
  BY DEF DomainsInv, StoredBacked, List, Verified
<1> QED BY <1>1, <1>2, <1>3 DEF DomainsInv

\* A deleted deployment forgets its list and what has pointed at it; a
\* request that still works on it will find no row.
LEMMA DeleteKeeps ==
    ASSUME DomainsInv, NEW d \in Depl, Delete(d)
    PROVE  DomainsInv'
<1>1. /\ row' = [row EXCEPT ![d] = "erased"]
      /\ domains' = [domains EXCEPT ![d] = Null]
      /\ pointed' = [pointed EXCEPT ![d] = {}] /\ UNCHANGED <<slug, pc, ctx>>
  BY DEF Delete, handlers
<1>2. RowsTyped'
  BY <1>1 DEF DomainsInv, RowsTyped
<1>3. \A x \in Depl : Exists(x)' =>
         x # d /\ Exists(x) /\ pointed'[x] = pointed[x] /\ List(x)' = List(x)
  BY <1>1 DEF Exists, List, DomainsInv, RowsTyped
<1>4. RequestsTyped' /\ RequestsAtWork' /\ CarriedBacked'
  BY <1>1, <1>3, RequestsStay DEF DomainsInv, RowsTyped
<1>5. StoredBacked'
  BY <1>3 DEF DomainsInv, StoredBacked, Verified
<1> QED BY <1>2, <1>4, <1>5 DEF DomainsInv

-----------------------------------------------------------------------------
\* A request begins: it takes a list no larger in verified names than the
\* stored one.
LEMMA BeginsKeeps ==
    ASSUME DomainsInv, NEW r \in Handler, NEW d \in Depl, NEW c \in Ctx,
           NEW l \in Label \ {"idle"}, Begins(r, d, l, c),
           c.d = d, c.list \in SUBSET Entry,
           Verified(c.list) \subseteq Verified(List(d)),
           UNCHANGED deploymentRow
    PROVE  DomainsInv'
<1>1. /\ Exists(d) /\ UNCHANGED <<row, slug, domains, pointed>>
      /\ pc' = [pc EXCEPT ![r] = l] /\ ctx' = [ctx EXCEPT ![r] = c]
  BY DEF Begins, deploymentRow
<1>2. RowsTyped' /\ StoredBacked'
  BY <1>1 DEF DomainsInv, RowsTyped, StoredBacked, Exists, List, Verified
<1>3. RequestsTyped'
  BY <1>1 DEF DomainsInv, RequestsTyped
<1>4. \A q \in Handler : ctx'[q] = (IF q = r THEN c ELSE ctx[q])
                         /\ pc'[q] = (IF q = r THEN l ELSE pc[q])
  BY <1>1 DEF DomainsInv, RequestsTyped
<1>5. RequestsAtWork'
  BY <1>1, <1>4 DEF DomainsInv, RequestsAtWork, AtWork, Exists
<1>6. Verified(c.list) \subseteq pointed[d]
  BY <1>1 DEF DomainsInv, StoredBacked
<1>7. ASSUME NEW q \in Handler, pc'[q] # "idle", Exists(ctx'[q].d)
      PROVE  Verified(ctx'[q].list) \subseteq pointed[ctx'[q].d]
  BY <1>4, <1>6, <1>7 DEF DomainsInv, CarriedBacked, Backed
<1>8. CarriedBacked'
  BY <1>1, <1>7 DEF CarriedBacked, Backed, Exists, Verified
<1> QED BY <1>2, <1>3, <1>5, <1>8 DEF DomainsInv

LEMMA ScheduleKeeps ==
    ASSUME DomainsInv, NEW r \in Handler, NEW d \in Depl, ScheduleDeployment(r, d)
    PROVE  DomainsInv'
<1> DEFINE l == scheduledDomains(domains[d], slug[d])
           c == [NoCtx(d) EXCEPT !.h = IF domains[d] = Null THEN slug[d] ELSE Null,
                                 !.list = l]
<1>1. Begins(r, d, "schedule", c) /\ UNCHANGED deploymentRow
  BY DEF ScheduleDeployment
<1>2. slug[d] \in Host /\ AutoEntry(slug[d]) \in Entry
  BY DEF DomainsInv, RowsTyped, AutoEntry, Entry
<1>3. l \in SUBSET Entry
  BY <1>2 DEF scheduledDomains, DomainsInv, RowsTyped
<1>4. Verified(l) \subseteq Verified(List(d))
  BY DEF scheduledDomains, List, parseDomainsList, AutoEntry, Verified
<1>5. c \in Ctx /\ c.d = d /\ c.list = l
  BY <1>2, <1>3 DEF Ctx, NoCtx
<1> HIDE DEF l, c
<1> QED BY <1>1, <1>3, <1>4, <1>5, BeginsKeeps DEF Label

LEMMA AddKeeps ==
    ASSUME DomainsInv, NEW r \in Handler, NEW d \in Depl, NEW h \in Host, AddDomain(r, d, h)
    PROVE  DomainsInv'
<1> DEFINE l == List(d) \cup {CustomEntry(h)}
           c == [NoCtx(d) EXCEPT !.h = h, !.list = l]
<1>1. Begins(r, d, "add", c) /\ UNCHANGED deploymentRow
  BY DEF AddDomain
<1>2. CustomEntry(h) \in Entry /\ CustomEntry(h).status # "verified"
  BY DEF CustomEntry, Entry
<1>3. l \in SUBSET Entry
  BY <1>2, ListedIsEntries DEF DomainsInv
<1>4. Verified(l) \subseteq Verified(List(d))
  BY <1>2, AddsNothing
<1>5. c \in Ctx /\ c.d = d /\ c.list = l
  BY <1>3 DEF Ctx, NoCtx
<1> HIDE DEF l, c
<1> QED BY <1>1, <1>3, <1>4, <1>5, BeginsKeeps DEF Label

LEMMA RemoveKeeps ==
    ASSUME DomainsInv, NEW r \in Handler, NEW d \in Depl, NEW h \in Host, RemoveDomain(r, d, h)
    PROVE  DomainsInv'
<1> DEFINE l == {e \in List(d) : e.host # h}
           c == [NoCtx(d) EXCEPT !.h = h, !.list = l]
<1>1. Begins(r, d, "remove", c) /\ UNCHANGED deploymentRow
  BY DEF RemoveDomain
<1>2. l \in SUBSET Entry /\ l \subseteq List(d)
  BY ListedIsEntries DEF DomainsInv
<1>3. Verified(l) \subseteq Verified(List(d))
  BY <1>2, VerifiedMonotone
<1>4. c \in Ctx /\ c.d = d /\ c.list = l
  BY <1>2 DEF Ctx, NoCtx
<1> HIDE DEF l, c
<1> QED BY <1>1, <1>2, <1>3, <1>4, BeginsKeeps DEF Label

LEMMA VerifyKeeps ==
    ASSUME DomainsInv, NEW r \in Handler, NEW d \in Depl, NEW h \in Host, VerifyDomain(r, d, h)
    PROVE  DomainsInv'
<1> DEFINE c == [NoCtx(d) EXCEPT !.h = h, !.target = slug[d], !.list = List(d)]
<1>1. Begins(r, d, "lookup", c) /\ UNCHANGED deploymentRow
  BY DEF VerifyDomain
<1>2. List(d) \in SUBSET Entry /\ slug[d] \in Host
  BY ListedIsEntries DEF DomainsInv, RowsTyped
<1>3. c \in Ctx /\ c.d = d /\ c.list = List(d)
  BY <1>2 DEF Ctx, NoCtx
<1> HIDE DEF c
<1> QED BY <1>1, <1>2, <1>3, BeginsKeeps DEF Label

-----------------------------------------------------------------------------
\* The lookup: the one name it may add to the verified ones has pointed at
\* the deployment at that moment.
LEMMA LookupKeeps ==
    ASSUME DomainsInv, NEW r \in Handler, Lookup(r)
    PROVE  DomainsInv'
<1> DEFINE c == ctx[r]
<1>1. /\ pc[r] = "lookup" /\ pc' = [pc EXCEPT ![r] = "verify"]
      /\ UNCHANGED <<row, slug, domains>>
  BY DEF Lookup, deploymentRow
<1>2. c \in Ctx /\ c.d \in Depl /\ c.list \in SUBSET Entry
  BY <1>1 DEF DomainsInv, RequestsTyped, RequestsAtWork, AtWork
<1>3. PICK answer \in Host \cup {Null}, e \in {f \in c.list : f.host = c.h} :
         /\ ctx' = [ctx EXCEPT ![r] =
               [NoCtx(c.d) EXCEPT !.list = (c.list \ {e}) \cup
                  {[e EXCEPT !.status = IF answer = c.target THEN "verified" ELSE "failed"]}]]
         /\ pointed' = [pointed EXCEPT ![c.d] =
               IF answer = c.target THEN @ \cup {Fold(c.h)} ELSE @]
  BY DEF Lookup, PointsAt
<1> DEFINE checked == [e EXCEPT !.status = IF answer = c.target THEN "verified" ELSE "failed"]
           l == (c.list \ {e}) \cup {checked}
           new == [NoCtx(c.d) EXCEPT !.list = l]
<1>4. e \in Entry /\ e.host = c.h
  BY <1>2, <1>3
<1>5. /\ checked \in Entry /\ checked.host = c.h
      /\ checked.status = "verified" <=> answer = c.target
  BY <1>4 DEF Entry
<1>6. l \in SUBSET Entry
  BY <1>2, <1>5
<1>7. new \in Ctx /\ new.d = c.d /\ new.list = l
  BY <1>2, <1>6 DEF Ctx, NoCtx
<1>8. ctx' = [ctx EXCEPT ![r] = new]
  BY <1>3
<1>9. \A x \in Depl : pointed[x] \subseteq pointed'[x]
  BY <1>3 DEF DomainsInv, RowsTyped
<1>10. ASSUME Exists(c.d) PROVE Verified(l) \subseteq pointed'[c.d]
  <2>1. Verified(c.list) \subseteq pointed'[c.d]
    BY <1>1, <1>2, <1>9, <1>10 DEF DomainsInv, CarriedBacked, Backed
  <2>2. answer = c.target => Fold(c.h) \in pointed'[c.d]
    BY <1>2, <1>3 DEF DomainsInv, RowsTyped
  <2>3. \A x \in Verified(l) : x \in Verified(c.list) \/ (answer = c.target /\ x = Fold(c.h))
    <3> HIDE DEF checked
    <3> QED BY <1>5 DEF Verified
  <2> QED BY <2>1, <2>2, <2>3
<1> HIDE DEF new, l, checked
<1>11. RowsTyped'
  BY <1>1, <1>3 DEF DomainsInv, RowsTyped
<1>12. StoredBacked'
  BY <1>1, <1>9 DEF DomainsInv, StoredBacked, Exists, List, Verified
<1>13. RequestsTyped'
  BY <1>1, <1>7, <1>8 DEF DomainsInv, RequestsTyped, Label
<1>14. \A q \in Handler : ctx'[q] = (IF q = r THEN new ELSE ctx[q])
                          /\ pc'[q] = (IF q = r THEN "verify" ELSE pc[q])
  BY <1>1, <1>8 DEF DomainsInv, RequestsTyped
<1>15. RequestsAtWork'
  BY <1>1, <1>6, <1>7, <1>14 DEF DomainsInv, RequestsAtWork, AtWork
<1>16. ASSUME NEW q \in Handler, pc'[q] # "idle", Exists(ctx'[q].d)
       PROVE  Verified(ctx'[q].list) \subseteq pointed'[ctx'[q].d]
  <2>1. CASE q = r
    BY <1>7, <1>10, <1>14, <1>16, <2>1
  <2>2. CASE q # r
    BY <1>9, <1>14, <1>16, <2>2 DEF DomainsInv, CarriedBacked, Backed, RequestsAtWork, AtWork
  <2> QED BY <2>1, <2>2
<1>17. CarriedBacked'
  BY <1>1, <1>16 DEF CarriedBacked, Backed, Exists, Verified
<1> QED BY <1>11, <1>12, <1>13, <1>15, <1>17 DEF DomainsInv

\* A request that ends carries nothing.
LEMMA EndsKeeps ==
    ASSUME DomainsInv, NEW r \in Handler, Ends(r), UNCHANGED pointed,
           \A d \in Depl : row[d] # "absent" => row'[d] # "absent",
           \A d \in Depl : Exists(d)' => Exists(d)
    PROVE  RequestsTyped' /\ RequestsAtWork' /\ CarriedBacked'
<1>1. pc' = [pc EXCEPT ![r] = "idle"] /\ ctx' = [ctx EXCEPT ![r] = NoCtx(Null)]
  BY DEF Ends
<1>2. RequestsTyped'
  BY <1>1 DEF DomainsInv, RequestsTyped, NoCtx, Ctx, Label
<1>3. \A q \in Handler : pc'[q] # "idle" => pc[q] # "idle" /\ ctx'[q] = ctx[q]
  BY <1>1 DEF DomainsInv, RequestsTyped
<1>4. RequestsAtWork'
  BY <1>3 DEF DomainsInv, RequestsAtWork, AtWork
<1>5. ASSUME NEW q \in Handler, pc'[q] # "idle",
             row'[ctx'[q].d] \in {"pending", "down", "running"}
      PROVE  Verified(ctx'[q].list) \subseteq pointed[ctx'[q].d]
  <2>1. ctx[q].d \in Depl /\ ctx'[q] = ctx[q] /\ pc[q] # "idle"
    BY <1>3, <1>5 DEF DomainsInv, RequestsAtWork, AtWork
  <2>2. Exists(ctx[q].d)
    BY <1>5, <2>1 DEF Exists
  <2> QED BY <2>1, <2>2 DEF DomainsInv, CarriedBacked, Backed
<1>6. CarriedBacked'
  BY <1>5 DEF CarriedBacked, Backed, Exists, Verified
<1> QED BY <1>2, <1>4, <1>6

\* A request's write puts its list into the row.
LEMMA StoreKeeps ==
    ASSUME DomainsInv, NEW r \in Handler, StoreDomains(r)
    PROVE  DomainsInv'
<1> DEFINE d == ctx[r].d
           l == ctx[r].list
<1>0. pc[r] \in {"schedule", "add", "remove", "verify"} /\ Answering[pc[r]] \in Written
  BY DEF StoreDomains, Answering, Written
<1>1. /\ pc[r] # "idle" /\ Exists(d) /\ domains' = [domains EXCEPT ![d] = l]
      /\ row' = [row EXCEPT ![d] = IF pc[r] = "schedule" /\ @ = "pending" THEN "down" ELSE @]
      /\ pc' = [pc EXCEPT ![r] = Answering[pc[r]]] /\ UNCHANGED <<slug, ctx, pointed>>
  BY <1>0 DEF StoreDomains
<1>2. d \in Depl /\ l \in SUBSET Entry /\ Verified(l) \subseteq pointed[d]
  BY <1>1 DEF DomainsInv, RequestsAtWork, AtWork, CarriedBacked, Backed
<1> HIDE DEF d, l
<1>3. RowsTyped'
  BY <1>1, <1>2 DEF DomainsInv, RowsTyped
<1>4. /\ \A x \in Depl : row[x] # "absent" => row'[x] # "absent"
      /\ \A x \in Depl : Exists(x)' => Exists(x)
  BY <1>1 DEF DomainsInv, RowsTyped, Exists
<1>5. RequestsTyped' /\ RequestsAtWork' /\ CarriedBacked'
  <2>1. pc' \in [Handler -> Label] /\ \A q \in Handler : pc'[q] # "idle" => pc[q] # "idle"
    BY <1>0, <1>1 DEF DomainsInv, RequestsTyped, Label
  <2> QED BY <1>1, <1>4, <2>1, RequestsKeep
<1>6. ASSUME NEW x \in Depl, Exists(x)' PROVE Verified(List(x)') \subseteq pointed[x]
  <2>1. CASE x = d
    <3>1. List(x)' \subseteq l
      BY <1>1, <1>2, <2>1 DEF List, parseDomainsList, DomainsInv, RowsTyped
    <3>2. Verified(List(x)') \subseteq Verified(l)
      BY <3>1, VerifiedMonotone
    <3> QED BY <1>2, <2>1, <3>2
  <2>2. CASE x # d
    <3>1. List(x)' = List(x)
      BY <1>1, <2>2 DEF List, DomainsInv, RowsTyped
    <3> QED BY <1>4, <1>6, <3>1 DEF DomainsInv, StoredBacked
  <2> QED BY <2>1, <2>2
<1>7. StoredBacked'
  BY <1>1, <1>6 DEF StoredBacked, Verified
<1> QED BY <1>3, <1>5, <1>7 DEF DomainsInv

LEMMA StoreFailsKeeps ==
    ASSUME DomainsInv, NEW r \in Handler, StoreFails(r)
    PROVE  DomainsInv'
<1>1. /\ row' = [row EXCEPT ![ctx[r].d] =
                    IF pc[r] = "schedule" /\ @ = "pending" THEN "down" ELSE @]
      /\ Ends(r) /\ UNCHANGED <<slug, domains, pointed>>
  BY DEF StoreFails, domainsHistory
<1>2. RowsTyped'
  BY <1>1 DEF DomainsInv, RowsTyped
<1>3. /\ \A x \in Depl : row[x] # "absent" => row'[x] # "absent"
      /\ \A x \in Depl : Exists(x)' => Exists(x)
  BY <1>1 DEF DomainsInv, RowsTyped, Exists
<1>4. RequestsTyped' /\ RequestsAtWork' /\ CarriedBacked'
  BY <1>1, <1>3, EndsKeeps
<1>5. StoredBacked'
  BY <1>1, <1>3 DEF DomainsInv, StoredBacked, List, Verified
<1> QED BY <1>2, <1>4, <1>5 DEF DomainsInv

-----------------------------------------------------------------------------
LEMMA AnswerKeeps ==
    ASSUME DomainsInv, NEW r \in Handler, Answer(r) \/ AnswerFails(r)
    PROVE  DomainsInv'
<1>1. Ends(r) /\ UNCHANGED <<row, slug, domains, pointed>>
  BY DEF Answer, AnswerFails, deploymentRow, domainsHistory
<1>2. RowsTyped' /\ StoredBacked'
  BY <1>1 DEF DomainsInv, RowsTyped, StoredBacked, Exists, List, Verified
<1>3. RequestsTyped' /\ RequestsAtWork' /\ CarriedBacked'
  BY <1>1, EndsKeeps DEF Exists
<1> QED BY <1>2, <1>3 DEF DomainsInv

LEMMA DomainsStep ==
    ASSUME DomainsInv, [DomainsNext]_domainsVars
    PROVE  DomainsInv'
<1>1. ASSUME NEW d \in Depl, NEW l \in ClientLists, Create(d, l) PROVE DomainsInv'
  BY <1>1, WritesKeeps DEF Create, handlers
<1>2. ASSUME NEW d \in Depl, NEW l \in ClientLists, PatchDomains(d, l) PROVE DomainsInv'
  BY <1>2, WritesKeeps DEF PatchDomains, handlers
<1>3. ASSUME NEW d \in Depl, NEW h \in Slug, Rename(d, h) PROVE DomainsInv'
  <2>1. UNCHANGED <<row, domains, pc, ctx, pointed>> /\ slug' = [slug EXCEPT ![d] = h]
    BY <1>3 DEF Rename, handlers, domainsHistory
  <2>2. slug' \in [Depl -> Host]
    BY <2>1, DomainsAssumption DEF DomainsInv, RowsTyped
  <2> QED BY <2>1, <2>2, RowKeeps DEF DomainsInv, RowsTyped, Exists
<1>4. ASSUME NEW d \in Depl, NEW s \in {"down", "running"}, ChangeStatus(d, s)
      PROVE  DomainsInv'
  <2>1. /\ UNCHANGED <<slug, domains, pc, ctx, pointed>>
        /\ Exists(d) /\ row' = [row EXCEPT ![d] = s]
    BY <1>4 DEF ChangeStatus, handlers, domainsHistory, Exists
  <2> QED BY <2>1, RowKeeps DEF DomainsInv, RowsTyped, Exists
<1>5. ASSUME NEW d \in Depl, Delete(d) PROVE DomainsInv'
  BY <1>5, DeleteKeeps
<1>6. ASSUME NEW r \in Handler, NEW d \in Depl, ScheduleDeployment(r, d) PROVE DomainsInv'
  BY <1>6, ScheduleKeeps
<1>7. ASSUME NEW r \in Handler, NEW d \in Depl, NEW h \in Host,
             AddDomain(r, d, h) \/ RemoveDomain(r, d, h) \/ VerifyDomain(r, d, h)
      PROVE  DomainsInv'
  BY <1>7, AddKeeps, RemoveKeeps, VerifyKeeps
<1>8. ASSUME NEW r \in Handler,
             Lookup(r) \/ StoreDomains(r) \/ StoreFails(r) \/ Answer(r) \/ AnswerFails(r)
      PROVE  DomainsInv'
  BY <1>8, LookupKeeps, StoreKeeps, StoreFailsKeeps, AnswerKeeps
<1>9. CASE UNCHANGED domainsVars
  <2>1. UNCHANGED <<row, slug, domains, pc, ctx, pointed>>
    BY <1>9 DEF domainsVars, deploymentRow, handlers, domainsHistory
  <2> QED BY <2>1, RowKeeps DEF DomainsInv, RowsTyped, Exists
<1> QED
  BY <1>1, <1>2, <1>3, <1>4, <1>5, <1>6, <1>7, <1>8, <1>9 DEF DomainsNext

(***************************************************************************)
(* The proxy forwards a request for a custom hostname only to a deployment *)
(* that name has pointed at (domainVerifyHandler, resolveTarget), however  *)
(* the requests that read and write the list overlap.                      *)
(***************************************************************************)
THEOREM ForwardingFollowsPointing == DomainsSpec => []ForwardedWasPointed
<1>1. DomainsInit => DomainsInv
  BY DomainsInitInv
<1>2. DomainsInv /\ [DomainsNext]_domainsVars => DomainsInv'
  BY DomainsStep
<1>3. DomainsInv => ForwardedWasPointed
  <2> SUFFICES ASSUME DomainsInv, NEW h \in Host, NEW d \in MayForward(h),
                      \A e \in List(d) : e.host # h \/ e.type # "auto"
               PROVE  Fold(h) \in pointed[d]
    BY DEF ForwardedWasPointed
  <2>1. d \in Depl /\ Exists(d) /\ h \in Hosts(List(d)) /\ Resolves(d, h)
    BY DEF MayForward, GetDeploymentByDomain
  <2>2. PICK e \in List(d) : e.host = h
    BY <2>1 DEF Hosts
  <2>3. e \in Entry /\ e.type = "custom"
    BY <2>1, <2>2, ListedIsEntries DEF DomainsInv, Entry
  <2>4. e \in Custom(d, h)
    BY <2>2, <2>3 DEF Custom
  <2>5. PICK v \in Custom(d, h) : v.status = "verified"
    BY <2>1, <2>4 DEF Resolves
  <2>6. v \in List(d) /\ v.type = "custom" /\ Fold(v.host) = Fold(h)
    BY <2>5 DEF Custom
  <2>7. Fold(h) \in Verified(List(d))
    BY <2>5, <2>6 DEF Verified
  <2> QED BY <2>1, <2>7 DEF DomainsInv, StoredBacked
<1> QED BY <1>1, <1>2, <1>3, PTL DEF DomainsSpec

-----------------------------------------------------------------------------
(***************************************************************************)
(* ListsFollowRequests.  While no two requests on a deployment have        *)
(* overlapped, the one that is under way will write, besides what the row  *)
(* has, just the change it was asked for, and between its write and its    *)
(* answer the row has that change.                                         *)
(***************************************************************************)
Follows(d) ==
    told[d] \subseteq Host /\ Hosts(List(d)) \ unsure[d] = told[d] \ unsure[d]

Leaves(r, d) ==
    /\ pc[r] \in {"schedule", "add"} => Hosts(ctx[r].list) = Hosts(List(d)) \cup About(r)
    /\ pc[r] = "remove" => Hosts(ctx[r].list) = Hosts(List(d)) \ About(r)
    /\ pc[r] \in {"lookup", "verify"} => Hosts(ctx[r].list) = Hosts(List(d))
    /\ pc[r] \in {"verify", "verified"} => About(r) = {}
    /\ pc[r] \in {"scheduled", "added"} => About(r) \subseteq Hosts(List(d))
    /\ pc[r] = "removed" => About(r) \cap Hosts(List(d)) = {}

Alone(d) == \A q, r \in Handler : ctx[q].d = d /\ ctx[r].d = d => q = r

Orderly(d) == Alone(d) /\ \A r \in Handler : ctx[r].d = d => Leaves(r, d)

ListsInv ==
    /\ DomainsInv
    /\ told = [d \in Depl |-> told[d]] /\ unsure = [d \in Depl |-> unsure[d]]
    /\ \A r \in Handler : pc[r] = "idle" => ctx[r].d = Null
    /\ \A d \in Depl : told[d] # Null => Follows(d)
    /\ \A d \in Depl : told[d] # Null /\ Exists(d) => Orderly(d)

\* At first there is no list and nobody was told of one.
LEMMA ListsInitInv == DomainsInit => ListsInv
<1> SUFFICES ASSUME DomainsInit PROVE ListsInv
  OBVIOUS
<1>1. \A r \in Handler : pc[r] = "idle" /\ ctx[r].d = Null
  BY DEF DomainsInit, NoCtx
<1>2. \A d \in Depl : Follows(d)
  BY DEF DomainsInit, Follows, List, parseDomainsList, Hosts
<1>3. \A d \in Depl : ~Exists(d)
  BY DEF DomainsInit, Exists
<1> QED BY <1>1, <1>2, <1>3, DomainsInitInv DEF ListsInv, DomainsInit

\* No request works on a row that was never created.
LEMMA NoneOnAbsent ==
    ASSUME ListsInv, NEW d \in Depl, row[d] = "absent"
    PROVE  ~InRequest(d)
BY DomainsAssumption DEF ListsInv, DomainsInv, RequestsAtWork, AtWork, InRequest

\* After a step, too, a list names hostnames only.
LEMMA ListedHosts ==
    ASSUME DomainsInv', NEW d \in Depl
    PROVE  Hosts(List(d))' \subseteq Host
<1>1. List(d)' \in SUBSET Entry
  BY DEF DomainsInv, RowsTyped, List, parseDomainsList
<1> QED BY <1>1 DEF Hosts, Entry

\* A request that goes on as before on a list with the same hostnames.
LEMMA SameLeaves ==
    ASSUME NEW r \in Handler, NEW d \in Depl, Leaves(r, d),
           Hosts(List(d))' = Hosts(List(d)), pc'[r] = pc[r], ctx'[r] = ctx[r]
    PROVE  Leaves(r, d)'
<1>1. Hosts(ctx[r].list)' = Hosts(ctx[r].list) /\ About(r)' = About(r)
  BY DEF Hosts, About
<1> QED BY <1>1 DEF Leaves

\* What a deployment's own columns and requests decide survives a step that
\* leaves them alone.
Untouched(d) ==
    /\ domains'[d] = domains[d] /\ unsure'[d] = unsure[d]
    /\ told'[d] = told[d] \/ told'[d] = Null
    /\ Exists(d)' => Exists(d)
    /\ \A r \in Handler : ctx'[r].d = d => pc'[r] = pc[r] /\ ctx'[r] = ctx[r]

LEMMA UntouchedKeeps ==
    ASSUME ListsInv, NEW d \in Depl, Untouched(d), told'[d] # Null
    PROVE  Follows(d)' /\ (Exists(d)' => Orderly(d)')
<1>1. Hosts(List(d))' = Hosts(List(d)) /\ told'[d] = told[d] /\ unsure'[d] = unsure[d]
  BY DEF Untouched, List, Hosts
<1>2. Follows(d)
  BY <1>1 DEF ListsInv
<1>3. ASSUME Exists(d)' PROVE Orderly(d)'
  <2>1. Orderly(d)
    BY <1>1, <1>3 DEF Untouched, ListsInv
  <2>2. ASSUME NEW q \in Handler, NEW r \in Handler, ctx'[q].d = d, ctx'[r].d = d PROVE q = r
    BY <2>1, <2>2 DEF Untouched, Orderly, Alone
  <2>3. ASSUME NEW r \in Handler, ctx'[r].d = d PROVE Leaves(r, d)'
    <3>1. Leaves(r, d)
      BY <2>1, <2>3 DEF Untouched, Orderly
    <3>2. pc'[r] = pc[r] /\ ctx'[r] = ctx[r]
      BY <2>3 DEF Untouched
    <3> QED BY <1>1, <3>1, <3>2, SameLeaves
  <2> QED BY <2>2, <2>3 DEF Orderly, Alone
<1> QED BY <1>1, <1>2, <1>3 DEF Follows

\* A deployment without requests is in order.
LEMMA NoneIsOrderly ==
    ASSUME NEW d \in Depl, ~InRequest(d)
    PROVE  Orderly(d)
BY DEF InRequest, Orderly, Alone

\* The parts of the invariant, deployment by deployment.
LEMMA ListsByDeployment ==
    ASSUME DomainsInv', told' = [d \in Depl |-> told'[d]],
           unsure' = [d \in Depl |-> unsure'[d]],
           \A r \in Handler : pc'[r] = "idle" => ctx'[r].d = Null,
           \A d \in Depl : told'[d] # Null =>
               Follows(d)' /\ (Exists(d)' => Orderly(d)')
    PROVE  ListsInv'
BY DEF ListsInv

\* Steps of clients on the row: a list is written, the deployment is renamed,
\* changes its status or is deleted.
LEMMA RowLists ==
    ASSUME ListsInv, DomainsInv', NEW d \in Depl,
           \/ \E l \in ClientLists : Create(d, l) \/ PatchDomains(d, l)
           \/ \E h \in Slug : Rename(d, h)
           \/ \E s \in {"down", "running"} : ChangeStatus(d, s)
           \/ Delete(d)
    PROVE  ListsInv'
<1>1. /\ row = [x \in Depl |-> row[x]] /\ domains = [x \in Depl |-> domains[x]]
      /\ told = [x \in Depl |-> told[x]] /\ unsure = [x \in Depl |-> unsure[x]]
  BY DEF ListsInv, DomainsInv, RowsTyped
<1>2. UNCHANGED <<pc, ctx>>
  BY DEF Create, PatchDomains, Rename, ChangeStatus, Delete, handlers
<1>3. \A r \in Handler : pc'[r] = "idle" => ctx'[r].d = Null
  BY <1>2 DEF ListsInv
<1>4. /\ told' = [x \in Depl |-> told'[x]] /\ unsure' = [x \in Depl |-> unsure'[x]]
      /\ \A x \in Depl \ {d} : Untouched(x)
  <2>1. CASE \E l \in ClientLists : Create(d, l) \/ PatchDomains(d, l)
    BY <1>1, <1>2, <2>1 DEF Create, PatchDomains, Writes, Untouched, Exists
  <2>2. CASE \E h \in Slug : Rename(d, h)
    BY <1>1, <1>2, <2>2 DEF Rename, domainsHistory, Untouched, Exists
  <2>3. CASE \E s \in {"down", "running"} : ChangeStatus(d, s)
    BY <1>1, <1>2, <2>3 DEF ChangeStatus, domainsHistory, Untouched, Exists
  <2>4. CASE Delete(d)
    BY <1>1, <1>2, <2>4 DEF Delete, Untouched, Exists
  <2> QED BY <2>1, <2>2, <2>3, <2>4
<1>5. ASSUME told'[d] # Null
      PROVE  Follows(d)' /\ (Exists(d)' => Orderly(d)')
  <2>1. CASE \E l \in ClientLists : Create(d, l) \/ PatchDomains(d, l)
    <3>1. PICK l \in ClientLists : Writes(d, l)
      BY <2>1 DEF Create, PatchDomains
    <3>2. domains'[d] = l /\ ~InRequest(d)
      BY <1>1, <1>5, <3>1 DEF Writes
    <3>3. \/ told'[d] = Hosts(parseDomainsList(l)) /\ unsure'[d] = {}
          \/ told'[d] = told[d] /\ told[d] # Null /\ unsure'[d] = Host
      BY <1>1, <1>5, <3>1, <3>2 DEF Writes
    <3>4. CASE told'[d] = Hosts(parseDomainsList(l)) /\ unsure'[d] = {}
      <4>1. Hosts(List(d))' = told'[d]
        BY <3>2, <3>4 DEF List, Hosts, parseDomainsList
      <4>2. Hosts(List(d))' \subseteq Host
        BY ListedHosts
      <4> QED BY <1>2, <3>2, <3>4, <4>1, <4>2 DEF Follows, InRequest, Orderly, Alone
    <3>5. CASE told'[d] = told[d] /\ told[d] # Null /\ unsure'[d] = Host
      <4>1. Hosts(List(d))' \subseteq Host
        BY ListedHosts
      <4>2. told'[d] \subseteq Host
        BY <3>5 DEF ListsInv, Follows
      <4> QED BY <1>2, <3>2, <3>5, <4>1, <4>2 DEF Follows, InRequest, Orderly, Alone
    <3> QED BY <3>3, <3>4, <3>5
  <2>2. CASE \E h \in Slug : Rename(d, h)
    <3>1. Untouched(d)
      BY <1>1, <1>2, <2>2 DEF Rename, domainsHistory, Untouched, Exists
    <3> QED BY <1>5, <3>1, UntouchedKeeps
  <2>3. CASE \E s \in {"down", "running"} : ChangeStatus(d, s)
    <3>1. Untouched(d)
      BY <1>1, <1>2, <2>3 DEF ChangeStatus, domainsHistory, Untouched, Exists
    <3> QED BY <1>5, <3>1, UntouchedKeeps
  <2>4. CASE Delete(d)
    <3>1. domains'[d] = Null /\ told'[d] = {} /\ ~Exists(d)'
      BY <1>1, <2>4 DEF Delete, Exists
    <3>2. Hosts(List(d))' = {}
      BY <3>1 DEF List, Hosts, parseDomainsList
    <3> QED BY <3>1, <3>2 DEF Follows
  <2> QED BY <2>1, <2>2, <2>3, <2>4
<1>6. \A x \in Depl : told'[x] # Null =>
         Follows(x)' /\ (Exists(x)' => Orderly(x)')
  BY <1>4, <1>5, UntouchedKeeps
<1> QED BY <1>3, <1>4, <1>6, ListsByDeployment

\* A request reads the row: it will leave what it was asked for.
LEMMA BeginsLists ==
    ASSUME ListsInv, DomainsInv', NEW r \in Handler, NEW d \in Depl, NEW c \in Ctx,
           NEW l, Begins(r, d, l, c), c.d = d, UNCHANGED deploymentRow,
           l \in {"schedule", "add", "remove", "lookup"},
           l \in {"schedule", "add"} => Hosts(c.list) = Hosts(List(d)) \cup ({c.h} \ {Null}),
           l = "remove" => Hosts(c.list) = Hosts(List(d)) \ ({c.h} \ {Null}),
           l = "lookup" => Hosts(c.list) = Hosts(List(d))
    PROVE  ListsInv'
<1>1. /\ pc[r] = "idle" /\ UNCHANGED <<row, slug, domains>>
      /\ \A q \in Handler : /\ pc'[q] = (IF q = r THEN l ELSE pc[q])
                            /\ ctx'[q] = (IF q = r THEN c ELSE ctx[q])
  BY DEF Begins, deploymentRow, ListsInv, DomainsInv, RequestsTyped
<1>2. /\ told' = [x \in Depl |-> told'[x]] /\ unsure' = unsure
      /\ \A x \in Depl : told'[x] = IF x = d /\ InRequest(d) THEN Null ELSE told[x]
  BY DEF Begins, ListsInv
<1>3. \A q \in Handler : pc'[q] = "idle" => ctx'[q].d = Null
  BY <1>1 DEF ListsInv
<1>4. ASSUME NEW x \in Depl \ {d}, told'[x] # Null
      PROVE  Follows(x)' /\ (Exists(x)' => Orderly(x)')
  <2>1. Untouched(x)
    BY <1>1, <1>2 DEF Untouched, Exists
  <2> QED BY <1>4, <2>1, UntouchedKeeps
<1>5. ASSUME told'[d] # Null
      PROVE  Follows(d)' /\ (Exists(d)' => Orderly(d)')
  <2>1. ~InRequest(d) /\ told'[d] = told[d]
    BY <1>2, <1>5
  <2>2. Hosts(List(d))' = Hosts(List(d))
    BY <1>1 DEF List, Hosts
  <2>3. Follows(d)'
    BY <1>2, <1>5, <2>1, <2>2 DEF ListsInv, Follows
  <2>4. \A q \in Handler : ctx'[q].d = d => q = r
    BY <1>1, <2>1 DEF InRequest
  <2>5. Hosts(ctx[r].list)' = Hosts(c.list) /\ About(r)' = {c.h} \ {Null}
    BY <1>1 DEF Hosts, About
  <2>6. Leaves(r, d)'
    BY <1>1, <2>2, <2>5 DEF Leaves
  <2>7. Alone(d)'
    BY <2>4 DEF Alone
  <2>8. \A q \in Handler : ctx'[q].d = d => Leaves(q, d)'
    BY <2>4, <2>6
  <2> QED BY <2>3, <2>7, <2>8 DEF Orderly
<1>6. \A x \in Depl : told'[x] # Null =>
         Follows(x)' /\ (Exists(x)' => Orderly(x)')
  BY <1>4, <1>5
<1>7. unsure' = [x \in Depl |-> unsure'[x]]
  BY <1>2 DEF ListsInv
<1> QED BY <1>2, <1>3, <1>6, <1>7, ListsByDeployment

\* The four handlers that read a row.
LEMMA ReadLists ==
    ASSUME ListsInv, DomainsInv', NEW r \in Handler, NEW d \in Depl,
           \/ ScheduleDeployment(r, d)
           \/ \E h \in Host : AddDomain(r, d, h) \/ RemoveDomain(r, d, h) \/ VerifyDomain(r, d, h)
    PROVE  ListsInv'
<1>1. List(d) \in SUBSET Entry /\ slug[d] \in Host
  BY ListedIsEntries DEF ListsInv, DomainsInv, RowsTyped
<1>2. CASE ScheduleDeployment(r, d)
  <2> DEFINE l == scheduledDomains(domains[d], slug[d])
             c == [NoCtx(d) EXCEPT !.h = IF domains[d] = Null THEN slug[d] ELSE Null,
                                   !.list = l]
  <2>1. Begins(r, d, "schedule", c) /\ UNCHANGED deploymentRow
    BY <1>2 DEF ScheduleDeployment
  <2>2. l \in SUBSET Entry
    BY <1>1 DEF scheduledDomains, List, parseDomainsList, AutoEntry, Entry
  <2>3. domains[d] = Null => Hosts(l) = {slug[d]} /\ Hosts(List(d)) = {}
    BY DEF scheduledDomains, AutoEntry, Hosts, List, parseDomainsList
  <2>4. domains[d] # Null => Hosts(l) = Hosts(List(d))
    BY DEF scheduledDomains, List, parseDomainsList
  <2>5. /\ c \in Ctx /\ c.d = d /\ c.list = l
        /\ c.h = IF domains[d] = Null THEN slug[d] ELSE Null
    BY <1>1, <2>2 DEF Ctx, NoCtx
  <2>6. slug[d] # Null
    BY <1>1, DomainsAssumption
  <2> HIDE DEF l, c
  <2>7. Hosts(c.list) = Hosts(List(d)) \cup ({c.h} \ {Null})
    BY <2>3, <2>4, <2>5, <2>6
  <2> QED BY <2>1, <2>5, <2>7, BeginsLists
<1>3. ASSUME NEW h \in Host, AddDomain(r, d, h) PROVE ListsInv'
  <2> DEFINE l == List(d) \cup {CustomEntry(h)}
             c == [NoCtx(d) EXCEPT !.h = h, !.list = l]
  <2>1. Begins(r, d, "add", c) /\ UNCHANGED deploymentRow
    BY <1>3 DEF AddDomain
  <2>2. l \in SUBSET Entry
    BY <1>1 DEF CustomEntry, Entry
  <2>3. Hosts(l) = Hosts(List(d)) \cup {h}
    <3>1. CustomEntry(h).host = h
      BY DEF CustomEntry
    <3> QED BY <3>1 DEF Hosts
  <2>4. c \in Ctx /\ c.d = d /\ c.list = l /\ c.h = h
    BY <2>2 DEF Ctx, NoCtx
  <2> HIDE DEF l, c
  <2> QED BY <2>1, <2>3, <2>4, DomainsAssumption, BeginsLists
<1>4. ASSUME NEW h \in Host, RemoveDomain(r, d, h) PROVE ListsInv'
  <2> DEFINE l == {e \in List(d) : e.host # h}
             c == [NoCtx(d) EXCEPT !.h = h, !.list = l]
  <2>1. Begins(r, d, "remove", c) /\ UNCHANGED deploymentRow
    BY <1>4 DEF RemoveDomain
  <2>2. l \in SUBSET Entry
    BY <1>1
  <2>3. Hosts(l) = Hosts(List(d)) \ {h}
    BY DEF Hosts
  <2>4. c \in Ctx /\ c.d = d /\ c.list = l /\ c.h = h
    BY <2>2 DEF Ctx, NoCtx
  <2> HIDE DEF l, c
  <2> QED BY <2>1, <2>3, <2>4, DomainsAssumption, BeginsLists
<1>5. ASSUME NEW h \in Host, VerifyDomain(r, d, h) PROVE ListsInv'
  <2> DEFINE c == [NoCtx(d) EXCEPT !.h = h, !.target = slug[d], !.list = List(d)]
  <2>1. Begins(r, d, "lookup", c) /\ UNCHANGED deploymentRow
    BY <1>5 DEF VerifyDomain
  <2>2. c \in Ctx /\ c.d = d /\ c.list = List(d)
    BY <1>1 DEF Ctx, NoCtx
  <2> HIDE DEF c
  <2> QED BY <2>1, <2>2, BeginsLists
<1> QED BY <1>2, <1>3, <1>4, <1>5

\* The lookup changes the status of one entry and no hostname.
LEMMA LookupLists ==
    ASSUME ListsInv, DomainsInv', NEW r \in Handler, Lookup(r)
    PROVE  ListsInv'
<1> DEFINE c == ctx[r]
<1>1. /\ pc[r] = "lookup" /\ pc' = [pc EXCEPT ![r] = "verify"]
      /\ UNCHANGED <<row, slug, domains, told, unsure>>
  BY DEF Lookup, deploymentRow
<1>2. c.d \in Depl /\ c.list \in SUBSET Entry
  BY <1>1 DEF ListsInv, DomainsInv, RequestsAtWork, AtWork
<1>3. PICK e \in {f \in c.list : f.host = c.h}, s \in {"verified", "failed"} :
         ctx' = [ctx EXCEPT ![r] =
            [NoCtx(c.d) EXCEPT !.list = (c.list \ {e}) \cup {[e EXCEPT !.status = s]}]]
  BY DEF Lookup
<1> DEFINE l == (c.list \ {e}) \cup {[e EXCEPT !.status = s]}
           new == [NoCtx(c.d) EXCEPT !.list = l]
<1>4. e \in Entry /\ [e EXCEPT !.status = s].host = e.host
  BY <1>2, <1>3 DEF Entry
<1>5. Hosts(l) = Hosts(c.list)
  BY <1>3, <1>4 DEF Hosts
<1>6. new.d = c.d /\ new.list = l /\ new.h = Null
  BY DEF NoCtx
<1>7. \A q \in Handler : /\ pc'[q] = (IF q = r THEN "verify" ELSE pc[q])
                         /\ ctx'[q] = (IF q = r THEN new ELSE ctx[q])
  BY <1>1, <1>3 DEF ListsInv, DomainsInv, RequestsTyped
<1> HIDE DEF l, new
<1>8. \A q \in Handler : ctx'[q].d = ctx[q].d
  BY <1>6, <1>7
<1>9. \A q \in Handler : pc'[q] = "idle" => ctx'[q].d = Null
  BY <1>7, <1>8 DEF ListsInv
<1>10. told' = [x \in Depl |-> told'[x]] /\ unsure' = [x \in Depl |-> unsure'[x]]
  BY <1>1 DEF ListsInv
<1>11. ASSUME NEW x \in Depl, told'[x] # Null
       PROVE  Follows(x)' /\ (Exists(x)' => Orderly(x)')
  <2>1. Hosts(List(x))' = Hosts(List(x)) /\ Follows(x)
    BY <1>1, <1>11 DEF ListsInv, List, Hosts
  <2>2. ASSUME Exists(x)' PROVE Orderly(x)'
    <3>1. Orderly(x)
      BY <1>1, <1>11, <2>2 DEF ListsInv, Exists
    <3>2. Alone(x)'
      BY <1>8, <3>1 DEF Orderly, Alone
    <3>3. ASSUME NEW q \in Handler, ctx'[q].d = x PROVE Leaves(q, x)'
      <4>1. Leaves(q, x)
        BY <1>8, <3>1, <3>3 DEF Orderly
      <4>2. CASE q = r
        <5>1. Hosts(ctx[r].list) = Hosts(List(x))
          BY <1>1, <4>1, <4>2 DEF Leaves
        <5>2. Hosts(ctx[r].list)' = Hosts(l) /\ pc'[r] = "verify" /\ About(r)' = {}
          BY <1>6, <1>7 DEF Hosts, About
        <5> QED BY <1>5, <2>1, <4>2, <5>1, <5>2 DEF Leaves
      <4>3. CASE q # r
        <5>1. pc'[q] = pc[q] /\ ctx'[q] = ctx[q]
          BY <1>7, <4>3
        <5> QED BY <2>1, <4>1, <5>1, SameLeaves
      <4> QED BY <4>2, <4>3
    <3> QED BY <3>2, <3>3 DEF Orderly
  <2> QED BY <1>1, <2>1, <2>2 DEF Follows
<1> QED BY <1>9, <1>10, <1>11, ListsByDeployment

\* The whole list is written: the row differs from what the owner knows in
\* what the request is about, and that is not settled yet.
LEMMA StoreLists ==
    ASSUME ListsInv, DomainsInv', NEW r \in Handler, StoreDomains(r)
    PROVE  ListsInv'
<1>0. PICK d : d = ctx[r].d
  OBVIOUS
<1>1. /\ pc[r] \in {"schedule", "add", "remove", "verify"}
      /\ Exists(d) /\ ctx' = ctx /\ told' = told
      /\ domains' = [domains EXCEPT ![d] = ctx[r].list]
      /\ row' = [row EXCEPT ![d] = IF pc[r] = "schedule" /\ @ = "pending" THEN "down" ELSE @]
      /\ unsure' = [unsure EXCEPT ![d] = @ \cup About(r)]
      /\ pc' = [pc EXCEPT ![r] = Answering[pc[r]]]
  BY <1>0 DEF StoreDomains, Answering
<1>2. d \in Depl /\ Null \notin Depl /\ ctx[r].list \in SUBSET Entry
  BY <1>0, <1>1, DomainsAssumption DEF ListsInv, DomainsInv, RequestsAtWork, AtWork
<1>3. \A q \in Handler : pc'[q] = (IF q = r THEN Answering[pc[r]] ELSE pc[q])
  BY <1>1 DEF ListsInv, DomainsInv, RequestsTyped
<1>4. \A q \in Handler : pc'[q] = "idle" => ctx'[q].d = Null
  BY <1>1, <1>3 DEF ListsInv, Answering
<1>5. \A x \in Depl : Exists(x)' => Exists(x)
  BY <1>1 DEF Exists, ListsInv, DomainsInv, RowsTyped
<1>6. told' = [x \in Depl |-> told'[x]] /\ unsure' = [x \in Depl |-> unsure'[x]]
  BY <1>1 DEF ListsInv
<1>7. ASSUME NEW x \in Depl \ {d} PROVE Untouched(x)
  <2>1. domains'[x] = domains[x] /\ told'[x] = told[x] /\ unsure'[x] = unsure[x]
    BY <1>1 DEF ListsInv, DomainsInv, RowsTyped
  <2>2. \A q \in Handler : ctx'[q].d = x => pc'[q] = pc[q] /\ ctx'[q] = ctx[q]
    BY <1>0, <1>1, <1>3
  <2> QED BY <1>5, <2>1, <2>2 DEF Untouched
<1>8. ASSUME told'[d] # Null
      PROVE  Follows(d)' /\ (Exists(d)' => Orderly(d)')
  <2>1. told[d] # Null /\ Orderly(d) /\ Follows(d)
    BY <1>1, <1>2, <1>8 DEF ListsInv
  <2>2. Leaves(r, d)
    BY <1>0, <2>1 DEF Orderly
  <2>3. Hosts(List(d))' = Hosts(ctx[r].list)
    <3>1. List(d)' = ctx[r].list
      BY <1>1, <1>2, DomainsAssumption DEF List, parseDomainsList, ListsInv, DomainsInv, RowsTyped
    <3> QED BY <3>1 DEF Hosts
  <2>4. unsure'[d] = unsure[d] \cup About(r)
    BY <1>1, <1>2 DEF ListsInv
  <2>5. Hosts(List(d))' \ About(r) = Hosts(List(d)) \ About(r)
    BY <1>1, <2>2, <2>3 DEF Leaves
  <2>6. Follows(d)'
    BY <1>1, <2>1, <2>4, <2>5 DEF Follows
  <2>7. Leaves(r, d)'
    <3>1. About(r)' = About(r) /\ pc'[r] = Answering[pc[r]]
      BY <1>1, <1>3 DEF About
    <3>2. CASE pc[r] = "schedule"
      BY <2>2, <2>3, <3>1, <3>2 DEF Leaves, Answering
    <3>3. CASE pc[r] = "add"
      BY <2>2, <2>3, <3>1, <3>3 DEF Leaves, Answering
    <3>4. CASE pc[r] = "remove"
      BY <2>2, <2>3, <3>1, <3>4 DEF Leaves, Answering
    <3>5. CASE pc[r] = "verify"
      BY <2>2, <2>3, <3>1, <3>5 DEF Leaves, Answering
    <3> QED BY <1>1, <3>2, <3>3, <3>4, <3>5
  <2>8. Alone(d)' /\ \A q \in Handler : ctx'[q].d = d => q = r
    BY <1>0, <1>1, <2>1 DEF Orderly, Alone
  <2>9. \A q \in Handler : ctx'[q].d = d => Leaves(q, d)'
    BY <2>7, <2>8
  <2> QED BY <2>6, <2>8, <2>9 DEF Orderly
<1>9. \A x \in Depl : told'[x] # Null =>
         Follows(x)' /\ (Exists(x)' => Orderly(x)')
  BY <1>7, <1>8, UntouchedKeeps
<1> QED BY <1>4, <1>6, <1>9, ListsByDeployment

\* A request ends: its write has failed, it answers and settles what it is
\* about, or its answer is lost.
LEMMA EndLists ==
    ASSUME ListsInv, DomainsInv', NEW r \in Handler,
           StoreFails(r) \/ Answer(r) \/ AnswerFails(r)
    PROVE  ListsInv'
<1>0. PICK d : d = ctx[r].d
  OBVIOUS
<1>1. Ends(r) /\ domains' = domains /\ pc[r] # "idle"
  BY DEF StoreFails, Answer, AnswerFails, deploymentRow, Answering
<1>2. \A q \in Handler : /\ pc'[q] = (IF q = r THEN "idle" ELSE pc[q])
                         /\ ctx'[q] = (IF q = r THEN NoCtx(Null) ELSE ctx[q])
  BY <1>1 DEF Ends, ListsInv, DomainsInv, RequestsTyped
<1>3. d \in Depl /\ Null \notin Depl /\ NoCtx(Null).d = Null
  BY <1>0, <1>1, DomainsAssumption DEF ListsInv, DomainsInv, RequestsAtWork, AtWork, NoCtx
<1>4. \A q \in Handler : pc'[q] = "idle" => ctx'[q].d = Null
  BY <1>2, <1>3 DEF ListsInv
<1>5. \A x \in Depl : Exists(x)' => Exists(x)
  BY DEF StoreFails, Answer, AnswerFails, deploymentRow, Exists, ListsInv, DomainsInv, RowsTyped
<1>6. told' = [x \in Depl |-> told'[x]] /\ unsure' = [x \in Depl |-> unsure'[x]]
  BY DEF StoreFails, Answer, AnswerFails, domainsHistory, ListsInv
<1>7. ASSUME NEW x \in Depl, x # d \/ ~Answer(r) PROVE Untouched(x)
  <2>1. told'[x] = told[x] /\ unsure'[x] = unsure[x]
    BY <1>0, <1>7 DEF StoreFails, Answer, AnswerFails, domainsHistory, ListsInv
  <2>2. \A q \in Handler : ctx'[q].d = x => pc'[q] = pc[q] /\ ctx'[q] = ctx[q]
    BY <1>2, <1>3
  <2> QED BY <1>1, <1>5, <2>1, <2>2 DEF Untouched
<1>8. ASSUME Answer(r), told'[d] # Null
      PROVE  Follows(d)' /\ (Exists(d)' => Orderly(d)')
  <2>1. /\ Exists(d) /\ pc[r] \in Written
        /\ unsure'[d] = unsure[d] \ About(r)
        /\ told'[d] = IF told[d] = Null THEN Null
                      ELSE IF pc[r] = "removed" THEN told[d] \ About(r)
                           ELSE told[d] \cup About(r)
    BY <1>0, <1>3, <1>8 DEF Answer, Written, ListsInv
  <2>2. told[d] # Null
    BY <1>8, <2>1
  <2>3. Orderly(d) /\ Follows(d)
    BY <1>3, <2>1, <2>2 DEF ListsInv
  <2>4. Leaves(r, d)
    BY <1>0, <2>3 DEF Orderly
  <2>5. Hosts(List(d))' = Hosts(List(d)) /\ About(r) \subseteq Host
    BY <1>1 DEF List, Hosts, About, ListsInv, DomainsInv, RequestsTyped, Ctx
  <2>6. Follows(d)'
    <3>1. CASE pc[r] = "removed"
      BY <2>1, <2>2, <2>3, <2>4, <2>5, <3>1 DEF Follows, Leaves
    <3>2. CASE pc[r] \in {"scheduled", "added"}
      BY <2>1, <2>2, <2>3, <2>4, <2>5, <3>2 DEF Follows, Leaves
    <3>3. CASE pc[r] = "verified"
      BY <2>1, <2>2, <2>3, <2>4, <2>5, <3>3 DEF Follows, Leaves
    <3> QED BY <2>1, <3>1, <3>2, <3>3 DEF Written
  <2>7. ~InRequest(d)'
    BY <1>0, <1>2, <1>3, <2>3 DEF Orderly, Alone, InRequest
  <2>8. Orderly(d)'
    BY <2>7 DEF InRequest, Orderly, Alone
  <2> QED BY <2>6, <2>8
<1>9. \A x \in Depl : told'[x] # Null =>
         Follows(x)' /\ (Exists(x)' => Orderly(x)')
  BY <1>7, <1>8, UntouchedKeeps
<1> QED BY <1>4, <1>6, <1>9, ListsByDeployment

(***************************************************************************)
(* As long as no two requests on one deployment overlap, its list has the  *)
(* hostnames its owner was told about, but for those whose change is       *)
(* written and not answered (the domain handlers of setup.go,              *)
(* scheduleDeployment, and Store.Update with its UPDATE and its read):     *)
(* requests on other deployments, failed writes and crashes do not disturb *)
(* the others.                                                             *)
(***************************************************************************)
THEOREM ListsFollowTheirRequests == DomainsSpec => []ListsFollowRequests
<1>1. ListsInv /\ [DomainsNext]_domainsVars => ListsInv'
  <2> SUFFICES ASSUME ListsInv, [DomainsNext]_domainsVars PROVE ListsInv'
    OBVIOUS
  <2>1. DomainsInv'
    BY DomainsStep DEF ListsInv
  <2>2. CASE UNCHANGED domainsVars
    <3>1. UNCHANGED <<row, slug, domains, pc, ctx, told, unsure>>
      BY <2>2 DEF domainsVars, deploymentRow, handlers, domainsHistory
    <3>2. \A d \in Depl : Untouched(d)
      BY <3>1 DEF Untouched, Exists
    <3>3. \A d \in Depl : told'[d] # Null =>
             Follows(d)' /\ (Exists(d)' => Orderly(d)')
      BY <3>2, UntouchedKeeps
    <3> QED BY <2>1, <3>1, <3>3, ListsByDeployment DEF ListsInv
  <2>3. CASE DomainsNext
    BY <2>1, <2>3, RowLists, ReadLists, LookupLists, StoreLists, EndLists DEF DomainsNext
  <2> QED BY <2>2, <2>3
<1>2. ListsInv => ListsFollowRequests
  BY DEF ListsInv, Follows, ListsFollowRequests
<1> QED BY <1>1, <1>2, ListsInitInv, PTL DEF DomainsSpec
=============================================================================
