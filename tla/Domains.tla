------------------------------ MODULE Domains ------------------------------
(***************************************************************************)
(* The hostnames of deployments: the handlers that list, add, remove and   *)
(* verify domains (engine/setup.go), the scheduler that gives a deployment *)
(* its first one (engine/handlers.go), and the App Proxy that routes by    *)
(* them (shell/proxy/server.go, core/proxy, engine/store.go).              *)
(*                                                                         *)
(* The domains of a deployment are one JSON column.  Every handler reads   *)
(* the row, changes the list it read and writes the whole list back;       *)
(* verification asks the DNS in between.  The read, the lookup, the write  *)
(* and the answer are steps, and what is written is what the request has   *)
(* in its local variables.  A list is a set of entries here: its order     *)
(* only decides which of several entries of one hostname comes first, and  *)
(* then the model takes any of them.                                       *)
(***************************************************************************)
EXTENDS FiniteSets

CONSTANTS
    Depl,        \* deployment ids
    Host,        \* hostnames, as they are spelt
    Slug,        \* those of the form Slugify(name) + "." + base domain
    Null,        \* the column is NULL, the DNS has no answer, no deployment
    Handler,     \* requests that may overlap
    Fold(_),     \* a hostname in lower case: DNS names and EqualFold use it
    ClientLists, \* the lists clients POST or PATCH into the column
    StoreFaults  \* {"store"} if writes may fail

(***************************************************************************)
(* DomainInfo: what decides is the hostname, the type and the status.  An  *)
(* auto domain is stored without a status (domain.GenerateDomain).         *)
(***************************************************************************)
Entry == [host : Host, type : {"auto", "custom"},
          status : {"none", "pending", "verified", "failed"}]

ASSUME DomainsAssumption ==
    /\ Slug \subseteq Host
    /\ Null \notin Depl \cup Host /\ \A l \in SUBSET Entry : l # Null
    /\ \A l \in ClientLists : l = Null \/ l \subseteq Entry
    /\ StoreFaults \subseteq {"store"}

VARIABLES
    row,      \* the deployment: absent, pending, running (status running,
              \* with a proxy_port and a node that exists), down (scheduled
              \* or later, and not so), or erased
    slug,     \* what its name gives as a hostname
    domains,  \* the column domains
    pc, ctx,  \* what a request does next, and its local variables
    pointed,  \* the names a lookup found to point at a deployment, or its
              \* owner himself wrote as verified
    told,     \* the hostnames its owner has been told a deployment has; Null
              \* once two requests on the deployment have overlapped
    unsure    \* the hostnames that a request wrote or took out and has not
              \* (or, after an error, never) said so

deploymentRow == <<row, slug, domains>>
handlers == <<pc, ctx>>
domainsHistory == <<pointed, told, unsure>>
domainsVars == <<deploymentRow, handlers, domainsHistory>>

AutoEntry(h) == [host |-> h, type |-> "auto", status |-> "none"]
CustomEntry(h) == [host |-> h, type |-> "custom", status |-> "pending"]

\* parseDomainsList: an absent list has no entry.
parseDomainsList(l) == IF l = Null THEN {} ELSE l

Exists(d) == row[d] \in {"pending", "down", "running"}
List(d) == parseDomainsList(domains[d])
Hosts(l) == {e.host : e \in l}
Verified(l) == {Fold(e.host) : e \in {f \in l : f.type = "custom" /\ f.status = "verified"}}

\* Some request is between its read of the row and its answer.
InRequest(d) == \E r \in Handler : ctx[r].d = d

NoCtx(d) == [d |-> d, h |-> Null, target |-> Null, list |-> Null]

DomainsInit ==
    /\ row = [d \in Depl |-> "absent"]
    /\ slug \in [Depl -> Slug]
    /\ domains = [d \in Depl |-> Null]
    /\ pc = [r \in Handler |-> "idle"]
    /\ ctx = [r \in Handler |-> NoCtx(Null)]
    /\ pointed = [d \in Depl |-> {}]
    /\ told = [d \in Depl |-> {}]
    /\ unsure = [d \in Depl |-> {}]

-----------------------------------------------------------------------------
(***************************************************************************)
(* The generic API: a deployment is created and PATCHed with any list the  *)
(* client sends, for the field is not internal.  Store.Create and          *)
(* Store.Update write and then read the row for the answer; when that      *)
(* read fails, or nobody is there to get the answer, the client does not   *)
(* know which hostnames the deployment has.  The list does not depend on   *)
(* the one before, so write and answer are one step.                       *)
(***************************************************************************)
Writes(d, l) ==
    /\ domains' = [domains EXCEPT ![d] = l]
    /\ pointed' = [pointed EXCEPT ![d] = @ \cup Verified(parseDomainsList(l))]
    /\ \/ /\ told' = [told EXCEPT ![d] =
                        IF InRequest(d) THEN Null ELSE Hosts(parseDomainsList(l))]
          /\ unsure' = [unsure EXCEPT ![d] = {}]
       \/ /\ "store" \in StoreFaults
          /\ told' = [told EXCEPT ![d] = IF InRequest(d) THEN Null ELSE @]
          /\ unsure' = [unsure EXCEPT ![d] = Host]

Create(d, l) ==
    /\ row[d] = "absent"
    /\ row' = [row EXCEPT ![d] = "pending"]
    /\ Writes(d, l)
    /\ UNCHANGED <<slug, handlers>>

PatchDomains(d, l) ==
    /\ Exists(d)
    /\ Writes(d, l)
    /\ UNCHANGED <<row, slug, handlers>>

Rename(d, h) ==
    /\ Exists(d)
    /\ slug' = [slug EXCEPT ![d] = h]
    /\ UNCHANGED <<row, domains, handlers, domainsHistory>>

\* The deployment starts, stops or fails, or its node is deleted.
ChangeStatus(d, s) ==
    /\ row[d] \in {"down", "running"}
    /\ row' = [row EXCEPT ![d] = s]
    /\ UNCHANGED <<slug, domains, handlers, domainsHistory>>

Delete(d) ==
    /\ Exists(d)
    /\ row' = [row EXCEPT ![d] = "erased"]
    /\ domains' = [domains EXCEPT ![d] = Null]
    /\ pointed' = [pointed EXCEPT ![d] = {}]
    /\ told' = [told EXCEPT ![d] = {}] /\ unsure' = [unsure EXCEPT ![d] = {}]
    /\ UNCHANGED <<slug, handlers>>

-----------------------------------------------------------------------------
(***************************************************************************)
(* A request reads the row of d and goes on with it.                       *)
(***************************************************************************)
Begins(r, d, label, c) ==
    /\ pc[r] = "idle" /\ Exists(d)
    /\ pc' = [pc EXCEPT ![r] = label]
    /\ ctx' = [ctx EXCEPT ![r] = c]
    /\ told' = [told EXCEPT ![d] = IF InRequest(d) THEN Null ELSE @]
    /\ UNCHANGED <<pointed, unsure>>

Ends(r) ==
    /\ pc' = [pc EXCEPT ![r] = "idle"]
    /\ ctx' = [ctx EXCEPT ![r] = NoCtx(Null)]

\* Mutant: every deployment gets its auto domain.
DomainsAlwaysAuto(l, h) == {AutoEntry(h)}

\* scheduleDeployment: an auto domain if the row had no list.
scheduledDomains(l, h) == IF l = Null THEN {AutoEntry(h)} ELSE l

ScheduleDeployment(r, d) ==
    /\ row[d] = "pending"
    /\ Begins(r, d, "schedule",
              [NoCtx(d) EXCEPT !.h = IF domains[d] = Null THEN slug[d] ELSE Null,
                               !.list = scheduledDomains(domains[d], slug[d])])
    /\ UNCHANGED deploymentRow

\* domainAddHandler: a hostname the list has already is a conflict.
AddDomain(r, d, h) ==
    /\ h \notin Hosts(List(d))
    /\ Begins(r, d, "add",
              [NoCtx(d) EXCEPT !.h = h, !.list = List(d) \cup {CustomEntry(h)}])
    /\ UNCHANGED deploymentRow

\* domainRemoveHandler: every entry of the hostname goes, an auto one too.
RemoveDomain(r, d, h) ==
    /\ h \in Hosts(List(d))
    /\ Begins(r, d, "remove",
              [NoCtx(d) EXCEPT !.h = h, !.list = {e \in List(d) : e.host # h}])
    /\ UNCHANGED deploymentRow

\* domainVerifyHandler, up to the lookup.
VerifyDomain(r, d, h) ==
    /\ h \in Hosts(List(d))
    /\ Begins(r, d, "lookup",
              [NoCtx(d) EXCEPT !.h = h, !.target = slug[d], !.list = List(d)])
    /\ UNCHANGED deploymentRow

\* Mutant: a lookup that fails says nothing against the domain.
NotRefuted(answer, target) == answer \in {target, Null}

\* The one CNAME that lookupCNAME returns is the expected target.
PointsAt(answer, target) == answer = target

\* The lookup and what it makes of the entry; a check that fails takes the
\* verification back.  The record is whatever its zone has at the moment, or
\* Null where there is none or the lookup fails.
Lookup(r) ==
    LET c == ctx[r] IN
    /\ pc[r] = "lookup"
    /\ \E answer \in Host \cup {Null} : \E e \in {f \in c.list : f.host = c.h} :
        LET ok == PointsAt(answer, c.target)
            checked == [e EXCEPT !.status = IF ok THEN "verified" ELSE "failed"]
        IN /\ ctx' = [ctx EXCEPT ![r] =
                         [NoCtx(c.d) EXCEPT !.list = (c.list \ {e}) \cup {checked}]]
           /\ pointed' = [pointed EXCEPT ![c.d] =
                             IF answer = c.target THEN @ \cup {Fold(c.h)} ELSE @]
    /\ pc' = [pc EXCEPT ![r] = "verify"]
    /\ UNCHANGED <<deploymentRow, told, unsure>>

\* The hostname that a request adds or takes out.
About(r) == {ctx[r].h} \ {Null}

\* What a request does after its UPDATE.
Answering == [schedule |-> "scheduled", add |-> "added",
              remove |-> "removed", verify |-> "verified"]

\* Store.Update: the UPDATE with the whole list.
StoreDomains(r) ==
    LET d == ctx[r].d IN
    /\ pc[r] \in DOMAIN Answering
    /\ Exists(d)
    /\ domains' = [domains EXCEPT ![d] = ctx[r].list]
    /\ row' = [row EXCEPT ![d] =
                  IF pc[r] = "schedule" /\ @ = "pending" THEN "down" ELSE @]
    /\ pc' = [pc EXCEPT ![r] = Answering[pc[r]]]
    /\ unsure' = [unsure EXCEPT ![d] = @ \cup About(r)]
    /\ UNCHANGED <<slug, ctx, pointed, told>>

\* The row is gone, the write fails or the process crashes.  The client gets an
\* error; scheduleDeployment drops it and the deployment is not scheduled again.
StoreFails(r) ==
    LET d == ctx[r].d IN
    /\ pc[r] \in DOMAIN Answering
    /\ "store" \in StoreFaults \/ ~Exists(d)
    /\ row' = [row EXCEPT ![d] =
                  IF pc[r] = "schedule" /\ @ = "pending" THEN "down" ELSE @]
    /\ Ends(r)
    /\ UNCHANGED <<slug, domains, domainsHistory>>

\* Store.Update reads the row back, and the handler answers.
Answer(r) ==
    LET d == ctx[r].d IN
    /\ pc[r] \in {"scheduled", "added", "removed", "verified"}
    /\ Exists(d)
    /\ told' = [told EXCEPT ![d] =
                   IF @ = Null THEN Null
                   ELSE IF pc[r] = "removed" THEN @ \ About(r) ELSE @ \cup About(r)]
    /\ unsure' = [unsure EXCEPT ![d] = @ \ About(r)]
    /\ Ends(r)
    /\ UNCHANGED <<deploymentRow, pointed>>

\* That read fails, the client is gone or the process crashes: the list has
\* changed, and what the client gets is an error or nothing.
AnswerFails(r) ==
    /\ pc[r] \in {"scheduled", "added", "removed", "verified"}
    /\ "store" \in StoreFaults \/ ~Exists(ctx[r].d)
    /\ Ends(r)
    /\ UNCHANGED <<deploymentRow, domainsHistory>>

DomainsNext ==
    \/ \E d \in Depl, l \in ClientLists : Create(d, l) \/ PatchDomains(d, l)
    \/ \E d \in Depl, h \in Slug : Rename(d, h)
    \/ \E d \in Depl, s \in {"down", "running"} : ChangeStatus(d, s)
    \/ \E d \in Depl : Delete(d)
    \/ \E r \in Handler, d \in Depl : ScheduleDeployment(r, d)
    \/ \E r \in Handler, d \in Depl, h \in Host :
            AddDomain(r, d, h) \/ RemoveDomain(r, d, h) \/ VerifyDomain(r, d, h)
    \/ \E r \in Handler : \/ Lookup(r)
                          \/ StoreDomains(r) \/ StoreFails(r)
                          \/ Answer(r) \/ AnswerFails(r)

DomainsSpec == DomainsInit /\ [][DomainsNext]_domainsVars

-----------------------------------------------------------------------------
(***************************************************************************)
(* The App Proxy, as a question asked in any state: which deployments can  *)
(* a request for hostname h be forwarded to?                               *)
(***************************************************************************)
\* Store.GetDeploymentByDomain: LIMIT 1 of the rows, of any status, whose
\* list has the hostname; the comparison is exact.
GetDeploymentByDomain(h) == {d \in Depl : Exists(d) /\ h \in Hosts(List(d))}

\* resolveTarget lets the request pass: the first custom entry of that name
\* (strings.EqualFold) has to be verified, if there is one.
Custom(d, h) == {e \in List(d) : e.type = "custom" /\ Fold(e.host) = Fold(h)}

Resolves(d, h) ==
    Custom(d, h) = {} \/ \E e \in Custom(d, h) : e.status = "verified"

\* ProxyTarget.CanRoute, and GetNodeSSHHost finds the node.
CanRoute(d) == row[d] = "running"

MayForward(h) == {d \in GetDeploymentByDomain(h) : Resolves(d, h) /\ CanRoute(d)}

-----------------------------------------------------------------------------
(***************************************************************************)
(* Properties.                                                             *)
(***************************************************************************)
(***************************************************************************)
(* The proxy forwards a request for a custom hostname to a deployment only *)
(* if that name once pointed at the deployment, by the CNAME record a      *)
(* lookup saw, or the owner's own write said so.  It holds through lists   *)
(* that are read before and written after other requests, removed and      *)
(* added again, renamed deployments and records that change.               *)
(***************************************************************************)
ForwardedWasPointed ==
    \A h \in Host : \A d \in MayForward(h) :
        \/ \E e \in List(d) : e.host = h /\ e.type = "auto"
        \/ Fold(h) \in pointed[d]

(***************************************************************************)
(* As long as no two requests on one deployment overlap, its list has the  *)
(* hostnames its owner was told about, no more and no less, but for those  *)
(* whose change was written and is not answered: Store.Update may fail     *)
(* after its UPDATE, and the handler then answers with an error though the *)
(* list has changed.  Only those: requests on other deployments, failed    *)
(* writes, crashes and changes of name or status disturb no other          *)
(* hostname, and the next answer about such a hostname settles it.         *)
(***************************************************************************)
ListsFollowRequests ==
    \A d \in Depl : told[d] # Null => Hosts(List(d)) \ unsure[d] = told[d] \ unsure[d]
=============================================================================
