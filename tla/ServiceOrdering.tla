-------------------------- MODULE ServiceOrdering --------------------------
(***************************************************************************)
(* core/deployment/ordering.go: the order in which the containers of a     *)
(* deployment are started.  Services come out of Go maps (the parsed       *)
(* compose file and the in-degrees), so one template has several orders:   *)
(* "services" and the first queue are any permutations.                    *)
(***************************************************************************)
EXTENDS Integers, Sequences, SequencesExt, FiniteSets

\* The members of R in the order in which seq has them.
Among(seq, R) ==
    LET upTo[i \in 0 .. Len(seq)] ==
            IF i = 0 THEN <<>>
            ELSE IF seq[i] \in R THEN Append(upTo[i - 1], seq[i]) ELSE upTo[i - 1]
    IN  upTo[Len(seq)]

\* Mutant: a dependent joins the queue with the first of its dependencies.
KahnStepEager(services, deps, k) ==
    IF k.queue = <<>> THEN k
    ELSE LET name == Head(k.queue)
             ready == {s \in ToSet(services) :
                          name \in deps[s] /\ s \notin ToSet(k.result) \cup ToSet(k.queue)}
         IN  [queue  |-> Tail(k.queue) \o Among(services, ready),
              degree |-> k.degree,
              result |-> Append(k.result, name)]

\* Kahn's algorithm, one service per round.
KahnStep(services, deps, k) ==
    IF k.queue = <<>> THEN k
    ELSE LET name == Head(k.queue)
             degree == [s \in ToSet(services) |->
                           IF name \in deps[s] THEN k.degree[s] - 1 ELSE k.degree[s]]
             ready == {s \in ToSet(services) : name \in deps[s] /\ degree[s] = 0}
         IN  [queue  |-> Tail(k.queue) \o Among(services, ready),
              degree |-> degree,
              result |-> Append(k.result, name)]

\* The state of the loop after each round; a round without a queue does nothing.
Kahn(services, deps, firstQueue) ==
    LET kahn[n \in 0 .. Len(services)] ==
            IF n = 0
              THEN [queue  |-> firstQueue,
                    degree |-> [s \in ToSet(services) |-> Cardinality(deps[s])],
                    result |-> <<>>]
              ELSE KahnStep(services, deps, kahn[n - 1])
    IN  kahn

\* Services on a cycle, or above one, are appended at the end.
TopologicalSort(services, deps, firstQueue) ==
    LET result == Kahn(services, deps, firstQueue)[Len(services)].result
    IN  result \o Among(services, ToSet(services) \ ToSet(result))

\* Mutant: in-degrees counted at the wrong end of depends_on.
OrdersFromDependents(S, deps) ==
    {TopologicalSort(services, deps, queue) :
        services \in SetToSeqs(S),
        queue \in SetToSeqs({s \in S : \A t \in S : s \notin deps[t]})}

Orders(S, deps) ==
    {TopologicalSort(services, deps, queue) :
        services \in SetToSeqs(S),
        queue \in SetToSeqs({s \in S : deps[s] = {}})}

----------------------------------------------------------------------------
\* s is on a cycle of depends_on or above one: from s there is always a next
\* dependency to go to.
CycleBelow(S, deps, s) ==
    \E T \in SUBSET S : s \in T /\ \A t \in T : deps[t] \cap T # {}

\* No order loses a service or repeats one, and every service without a cycle
\* below it comes after all it depends on.
Sorts(S, deps) ==
    \A order \in Orders(S, deps) :
        /\ ToSet(order) = S /\ Len(order) = Cardinality(S)
        /\ \A i, j \in DOMAIN order :
              order[j] \in deps[order[i]] /\ ~CycleBelow(S, deps, order[i]) => j < i
=============================================================================
