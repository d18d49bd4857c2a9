----------------------------- MODULE MCQuestions -----------------------------
(***************************************************************************)
(* Questions for TLC, over small sets of calls, answers and graphs, and    *)
(* two of the parser of compose files.                                     *)
(***************************************************************************)
EXTENDS Questions, Compose

----------------------------------------------------------------------------
\* Calls of docker.Client: the operation, its parameters and the daemon's answer.
Port == [port : {80}, host : {0, 30000, 8080}, proto : {"", "tcp", "udp"}, ip : {""}]
Mount == [source : {"data"}, absolute : BOOLEAN, readOnly : {FALSE}]

Spec(ports, volumes, restart, aliases) ==
    [config |-> "config", ports |-> ports, volumes |-> volumes, cpu |-> Len(ports),
     memory |-> Len(volumes), restart |-> [name |-> restart, max |-> 0], health |-> None,
     networks |-> <<"net">>, aliases |-> aliases]

\* Names as they are, with a blank, and with a character that ends a command.
Ids == {"id", "two words", "a;b"}
Images == {"image", "an image"}

MCWords(x) ==
    CASE x = "" -> <<>>
      [] x = "two words" -> <<"two", "words">>
      [] x = "an image"  -> <<"an", "image">>
      [] x = "a;b"       -> <<"a">>
      [] OTHER           -> <<x>>
MCCuts(x) == x = "a;b"

Timeouts == {999, 5000, 10000}
MCFormatInt(n) == ToString(n)
MCAtoi(w) == SetToSeq({n \in Timeouts : ToString(n) = w})

Parameters ==
    {[op |-> "CreateContainer", spec |-> Spec(ports, volumes, restart, aliases)] :
        ports \in SeqOf(Port, 2), volumes \in SeqOf(Mount, 1), restart \in {"", "no"},
        aliases \in {[n \in {} |-> None], [n \in {"net"} |-> <<"web">>]}}
    \cup [op : {"StopContainer"}, id : Ids, timeout : {None} \cup {<<t>> : t \in Timeouts}]
    \cup [op : {"RemoveContainer"}, id : Ids, opts : [force : BOOLEAN, volumes : BOOLEAN]]
    \cup [op : {"ListContainers"}, opts : [all : BOOLEAN, filters : {"label"}]]
    \cup [op : {"ContainerLogs"}, id : Ids,
          opts : [follow : BOOLEAN, tail : {"", "10"}, since : {"t"}]]
    \cup [op : {"CreateNetwork", "CreateVolume"}, spec : [name : {"x"}, driver : {"", "overlay"}]]
    \cup [op : {"DisconnectNetwork"}, network : Ids, id : Ids, force : BOOLEAN]
    \cup [op : {"RemoveVolume"}, volume : Ids, force : BOOLEAN]
    \cup [op : {"PullImage"}, image : Images, opts : [platform : {"", "linux/arm64"}]]
    \cup [op : {"StartContainer", "InspectContainer", "ContainerStats"}, id : Ids]
    \cup [op : {"RemoveNetwork"}, network : Ids]
    \cup [op : {"ConnectNetwork"}, network : Ids, id : Ids]
    \cup [op : {"ImageExists"}, image : Images]
    \cup [op : {"Ping"}]

----------------------------------------------------------------------------
\* What a daemon says of a container.
Inspected ==
    [name : {"web"}, about : {"id"}, status : {"running", "exited"},
     startedAt : {"", "zero", "t1"}, finishedAt : {"zero", "t2"}, health : {None, <<"healthy">>},
     exitCode : {0, 1},
     ports : SUBSET {[port |-> 80, proto |-> "tcp", bindings |-> {}],
                     [port |-> 443, proto |-> "tcp",
                      bindings |-> {[ip |-> "0.0.0.0", host |-> <<30000>>],
                                    [ip |-> "::", host |-> None]}]}]

Listing ==
    [names : {<<>>, <<"web">>, <<"web", "alias">>}, about : {"id"}, state : {"running", "exited"},
     ports : SUBSET {[private |-> 80, public |-> 0, type |-> "tcp", ip |-> ""],
                     [private |-> 80, public |-> 30000, type |-> "tcp", ip |-> "0.0.0.0"]}]

Counters ==
    [cpu : {0, 5, 9}, preCpu : {0, 5, 9}, system : {0, 20}, preSystem : {0, 10},
     online : {1, 4}, perCpu : {0, 2}, usage : {3}, limit : {0, 8},
     networks : {<<>>, <<[rx |-> 1, tx |-> 2], [rx |-> 4, tx |-> 8]>>},
     blkio : {<<>>, <<[op |-> "Read", value |-> 3], [op |-> "write", value |-> 5],
                      [op |-> "Sync", value |-> 7], [op |-> "read", value |-> 2]>>},
     pids : {7}]

----------------------------------------------------------------------------
\* depends_on of the services of a file, cyclic ones included.
DependsOn == [Names -> SUBSET Names]

\* What the theorems of QuestionProofs suppose of a question.
ASSUME QuestionsAreInTheTheorems ==
    /\ \A q \in Parameters : IsCall(q)
    /\ \A c \in Listing : IsListed(c)
    /\ \A s \in Counters : IsCount(s)
    /\ \A deps \in DependsOn : IsGraph(deps)

\* A template of one service and a deployment of it.
Value == {<<<<"text", "t">>>>, <<<<"var", "X", <<>>>>>>, <<<<"var", "X", <<"d">>>>>>,
          <<<<"text", "t">>, <<"var", "Y", <<"d">>>>>>}

ComposePort == [target : {0, 80, 443, 70000}, published : {<<>>, <<80>>, <<30000>>, <<8000, 8010>>, <<70000>>},
                proto : {"tcp"}, ip : {""}]

File(ports, volumes, value, labels, image) ==
    [unsupported |-> FALSE,
     services |-> <<[name |-> "web", image |-> image, build |-> FALSE,
                     env |-> [k \in {"K"} |-> value], dependsOn |-> <<>>, ports |-> ports,
                     volumes |-> volumes, restart |-> "always", labels |-> labels,
                     health |-> <<>>, limits |-> <<>>]>>]

Templates ==
    {File(ports, <<>>, <<<<"text", "t">>>>, [k \in {} |-> ""], "img") :
        ports \in SeqOf(ComposePort, 2)}
    \cup {File(<<>>, volumes, value, [k \in labels |-> "x"], image) :
        volumes \in SeqOf([type : {"bind", "volume", ""}, source : {"data"},
                           path : {"absolute", "relative", "named"}, readOnly : BOOLEAN], 1),
        value \in Value, labels \in SUBSET {"l", "deployment"}, image \in {"", "img"}}

Variables == UNION {[v -> {"set"}] : v \in SUBSET {"X", "Y"}}

Deployment(variables) == [id |-> "depl", variables |-> variables, proxyPort |-> 30000]

----------------------------------------------------------------------------
Ask(kind, q) == asked = [kind |-> "none"] /\ asked' = [kind |-> kind, q |-> q]

AskCall == \E q \in Parameters : \E a \in Answers(q) : Ask("call", [call |-> q, answer |-> a])
AskInspect == \E r \in Inspected : Ask("inspect", r)
AskList == \E c \in Listing : Ask("list", c)
AskStats == \E s \in Counters : Ask("stats", s)
AskGraph == \E deps \in DependsOn : Ask("graph", deps)
AskTemplate == \E t \in Templates, v \in Variables : Ask("template", [file |-> t, variables |-> v])

QuestionsInit == asked = [kind |-> "none"]

QuestionsNext ==
    \/ AskCall \/ AskInspect \/ AskList \/ AskStats \/ AskGraph \/ AskTemplate

QuestionsSpec == QuestionsInit /\ [][QuestionsNext]_asked

----------------------------------------------------------------------------
Reaches(deps) ==
    LET step(r) == [s \in Names |-> r[s] \cup UNION {deps[t] : t \in r[s]}]
    IN  step(step(step(deps)))

OnCycle(deps) == {s \in Names : s \in Reaches(deps)[s]}

\* The parser refuses a compose file exactly if its dependencies have a cycle,
\* in whatever order the maps give services and dependencies.
CyclesAreFound ==
    asked.kind = "graph" =>
        \A services \in SetToSeqs(Names) :
            detectCircularDependencies(services, [s \in Names |-> SetToSeq(asked.q[s])])
                <=> OnCycle(asked.q) # {}

----------------------------------------------------------------------------
Parsed == ParseComposeSpec(asked.q.file)

\* The container of the template, when its service is the primary one.
Built == buildContainerSpec(Deployment(asked.q.variables), Parsed.services[1], TRUE, <<"cfg">>)

Accepted == asked.kind = "template" /\ Parsed.error = "nil"

\* Of a template that is accepted, every port the daemon is asked for is a port
\* number.  If no two ports of the service have the same target, the port that
\* the App Proxy knows is bound to the first of them and to no other one, but
\* for those that the compose file itself publishes under that number:
\* buildContainerSpec does not look at what the other ports publish, and for
\* such a file the daemon is asked to bind the number twice.
ProxyPortIsBound ==
    Accepted =>
        LET ports == Parsed.services[1].ports
            bound == Remote!CreateContainer(Built, "ok").arg.ports
            proxyPort == Deployment(asked.q.variables).proxyPort
        IN  /\ \A k \in DOMAIN bound :
                  k[1] \in 1 .. 65535 /\ (bound[k].port = None \/ bound[k].port[1] \in 1 .. 65535)
            /\ Cardinality({p.target : p \in ToSet(ports)}) = Len(ports) =>
                  {k[1] : k \in {l \in DOMAIN bound : bound[l].port = <<proxyPort>>}}
                    = {ports[i].target : i \in {j \in DOMAIN ports :
                                                  j = 1 \/ ports[j].published = proxyPort}}
=============================================================================
