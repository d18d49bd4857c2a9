------------------------------ MODULE Questions ------------------------------
(***************************************************************************)
(* What lies below the orchestrator and keeps no state: the two clients of *)
(* a Docker daemon and the order of the services.  "asked" is an input,    *)
(* and each property says how the answer of the code compares with a       *)
(* reference: the answer of the other client, or a definition.             *)
(***************************************************************************)
EXTENDS ServiceOrdering, DockerApi

CONSTANTS
    Names,      \* the services of a compose file
    Width,      \* bits of the daemon's counters
    FormatInt(_), Atoi(_),  \* numbers as words, and words as numbers (strconv)
    Words(_), Cuts(_)       \* what a shell makes of an unquoted string

ASSUME NamesAssumption == IsFiniteSet(Names)

VARIABLE asked

Local == INSTANCE DockerClient
Remote == INSTANCE SSHDockerClient

ASSUME ForceAssumption == Remote!Plain("--force")

----------------------------------------------------------------------------
(***************************************************************************)
(* Calls of docker.Client: the operation, its parameters and the answer of *)
(* the daemon.                                                             *)
(***************************************************************************)
LocalCall(q, a) ==
    CASE q.op = "CreateContainer"   -> Local!CreateContainer(q.spec, a)
      [] q.op = "StopContainer"     -> Local!StopContainer(q.id, q.timeout, a)
      [] q.op = "RemoveContainer"   -> Local!RemoveContainer(q.id, q.opts, a)
      [] q.op = "ListContainers"    -> Local!ListContainers(q.opts, a)
      [] q.op = "ContainerLogs"     -> Local!ContainerLogs(q.id, q.opts, a)
      [] q.op = "CreateNetwork"     -> Local!CreateNetwork(q.spec, a)
      [] q.op = "CreateVolume"      -> Local!CreateVolume(q.spec, a)
      [] q.op = "DisconnectNetwork" -> Local!DisconnectNetwork(q.network, q.id, q.force, a)
      [] q.op = "RemoveVolume"      -> Local!RemoveVolume(q.volume, q.force, a)
      [] q.op = "PullImage"         -> Local!PullImage(q.image, q.opts, a)
      [] q.op = "Ping"              -> Local!Ping(a)
      [] q.op = "StartContainer"    -> Local!StartContainer(q.id, a)
      [] q.op = "InspectContainer"  -> Local!InspectContainer(q.id, a)
      [] q.op = "ContainerStats"    -> Local!ContainerStats(q.id, a)
      [] q.op = "RemoveNetwork"     -> Local!RemoveNetwork(q.network, a)
      [] q.op = "ConnectNetwork"    -> Local!ConnectNetwork(q.network, q.id, a)
      [] q.op = "ImageExists"       -> Local!ImageExists(q.image, a)

RemoteCall(q, a) ==
    CASE q.op = "CreateContainer"   -> Remote!CreateContainer(q.spec, a)
      [] q.op = "StopContainer"     -> Remote!StopContainer(q.id, q.timeout, a)
      [] q.op = "RemoveContainer"   -> Remote!RemoveContainer(q.id, q.opts, a)
      [] q.op = "ListContainers"    -> Remote!ListContainers(q.opts, a)
      [] q.op = "ContainerLogs"     -> Remote!ContainerLogs(q.id, q.opts, a)
      [] q.op = "CreateNetwork"     -> Remote!CreateNetwork(q.spec, a)
      [] q.op = "CreateVolume"      -> Remote!CreateVolume(q.spec, a)
      [] q.op = "DisconnectNetwork" -> Remote!DisconnectNetwork(q.network, q.id, q.force, a)
      [] q.op = "RemoveVolume"      -> Remote!RemoveVolume(q.volume, q.force, a)
      [] q.op = "PullImage"         -> Remote!PullImage(q.image, q.opts, a)
      [] q.op = "Ping"              -> Remote!Ping(a)
      [] q.op = "StartContainer"    -> Remote!StartContainer(q.id, a)
      [] q.op = "InspectContainer"  -> Remote!InspectContainer(q.id, a)
      [] q.op = "ContainerStats"    -> Remote!ContainerStats(q.id, a)
      [] q.op = "RemoveNetwork"     -> Remote!RemoveNetwork(q.network, a)
      [] q.op = "ConnectNetwork"    -> Remote!ConnectNetwork(q.network, q.id, a)
      [] q.op = "ImageExists"       -> Remote!ImageExists(q.image, a)

\* The names that a call puts on the command line of the minion.
Arguments(q) ==
    CASE q.op \in {"StartContainer", "StopContainer", "RemoveContainer", "InspectContainer",
                   "ContainerLogs", "ContainerStats"} -> {q.id}
      [] q.op \in {"ConnectNetwork", "DisconnectNetwork"} -> {q.network, q.id}
      [] q.op = "RemoveNetwork" -> {q.network}
      [] q.op = "RemoveVolume"  -> {q.volume}
      [] q.op = "ImageExists"   -> {q.image}
      [] q.op = "PullImage"     -> {q.image} \cup ({q.opts.platform} \ {""})
      [] OTHER -> {}

PlainCall(q) == \A x \in Arguments(q) : Remote!Plain(x)

\* The parameters that Go's types leave, whatever the names and numbers; a
\* number in digits is a plain word that says the number.
IsCall(q) ==
    /\ q.op \in {"Ping", "CreateContainer", "StartContainer", "StopContainer", "RemoveContainer",
                 "InspectContainer", "ListContainers", "ContainerLogs", "ContainerStats",
                 "CreateNetwork", "RemoveNetwork", "ConnectNetwork", "DisconnectNetwork",
                 "CreateVolume", "RemoveVolume", "PullImage", "ImageExists"}
    /\ q.op = "StopContainer" =>
          /\ q.timeout \in Seq(Nat) /\ Len(q.timeout) <= 1
          /\ \A i \in DOMAIN q.timeout :
                LET w == FormatInt(q.timeout[i])
                IN  Remote!Plain(w) /\ Atoi(w) = <<q.timeout[i]>>
    /\ q.op \in {"DisconnectNetwork", "RemoveVolume"} => q.force \in BOOLEAN

Answers(q) == Answer \cup (IF q.op = "PullImage" THEN {BrokenStream} ELSE {})

IsListed(c) == c.names \in Seq(STRING)

\* The daemon gives the number of processors.
IsCount(s) == s.online \in Nat \ {0}

IsGraph(deps) == deps \in [Names -> SUBSET Names]

----------------------------------------------------------------------------
\* Requests of the two clients differ in two ways: network aliases do not reach
\* the minion, and it neither follows logs nor shows more than the last 100
\* lines unless told.
Known(arg, q) ==
    CASE q.op = "CreateContainer" -> [arg EXCEPT !.endpoints = DOMAIN @]
      [] q.op = "ContainerLogs" -> [arg EXCEPT !.follow = FALSE, !.tail = IF @ = "" THEN "100" ELSE @]
      [] OTHER -> arg

\* A minion asks its daemon for exactly what the local client asks (ports,
\* mounts, limits, timeouts in the right unit, flags), in spite of the way
\* through a command line and JSON, if the names on that line are plain words:
\* SSHDockerClient.execMinion does not quote them, and of a name with a blank
\* or a metacharacter something else arrives.  Known difference: for a ping
\* the minion asks for the version of the daemon.
SameRequest ==
    asked.kind = "call" =>
        LET q == asked.q.call
            a == asked.q.answer
        IN  PlainCall(q) =>
              /\ q.op # "Ping" => LocalCall(q, a).api = RemoteCall(q, a).api
              /\ Known(LocalCall(q, a).arg, q) = Known(RemoteCall(q, a).arg, q)

\* Whatever a daemon answers, the orchestrator goes on in the same way with
\* both clients: it decides by texts that pass through the error codes of the
\* minion.  The names are plain words, as above.  Known difference: a pull
\* that breaks off is not noticed.
SameDecision ==
    asked.kind = "call" =>
        LET q == asked.q.call
            a == asked.q.answer
        IN  PlainCall(q) /\ a # BrokenStream =>
              OrchestratorDoes(q.op, LocalCall(q, a).err)
                = OrchestratorDoes(q.op, RemoteCall(q, a).err)

\* Both clients say the same of a container: status, ports, and times only if
\* they have come; and the same statistics when the daemon gives the number of
\* processors, also after a counter has gone back.
SameInfo ==
    /\ asked.kind = "inspect" => Local!InspectInfo(asked.q) = Remote!InspectInfo(asked.q)
    /\ asked.kind = "list" => Local!ListInfo(asked.q) = Remote!ListInfo(asked.q)
    /\ asked.kind = "stats" => Local!Stats(asked.q) = Remote!Stats(asked.q)

\* TopologicalSort loses no service and repeats none, and puts a service after
\* all it depends on, unless a cycle is below it.
SortIsTopological == asked.kind = "graph" => Sorts(Names, asked.q)
=============================================================================
