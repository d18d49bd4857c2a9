------------------------------- MODULE Minion -------------------------------
(***************************************************************************)
(* cmd/hoster-minion: one process per command, started through SSH with    *)
(* arguments and JSON on stdin; it makes one request to the daemon of its  *)
(* node and writes one JSON response, with an error code and the text of   *)
(* the daemon if the request failed.                                       *)
(***************************************************************************)
EXTENDS DockerApi

CONSTANTS
    Width,     \* bits of the daemon's counters
    Atoi(_)    \* strconv.Atoi: the number a word says, None for other words

Reply(api, arg, code, a) == [api |-> api, arg |-> arg, code |-> code, message |-> a]

\* Too few arguments, or a command it does not know: no request is made.
InvalidInput == Reply("none", None, "invalid_input", "usage")

\* The code of a command that looks for a missing container only.
ContainerCode(a) ==
    CASE a = "ok" -> "ok"
      [] a = "No such container" -> "not_found"
      [] OTHER -> "internal"

\* It asks for the version of the daemon.
pingCmd(a) == Reply("ServerVersion", None, IF a = "ok" THEN "ok" ELSE "connection_failed", a)

createContainerCmd(spec, a) ==
    Reply("ContainerCreate",
          [config    |-> spec.config,
           ports     |-> PortBindings(spec.ports),
           mounts    |-> Mounts(spec.volumes),
           nanoCPUs  |-> IF spec.cpu > 0 THEN spec.cpu * 1000 ELSE 0,
           memory    |-> IF spec.memory > 0 THEN spec.memory ELSE 0,
           restart   |-> IF spec.restart.name # "" THEN <<spec.restart>> ELSE None,
           health    |-> spec.health,
           endpoints |-> [n \in ToSet(spec.networks) |-> None]],
          CASE a = "ok" -> "ok"
            [] a = "Conflict" -> "already_exists"
            [] a = "port is already allocated" -> "port_conflict"
            [] OTHER -> "internal", a)

startContainerCmd(args, a) ==
    IF Len(args) < 1 THEN InvalidInput
    ELSE Reply("ContainerStart", args[1],
               IF a = "is already running" THEN "already_running" ELSE ContainerCode(a), a)

\* Mutant: the timeout is taken for seconds.
stopContainerSeconds(args, a) ==
    IF Len(args) < 1 THEN InvalidInput
    ELSE Reply("ContainerStop",
               [id |-> args[1], seconds |-> IF Len(args) > 1 THEN Atoi(args[2]) ELSE None],
               IF a = "is not running" THEN "not_running" ELSE ContainerCode(a), a)

\* A second word that is no number is no timeout.
stopContainerCmd(args, a) ==
    IF Len(args) < 1 THEN InvalidInput
    ELSE Reply("ContainerStop",
               [id |-> args[1],
                seconds |-> IF Len(args) > 1 /\ Atoi(args[2]) # None
                            THEN <<Atoi(args[2])[1] \div 1000>> ELSE None],
               IF a = "is not running" THEN "not_running" ELSE ContainerCode(a), a)

removeContainerCmd(args, opts, a) ==
    IF Len(args) < 1 THEN InvalidInput
    ELSE Reply("ContainerRemove", [id |-> args[1], force |-> opts.force, volumes |-> opts.volumes],
               ContainerCode(a), a)

inspectContainerCmd(args, a) ==
    IF Len(args) < 1 THEN InvalidInput ELSE Reply("ContainerInspect", args[1], ContainerCode(a), a)

listContainersCmd(opts, a) ==
    Reply("ContainerList", [all |-> opts.all, filters |-> opts.filters],
          IF a = "ok" THEN "ok" ELSE "internal", a)

\* Never follows, and shows the last 100 lines when it is not told how many.
containerLogsCmd(args, opts, a) ==
    IF Len(args) < 1 THEN InvalidInput
    ELSE Reply("ContainerLogs",
               [id |-> args[1], follow |-> FALSE, since |-> opts.since,
                tail |-> IF opts.tail = "" THEN "100" ELSE opts.tail],
               ContainerCode(a), a)

containerStatsCmd(args, a) ==
    IF Len(args) < 1 THEN InvalidInput ELSE Reply("ContainerStats", args[1], ContainerCode(a), a)

createNetworkCmd(spec, a) ==
    Reply("NetworkCreate",
          [name |-> spec.name, driver |-> IF spec.driver = "" THEN "bridge" ELSE spec.driver],
          CASE a = "ok" -> "ok" [] a = "already exists" -> "already_exists" [] OTHER -> "internal", a)

removeNetworkCmd(args, a) ==
    IF Len(args) < 1 THEN InvalidInput
    ELSE Reply("NetworkRemove", args[1],
               CASE a = "ok" -> "ok"
                 [] a \in SaysNotFound -> "not_found"
                 [] a = "has active endpoints" -> "in_use"
                 [] OTHER -> "internal", a)

AttachCode(a) ==
    CASE a = "ok" -> "ok" [] a \in SaysNotFound -> "not_found" [] OTHER -> "internal"

connectNetworkCmd(args, a) ==
    IF Len(args) < 2 THEN InvalidInput
    ELSE Reply("NetworkConnect", <<args[1], args[2]>>, AttachCode(a), a)

disconnectNetworkCmd(args, a) ==
    IF Len(args) < 2 THEN InvalidInput
    ELSE Reply("NetworkDisconnect", <<args[1], args[2], Len(args) > 2 /\ args[3] = "--force">>,
               AttachCode(a), a)

createVolumeCmd(spec, a) ==
    Reply("VolumeCreate",
          [name |-> spec.name, driver |-> IF spec.driver = "" THEN "local" ELSE spec.driver],
          IF a = "ok" THEN "ok" ELSE "internal", a)

removeVolumeCmd(args, a) ==
    IF Len(args) < 1 THEN InvalidInput
    ELSE Reply("VolumeRemove", <<args[1], Len(args) > 1 /\ args[2] = "--force">>,
               CASE a = "ok" -> "ok"
                 [] a \in SaysNotFound -> "not_found"
                 [] a = "in use" -> "in_use"
                 [] OTHER -> "internal", a)

\* An error while the progress messages are read is not looked at.
pullImageCmd(args, a) ==
    IF Len(args) < 1 THEN InvalidInput
    ELSE Reply("ImagePull", [image |-> args[1], platform |-> IF Len(args) > 1 THEN args[2] ELSE ""],
               CASE a \in {"ok", BrokenStream} -> "ok"
                 [] a \in SaysNotFound \cup {"manifest unknown"} -> "not_found"
                 [] OTHER -> "pull_failed", a)

\* Without an error the response says whether the image is there.
imageExistsCmd(args, a) ==
    IF Len(args) < 1 THEN InvalidInput
    ELSE Reply("ImageInspect", args[1],
               CASE a = "ok" -> "ok" [] a = "No such image" -> "absent" [] OTHER -> "internal", a)

dispatch(cmd, args, input, a) ==
    CASE cmd = "ping" -> pingCmd(a)
      [] cmd = "create-container"   -> createContainerCmd(input, a)
      [] cmd = "start-container"    -> startContainerCmd(args, a)
      [] cmd = "stop-container"     -> stopContainerCmd(args, a)
      [] cmd = "remove-container"   -> removeContainerCmd(args, input, a)
      [] cmd = "inspect-container"  -> inspectContainerCmd(args, a)
      [] cmd = "list-containers"    -> listContainersCmd(input, a)
      [] cmd = "container-logs"     -> containerLogsCmd(args, input, a)
      [] cmd = "container-stats"    -> containerStatsCmd(args, a)
      [] cmd = "create-network"     -> createNetworkCmd(input, a)
      [] cmd = "remove-network"     -> removeNetworkCmd(args, a)
      [] cmd = "connect-network"    -> connectNetworkCmd(args, a)
      [] cmd = "disconnect-network" -> disconnectNetworkCmd(args, a)
      [] cmd = "create-volume"      -> createVolumeCmd(input, a)
      [] cmd = "remove-volume"      -> removeVolumeCmd(args, a)
      [] cmd = "pull-image"         -> pullImageCmd(args, a)
      [] cmd = "image-exists"       -> imageExistsCmd(args, a)
      [] OTHER                      -> InvalidInput

----------------------------------------------------------------------------
(***************************************************************************)
(* The data of the responses.                                              *)
(***************************************************************************)
\* Mutant: a time that has not come is sent as year 1.
HasComeOrZero(t) == t # ""

HasCome(t) == t # "" /\ t # "zero"

convertContainerInspect(resp) ==
    [name |-> resp.name, about |-> resp.about, status |-> resp.status, state |-> resp.status,
     health |-> IF resp.health # None THEN resp.health[1] ELSE "",
     startedAt |-> IF HasCome(resp.startedAt) THEN <<resp.startedAt>> ELSE None,
     finishedAt |-> IF HasCome(resp.finishedAt) THEN <<resp.finishedAt>> ELSE None,
     exitCode |-> resp.exitCode,
     ports |-> UNION {{[port |-> p.port, proto |-> p.proto, ip |-> b.ip,
                        host |-> IF b.host # None THEN b.host[1] ELSE 0] : b \in p.bindings} :
                         p \in resp.ports}]

convertListed(c) ==
    [name |-> IF Len(c.names) > 0 THEN c.names[1] ELSE "", about |-> c.about,
     status |-> c.state, state |-> c.state,
     health |-> "", startedAt |-> None, finishedAt |-> None, exitCode |-> 0,
     ports |-> {[port |-> p.private, host |-> p.public, proto |-> p.type, ip |-> p.ip] : p \in c.ports}]

CPUCount(s) == IF s.online = 0 THEN 1 ELSE s.online

calculateStats(s) ==
    LET cpu == (s.cpu - s.preCpu) % 2^Width
        system == (s.system - s.preSystem) % 2^Width
    IN  [cpu |-> IF system > 0 /\ cpu > 0 THEN <<cpu * CPUCount(s) * 100, system>> ELSE <<0, 1>>,
         memory |-> IF s.limit > 0 THEN <<s.usage * 100, s.limit>> ELSE <<0, 1>>,
         rx |-> Total([i \in DOMAIN s.networks |-> s.networks[i].rx]),
         tx |-> Total([i \in DOMAIN s.networks |-> s.networks[i].tx]),
         read |-> Total([i \in DOMAIN s.blkio |->
             IF s.blkio[i].op \in {"Read", "read"} THEN s.blkio[i].value ELSE 0]),
         write |-> Total([i \in DOMAIN s.blkio |->
             IF s.blkio[i].op \in {"Write", "write"} THEN s.blkio[i].value ELSE 0]),
         pids |-> s.pids]
=============================================================================
