---------------------------- MODULE DockerClient ----------------------------
(***************************************************************************)
(* shell/docker/client.go, one operator per operation; "a" is what the     *)
(* daemon answers.                                                         *)
(***************************************************************************)
EXTENDS DockerApi

CONSTANT Width      \* bits of the daemon's counters

ContainerNotFound == Err("ErrContainerNotFound", "container not found")

\* The error of an operation that looks for no phrase of its own.
ErrorFor(a) ==
    CASE a = "ok" -> NoError
      [] a \in NotFound -> ContainerNotFound
      [] OTHER -> Err("other", a)

Ping(a) == Call("Ping", None, IF a = "ok" THEN NoError ELSE Err("ErrConnectionFailed", a))

CreateContainer(spec, a) ==
    Call("ContainerCreate",
         [config    |-> spec.config,
          ports     |-> PortBindings(spec.ports),
          mounts    |-> Mounts(spec.volumes),
          nanoCPUs  |-> IF spec.cpu > 0 THEN spec.cpu * 1000 ELSE 0,
          memory    |-> IF spec.memory > 0 THEN spec.memory ELSE 0,
          restart   |-> IF spec.restart.name # "" THEN <<spec.restart>> ELSE None,
          health    |-> spec.health,
          endpoints |-> [n \in ToSet(spec.networks) |->
                            IF n \in DOMAIN spec.aliases THEN spec.aliases[n] ELSE None]],
         CASE a = "ok" -> NoError
           [] a = "Conflict" -> Err("ErrContainerAlreadyExists", "already exists")
           [] a = "port is already allocated" -> Err("ErrPortAlreadyAllocated", a)
           [] OTHER -> Err("other", a))

StartContainer(id, a) ==
    Call("ContainerStart", id,
         IF a = "is already running" THEN Err("ErrContainerAlreadyRunning", a) ELSE ErrorFor(a))

\* A timeout is given in milliseconds, the API wants seconds.
StopContainer(id, timeout, a) ==
    Call("ContainerStop",
         [id |-> id, seconds |-> IF timeout = None THEN None ELSE <<timeout[1] \div 1000>>],
         IF a = "is not running" THEN Err("ErrContainerNotRunning", a) ELSE ErrorFor(a))

RemoveContainer(id, opts, a) ==
    Call("ContainerRemove", [id |-> id, force |-> opts.force, volumes |-> opts.volumes], ErrorFor(a))

InspectContainer(id, a) == Call("ContainerInspect", id, ErrorFor(a))

\* "" and "zero" (year 1) stand for a time that has not come.
TimeOf(t) == IF t \in {"", "zero"} THEN None ELSE <<t>>

PortsOf(ports) ==
    UNION {{[port |-> p.port, proto |-> p.proto, ip |-> b.ip,
             host |-> IF b.host = None THEN 0 ELSE b.host[1]] : b \in p.bindings} : p \in ports}

InspectInfo(resp) ==
    [name |-> resp.name, about |-> resp.about, status |-> resp.status, state |-> resp.status,
     health |-> IF resp.health = None THEN "" ELSE resp.health[1],
     startedAt |-> TimeOf(resp.startedAt), finishedAt |-> TimeOf(resp.finishedAt),
     ports |-> PortsOf(resp.ports), exitCode |-> resp.exitCode]

ListContainers(opts, a) ==
    Call("ContainerList", [all |-> opts.all, filters |-> opts.filters],
         IF a = "ok" THEN NoError ELSE Err("other", a))

ListInfo(c) ==
    [name |-> IF c.names = <<>> THEN "" ELSE c.names[1], about |-> c.about,
     status |-> c.state, state |-> c.state,
     health |-> "", startedAt |-> None, finishedAt |-> None, exitCode |-> 0,
     ports |-> {[port |-> p.private, host |-> p.public, proto |-> p.type, ip |-> p.ip] : p \in c.ports}]

ContainerLogs(id, opts, a) ==
    Call("ContainerLogs",
         [id |-> id, follow |-> opts.follow, tail |-> opts.tail, since |-> opts.since], ErrorFor(a))

CreateNetwork(spec, a) ==
    Call("NetworkCreate",
         [name |-> spec.name, driver |-> IF spec.driver = "" THEN "bridge" ELSE spec.driver],
         CASE a = "ok" -> NoError
           [] a = "already exists" -> Err("ErrNetworkAlreadyExists", a)
           [] OTHER -> Err("other", a))

RemoveNetwork(id, a) ==
    Call("NetworkRemove", id,
         CASE a = "ok" -> NoError
           [] a \in NotFound -> Err("ErrNetworkNotFound", "network not found")
           [] a = "has active endpoints" -> Err("ErrNetworkInUse", a)
           [] OTHER -> Err("other", a))

\* NetworkConnect and NetworkDisconnect.
AttachError(a) ==
    IF a = "network not found" THEN Err("ErrNetworkNotFound", a) ELSE ErrorFor(a)

ConnectNetwork(network, id, a) == Call("NetworkConnect", <<network, id>>, AttachError(a))

DisconnectNetwork(network, id, force, a) ==
    Call("NetworkDisconnect", <<network, id, force>>, AttachError(a))

CreateVolume(spec, a) ==
    Call("VolumeCreate",
         [name |-> spec.name, driver |-> IF spec.driver = "" THEN "local" ELSE spec.driver],
         IF a = "ok" THEN NoError ELSE Err("other", a))

RemoveVolume(name, force, a) ==
    Call("VolumeRemove", <<name, force>>,
         CASE a = "ok" -> NoError
           [] a \in NotFound -> Err("ErrVolumeNotFound", "volume not found")
           [] a = "in use" -> Err("ErrVolumeInUse", a)
           [] OTHER -> Err("other", a))

PullImage(image, opts, a) ==
    Call("ImagePull", [image |-> image, platform |-> opts.platform],
         CASE a = "ok" -> NoError
           [] a \in SaysNotFound \cup {"manifest unknown", "repository does not exist",
                                       "pull access denied"}
                -> Err("ErrImageNotFound", "image not found")
           [] OTHER -> Err("ErrImagePullFailed", a))

ImageExists(image, a) ==
    Call("ImageInspect", image,
         CASE a = "ok" -> NoError [] a \in NotFound -> Absent [] OTHER -> Err("other", a))

ContainerStats(id, a) == Call("ContainerStats", id, ErrorFor(a))

----------------------------------------------------------------------------
(***************************************************************************)
(* The statistics of a container.  Counters are unsigned: a difference     *)
(* wraps around.  A percentage is a fraction.                              *)
(***************************************************************************)
Minus(x, y) == (x - y) % 2^Width

calculateCPUPercent(s) ==
    LET cpu == Minus(s.cpu, s.preCpu)
        system == Minus(s.system, s.preSystem)
        count == IF s.online # 0 THEN s.online ELSE IF s.perCpu # 0 THEN s.perCpu ELSE 1
    IN  IF system > 0 /\ cpu > 0 THEN <<cpu * count * 100, system>> ELSE <<0, 1>>

Stats(s) ==
    [cpu |-> calculateCPUPercent(s),
     memory |-> IF s.limit > 0 THEN <<s.usage * 100, s.limit>> ELSE <<0, 1>>,
     rx |-> Total([i \in DOMAIN s.networks |-> s.networks[i].rx]),
     tx |-> Total([i \in DOMAIN s.networks |-> s.networks[i].tx]),
     read |-> Total([i \in DOMAIN s.blkio |->
         IF s.blkio[i].op \in {"Read", "read"} THEN s.blkio[i].value ELSE 0]),
     write |-> Total([i \in DOMAIN s.blkio |->
         IF s.blkio[i].op \in {"Write", "write"} THEN s.blkio[i].value ELSE 0]),
     pids |-> s.pids]
=============================================================================
