-------------------------- MODULE SSHDockerClient --------------------------
(***************************************************************************)
(* shell/docker/ssh_client.go: the operations of docker.Client as commands *)
(* of the minion.  What happens to the connection is in NodeFleet and, for *)
(* a call that is lost, in Orchestrator.                                   *)
(***************************************************************************)
EXTENDS Minion

CONSTANTS
    FormatInt(_),  \* strconv.FormatInt: a number in decimal digits
    Words(_),      \* the words the login shell of the node makes of a string
                   \* that stands unquoted in a command line
    Cuts(_)        \* whether a metacharacter in it ends the command

\* Mutant: the text of the daemon does not reach the caller.
translateCode(reply) ==
    IF reply.code = "ok" THEN NoError ELSE Err("other", reply.code)

translateError(reply) ==
    CASE reply.code = "ok"                -> NoError
      [] reply.code = "absent"            -> Absent
      [] reply.code = "not_found"         -> Err("ErrContainerNotFound", reply.message)
      [] reply.code = "already_exists"    -> Err("ErrContainerAlreadyExists", reply.message)
      [] reply.code = "not_running"       -> Err("ErrContainerNotRunning", reply.message)
      [] reply.code = "already_running"   -> Err("ErrContainerAlreadyRunning", reply.message)
      [] reply.code = "in_use"            -> Err("ErrNetworkInUse", reply.message)
      [] reply.code = "port_conflict"     -> Err("ErrPortAlreadyAllocated", reply.message)
      [] reply.code = "connection_failed" -> Err("ErrConnectionFailed", reply.message)
      [] reply.code = "pull_failed"       -> Err("ErrImagePullFailed", reply.message)
      [] OTHER                            -> Err("other", reply.message)

\* One word without metacharacters.
Plain(x) == Words(x) = <<x>> /\ ~Cuts(x)

Part(args, i) ==
    IF i <= Len(args) /\ \A j \in 1 .. i - 1 : ~Cuts(args[j]) THEN Words(args[i]) ELSE <<>>

\* The arguments are joined with blanks, without quotes, to a line that the
\* shell splits again.  No command has more than three of them.  What else
\* the line may do is left out.
ShellArgs(args) == Part(args, 1) \o Part(args, 2) \o Part(args, 3)

execMinion(cmd, args, input, a) ==
    LET reply == dispatch(cmd, ShellArgs(args), input, a)
    IN  Call(reply.api, reply.arg, translateError(reply))

NoInput == None

Ping(a) == execMinion("ping", <<>>, NoInput, a)

\* minion.ContainerSpec has no field for the network aliases.
toMinionContainerSpec(spec) ==
    [config |-> spec.config, ports |-> spec.ports, volumes |-> spec.volumes, cpu |-> spec.cpu,
     memory |-> spec.memory, restart |-> spec.restart, health |-> spec.health,
     networks |-> spec.networks]

CreateContainer(spec, a) == execMinion("create-container", <<>>, toMinionContainerSpec(spec), a)

StartContainer(id, a) == execMinion("start-container", <<id>>, NoInput, a)

StopContainer(id, timeout, a) ==
    execMinion("stop-container",
               <<id>> \o (IF timeout = None THEN <<>> ELSE <<FormatInt(timeout[1])>>), NoInput, a)

RemoveContainer(id, opts, a) ==
    execMinion("remove-container", <<id>>, [force |-> opts.force, volumes |-> opts.volumes], a)

InspectContainer(id, a) == execMinion("inspect-container", <<id>>, NoInput, a)

ListContainers(opts, a) ==
    execMinion("list-containers", <<>>, [all |-> opts.all, filters |-> opts.filters], a)

ContainerLogs(id, opts, a) ==
    execMinion("container-logs", <<id>>, [tail |-> opts.tail, since |-> opts.since], a)

ContainerStats(id, a) == execMinion("container-stats", <<id>>, NoInput, a)

CreateNetwork(spec, a) == execMinion("create-network", <<>>, spec, a)

RemoveNetwork(id, a) == execMinion("remove-network", <<id>>, NoInput, a)

ConnectNetwork(network, id, a) == execMinion("connect-network", <<network, id>>, NoInput, a)

DisconnectNetwork(network, id, force, a) ==
    execMinion("disconnect-network",
               <<network, id>> \o (IF force THEN <<"--force">> ELSE <<>>), NoInput, a)

CreateVolume(spec, a) == execMinion("create-volume", <<>>, spec, a)

RemoveVolume(name, force, a) ==
    execMinion("remove-volume", <<name>> \o (IF force THEN <<"--force">> ELSE <<>>), NoInput, a)

PullImage(image, opts, a) ==
    execMinion("pull-image",
               <<image>> \o (IF opts.platform # "" THEN <<opts.platform>> ELSE <<>>), NoInput, a)

ImageExists(image, a) == execMinion("image-exists", <<image>>, NoInput, a)

----------------------------------------------------------------------------
fromMinionContainerInfo(m) ==
    [name |-> m.name, about |-> m.about, status |-> m.status, state |-> m.state,
     health |-> m.health, startedAt |-> m.startedAt, finishedAt |-> m.finishedAt,
     exitCode |-> m.exitCode,
     ports |-> {[port |-> p.port, host |-> p.host, proto |-> p.proto, ip |-> p.ip] : p \in m.ports}]

InspectInfo(resp) == fromMinionContainerInfo(convertContainerInspect(resp))
ListInfo(c) == fromMinionContainerInfo(convertListed(c))
Stats(s) == calculateStats(s)
=============================================================================
