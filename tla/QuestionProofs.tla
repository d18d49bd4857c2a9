--------------------------- MODULE QuestionProofs ---------------------------
(***************************************************************************)
(* What DockerClient and the pair of SSHDockerClient and Minion have in    *)
(* common, for any parameters of a call, any answer of the daemon and any  *)
(* data it returns; and the order of the services, for any of them.        *)
(***************************************************************************)
EXTENDS Questions, OrderingProofs

----------------------------------------------------------------------------
(***************************************************************************)
(* The operators of DockerApi are the same in both clients.                *)
(***************************************************************************)
LEMMA SamePorts ==
    ASSUME NEW ports
    PROVE  Local!PortBindings(ports) = Remote!PortBindings(ports)
BY DEF Local!PortBindings, Local!ContainerPort, Local!None,
       Remote!PortBindings, Remote!ContainerPort, Remote!None

LEMMA SameMounts ==
    ASSUME NEW volumes
    PROVE  Local!Mounts(volumes) = Remote!Mounts(volumes)
BY DEF Local!Mounts, Remote!Mounts

LEMMA SameTotal ==
    ASSUME NEW values
    PROVE  Local!Total(values) = Remote!Total(values)
BY DEF Local!Total, Remote!Total

----------------------------------------------------------------------------
(***************************************************************************)
(* A call: the request, and what the orchestrator makes of its end.        *)
(***************************************************************************)
SameAsk(q, a) ==
    /\ q.op # "Ping" => LocalCall(q, a).api = RemoteCall(q, a).api
    /\ Known(LocalCall(q, a).arg, q) = Known(RemoteCall(q, a).arg, q)

SameEnd(q, a) ==
    a # BrokenStream =>
        OrchestratorDoes(q.op, LocalCall(q, a).err) = OrchestratorDoes(q.op, RemoteCall(q, a).err)

\* Short tuples, concatenated.
LEMMA JoinOne ==
    ASSUME NEW x, NEW y
    PROVE  <<x>> \o <<y>> = <<x, y>>
<1>1. <<x>> \in Seq({x, y}) /\ y \in {x, y}
  OBVIOUS
<1>2. <<x, y>> = Append(<<x>>, y)
  OBVIOUS
<1>3. <<x>> \o <<y>> = Append(<<x>>, y)
  BY <1>1, AppendIsConcat
<1> QED BY <1>2, <1>3

LEMMA JoinTwo ==
    ASSUME NEW x, NEW y, NEW z
    PROVE  <<x, y>> \o <<z>> = <<x, y, z>>
<1>1. <<x, y>> \in Seq({x, y, z}) /\ z \in {x, y, z}
  OBVIOUS
<1>2. <<x, y, z>> = Append(<<x, y>>, z)
  OBVIOUS
<1>3. <<x, y>> \o <<z>> = Append(<<x, y>>, z)
  BY <1>1, AppendIsConcat
<1> QED BY <1>2, <1>3

LEMMA JoinNone ==
    ASSUME NEW x, NEW y
    PROVE  <<x>> \o <<>> = <<x>> /\ <<x, y>> \o <<>> = <<x, y>>
OBVIOUS

\* A line of plain words is split into the arguments it was joined from.
LEMMA NoArgument == Remote!ShellArgs(<<>>) = <<>>
BY DEF Remote!ShellArgs, Remote!Part

LEMMA OneArgument ==
    ASSUME NEW x, Remote!Plain(x)
    PROVE  Remote!ShellArgs(<<x>>) = <<x>>
<1>1. /\ Remote!Part(<<x>>, 1) = <<x>>
      /\ Remote!Part(<<x>>, 2) = <<>> /\ Remote!Part(<<x>>, 3) = <<>>
  BY DEF Remote!Part, Remote!Plain
<1> QED BY <1>1, JoinNone, Zenon DEF Remote!ShellArgs

LEMMA TwoArguments ==
    ASSUME NEW x, NEW y, Remote!Plain(x), Remote!Plain(y)
    PROVE  Remote!ShellArgs(<<x, y>>) = <<x, y>>
<1>1. /\ Remote!Part(<<x, y>>, 1) = <<x>> /\ Remote!Part(<<x, y>>, 2) = <<y>>
      /\ Remote!Part(<<x, y>>, 3) = <<>>
  BY DEF Remote!Part, Remote!Plain
<1> QED BY <1>1, JoinOne, JoinNone, Zenon DEF Remote!ShellArgs

LEMMA ThreeArguments ==
    ASSUME NEW x, NEW y, NEW z, Remote!Plain(x), Remote!Plain(y), Remote!Plain(z)
    PROVE  Remote!ShellArgs(<<x, y, z>>) = <<x, y, z>>
<1>1. /\ Remote!Part(<<x, y, z>>, 1) = <<x>> /\ Remote!Part(<<x, y, z>>, 2) = <<y>>
      /\ Remote!Part(<<x, y, z>>, 3) = <<z>>
  BY DEF Remote!Part, Remote!Plain
<1> QED BY <1>1, JoinOne, JoinTwo, Zenon DEF Remote!ShellArgs

\* What a reply of the minion becomes in SSHDockerClient.
LEMMA ThroughTheMinion ==
    ASSUME NEW cmd, NEW args, NEW input, NEW a, NEW api, NEW arg, NEW code,
           Remote!ShellArgs(args) = args,
           Remote!dispatch(cmd, args, input, a) = Remote!Reply(api, arg, code, a)
    PROVE  /\ Remote!execMinion(cmd, args, input, a).api = api
           /\ Remote!execMinion(cmd, args, input, a).arg = arg
           /\ Remote!execMinion(cmd, args, input, a).err
                = Remote!translateError(Remote!Reply(api, arg, code, a))
BY DEF Remote!execMinion, Remote!Call, Remote!Reply

IsCode(err, code, a) ==
    /\ code = "ok" => err = NoError
    /\ code = "absent" => err = Absent
    /\ code # "ok" /\ code # "absent" => err.is # "nil" /\ err.text = a

\* An error of the minion is an error of the client, with the text of the daemon.
LEMMA Translated ==
    ASSUME NEW api, NEW arg, NEW code, NEW a, NEW err,
           err = Remote!translateError(Remote!Reply(api, arg, code, a))
    PROVE  IsCode(err, code, a)
<1> DEFINE reply == Remote!Reply(api, arg, code, a)
<1>1. reply.code = code /\ reply.message = a
  BY DEF Remote!Reply
<1>0. err = Remote!translateError(reply)
  OBVIOUS
<1> HIDE DEF reply
<1>2. ASSUME code = "ok" PROVE err = NoError
  <2>1. err = Remote!NoError
    BY <1>0, <1>1, <1>2 DEF Remote!translateError
  <2> QED BY <2>1 DEF Remote!NoError, NoError
<1>3. ASSUME code = "absent" PROVE err = Absent
  BY <1>0, <1>1, <1>3 DEF Remote!translateError, Remote!Absent, Absent
<1>4. ASSUME code # "ok", code # "absent" PROVE err.is # "nil" /\ err.text = a
  <2> DEFINE Is(is) == err = Remote!Err(is, a)
  <2>1. /\ code = "not_found" => Is("ErrContainerNotFound")
        /\ code = "already_exists" => Is("ErrContainerAlreadyExists")
        /\ code = "not_running" => Is("ErrContainerNotRunning")
        /\ code = "already_running" => Is("ErrContainerAlreadyRunning")
        /\ code = "in_use" => Is("ErrNetworkInUse")
        /\ code = "port_conflict" => Is("ErrPortAlreadyAllocated")
        /\ code = "connection_failed" => Is("ErrConnectionFailed")
        /\ code = "pull_failed" => Is("ErrImagePullFailed")
    BY <1>0, <1>1 DEF Remote!translateError
  <2>2. \/ code = "not_found"
        \/ code = "already_exists"
        \/ code = "not_running"
        \/ code = "already_running"
        \/ code = "in_use"
        \/ code = "port_conflict"
        \/ code = "connection_failed"
        \/ code = "pull_failed"
        \/ Is("other")
    BY <1>0, <1>1, <1>4 DEF Remote!translateError
  <2> QED BY <2>1, <2>2 DEF Remote!Err
<1> QED BY <1>2, <1>3, <1>4 DEF IsCode

LEMMA AgreeOnRequest ==
    ASSUME NEW q, NEW a, NEW api, NEW arg, NEW err, NEW cmd, NEW args, NEW input,
           NEW theirs, NEW there, NEW code,
           LocalCall(q, a) = Local!Call(api, arg, err),
           RemoteCall(q, a) = Remote!execMinion(cmd, args, input, a),
           Remote!ShellArgs(args) = args,
           Remote!dispatch(cmd, args, input, a) = Remote!Reply(theirs, there, code, a),
           theirs = api \/ q.op = "Ping"
    PROVE  /\ Known(arg, q) = Known(there, q) => SameAsk(q, a)
           /\ LocalCall(q, a).err = err
           /\ IsCode(RemoteCall(q, a).err, code, a)
<1>1. LocalCall(q, a).api = api /\ LocalCall(q, a).arg = arg /\ LocalCall(q, a).err = err
  BY DEF Local!Call
<1>2. /\ RemoteCall(q, a).api = theirs /\ RemoteCall(q, a).arg = there
      /\ RemoteCall(q, a).err = Remote!translateError(Remote!Reply(theirs, there, code, a))
  BY ThroughTheMinion
<1>3. IsCode(RemoteCall(q, a).err, code, a)
  BY <1>2, Translated
<1> QED BY <1>1, <1>2, <1>3 DEF SameAsk

\* The operations whose end is judged by whether there is an error.
LEMMA AgreeOnError ==
    ASSUME NEW q, NEW a, NEW err, NEW code,
           q.op # "CreateNetwork", q.op # "CreateVolume", q.op # "StartContainer", q.op # "ImageExists",
           LocalCall(q, a).err = err, IsCode(RemoteCall(q, a).err, code, a),
           a # BrokenStream => (a = "ok" => err.is = "nil" /\ code = "ok"),
           a # BrokenStream => (a # "ok" => err.is # "nil" /\ code # "ok" /\ code # "absent")
    PROVE  SameEnd(q, a)
<1> DEFINE there == RemoteCall(q, a).err
<1>1. NoError.is = "nil"
  BY DEF NoError
<1>2. (code = "ok" => there = NoError) /\ (code # "ok" /\ code # "absent" => there.is # "nil")
  BY DEF IsCode
<1>3. \A e : OrchestratorDoes(q.op, e) = IF e.is = "nil" THEN "goes on" ELSE "gives up"
  BY DEF OrchestratorDoes
<1>4. CASE a = "ok"
  BY <1>1, <1>2, <1>3, <1>4 DEF SameEnd
<1>5. CASE a # "ok"
  BY <1>1, <1>2, <1>3, <1>5 DEF SameEnd
<1> QED BY <1>4, <1>5

\* The operations for which one text of the daemon is not an error.
LEMMA AgreeOnText ==
    ASSUME NEW q, NEW a, NEW err, NEW code, NEW word,
           \A e : OrchestratorDoes(q.op, e)
                    = IF e.is = "nil" \/ e.text = word THEN "goes on" ELSE "gives up",
           LocalCall(q, a).err = err, IsCode(RemoteCall(q, a).err, code, a),
           a = "ok" => err.is = "nil" /\ code = "ok",
           a # "ok" => err.is # "nil" /\ code # "ok" /\ code # "absent",
           a # "ok" => (err.text = word <=> a = word)
    PROVE  SameEnd(q, a)
<1> DEFINE there == RemoteCall(q, a).err
<1>1. NoError.is = "nil"
  BY DEF NoError
<1>2. /\ code = "ok" => there = NoError
      /\ code # "ok" /\ code # "absent" => there.is # "nil" /\ there.text = a
  BY Zenon DEF IsCode
<1>3. CASE a = "ok"
  BY <1>1, <1>2, <1>3, Zenon DEF SameEnd
<1>4. CASE a # "ok"
  <2>1. /\ ~(err.is = "nil" \/ err.text = word) <=> a # word
        /\ ~(there.is = "nil" \/ there.text = word) <=> a # word
    BY <1>2, <1>4, Zenon
  <2>2. /\ a = word => OrchestratorDoes(q.op, err) = "goes on"
        /\ a # word => OrchestratorDoes(q.op, err) = "gives up"
    BY <2>1, Zenon
  <2>3. /\ a = word => OrchestratorDoes(q.op, there) = "goes on"
        /\ a # word => OrchestratorDoes(q.op, there) = "gives up"
    BY <2>1, Zenon
  <2>4. OrchestratorDoes(q.op, err) = OrchestratorDoes(q.op, there)
    BY <2>2, <2>3, Zenon
  <2> QED BY <2>4, Zenon DEF SameEnd
<1> QED BY <1>3, <1>4

\* The errors of DockerClient.
LEMMA LocalErr ==
    ASSUME NEW is, NEW text, NEW err, err = Local!Err(is, text)
    PROVE  err.is = is /\ err.text = text
BY DEF Local!Err

LEMMA LocalNoError == Local!NoError.is = "nil"
BY DEF Local!NoError

LEMMA LocalErrorFor ==
    ASSUME NEW a, NEW err, err = Local!ErrorFor(a)
    PROVE  /\ a = "ok" => err = Local!NoError
           /\ a # "ok" => err.is # "nil"
<1>1. "ok" \notin Local!NotFound
  BY DEF Local!NotFound
<1>2. a = "ok" => err = Local!NoError
  BY <1>1, Zenon DEF Local!ErrorFor
<1>3. a # "ok" => \/ err = Local!ContainerNotFound
                  \/ err = Local!Err("other", a)
  BY Zenon DEF Local!ErrorFor
<1>4. Local!ContainerNotFound.is = "ErrContainerNotFound"
  BY Zenon DEF Local!ContainerNotFound, Local!Err
<1>5. Local!Err("other", a).is = "other"
  BY DEF Local!Err
<1> QED BY <1>2, <1>3, <1>4, <1>5

LEMMA LocalErrorText ==
    ASSUME NEW a, a # "ok"
    PROVE  Local!ErrorFor(a).text = "is already running" <=> a = "is already running"
<1>1. "is already running" \notin Local!NotFound
  BY DEF Local!NotFound
<1>2. ASSUME a \in Local!NotFound
      PROVE  Local!ErrorFor(a).text = "container not found"
  BY <1>2, Zenon DEF Local!ErrorFor, Local!ContainerNotFound, Local!Err
<1>3. ASSUME a \notin Local!NotFound
      PROVE  Local!ErrorFor(a).text = a
  <2>1. Local!ErrorFor(a) = Local!Err("other", a)
    BY <1>3, Zenon DEF Local!ErrorFor
  <2> QED BY <2>1 DEF Local!Err
<1> QED BY <1>1, <1>2, <1>3, Zenon

LEMMA LocalAttachError ==
    ASSUME NEW a, NEW err, err = Local!AttachError(a)
    PROVE  /\ a = "ok" => err.is = "nil"
           /\ a # "ok" => err.is # "nil"
<1>1. CASE a = "network not found"
  <2>1. err = Local!Err("ErrNetworkNotFound", a)
    BY <1>1, Zenon DEF Local!AttachError
  <2>2. err.is = "ErrNetworkNotFound"
    BY <2>1, LocalErr, Zenon
  <2> QED BY <1>1, <2>2, Zenon
<1>2. CASE a # "network not found"
  <2>1. err = Local!ErrorFor(a)
    BY <1>2, Zenon DEF Local!AttachError
  <2> QED BY <2>1, LocalErrorFor, LocalNoError, Zenon
<1> QED BY <1>1, <1>2

\* The codes of the minion.
LEMMA MinionCodes ==
    ASSUME NEW a
    PROVE  /\ a = "ok" => Remote!ContainerCode(a) = "ok" /\ Remote!AttachCode(a) = "ok"
           /\ a # "ok" => /\ Remote!ContainerCode(a) # "ok" /\ Remote!ContainerCode(a) # "absent"
                          /\ Remote!AttachCode(a) # "ok" /\ Remote!AttachCode(a) # "absent"
<1>1. "ok" \notin Remote!SaysNotFound
  BY DEF Remote!SaysNotFound
<1>2. /\ a = "ok" => Remote!ContainerCode(a) = "ok"
      /\ a # "ok" => Remote!ContainerCode(a) # "ok" /\ Remote!ContainerCode(a) # "absent"
  BY Zenon DEF Remote!ContainerCode
<1>3. /\ a = "ok" => Remote!AttachCode(a) = "ok"
      /\ a # "ok" => Remote!AttachCode(a) # "ok" /\ Remote!AttachCode(a) # "absent"
  BY <1>1, Zenon DEF Remote!AttachCode
<1> QED BY <1>2, <1>3

----------------------------------------------------------------------------
(***************************************************************************)
(* The operations of docker.Client, one by one.                            *)
(***************************************************************************)
LEMMA PingAgrees ==
    ASSUME NEW q, q.op = "Ping", NEW a
    PROVE  SameAsk(q, a) /\ SameEnd(q, a)
<1> DEFINE args == <<>>
           err == IF a = "ok" THEN Local!NoError ELSE Local!Err("ErrConnectionFailed", a)
           code == IF a = "ok" THEN "ok" ELSE "connection_failed"
           arg == Local!None
           there == Remote!None
<1> HIDE DEF err, code
<1>1. LocalCall(q, a) = Local!Call("Ping", arg, err)
  BY DEF LocalCall, Local!Ping, err
<1>2. RemoteCall(q, a) = Remote!execMinion("ping", args, Remote!NoInput, a)
  BY DEF RemoteCall, Remote!Ping
<1>3. Remote!dispatch("ping", args, Remote!NoInput, a) = Remote!Reply("ServerVersion", there, code, a)
  BY DEF Remote!dispatch, Remote!pingCmd, code
<1>4. Known(arg, q) = Known(there, q)
  BY DEF Known, Local!None, Remote!None
<1>5. a = "ok" => err.is = "nil" /\ code = "ok"
  <2>1. a = "ok" => err = Local!NoError /\ code = "ok"
    BY Zenon DEF err, code
  <2> QED BY <2>1, LocalNoError, Zenon
<1>6. a # "ok" => err.is # "nil" /\ code # "ok" /\ code # "absent"
  <2>1. a # "ok" => code # "ok" /\ code # "absent"
    BY Zenon DEF code
  <2>2. a # "ok" => \/ err = Local!Err("ErrConnectionFailed", a)
    BY Zenon DEF err
  <2>3. a # "ok" => \/ err.is = "ErrConnectionFailed"
    BY <2>2 DEF Local!Err
  <2> QED BY <2>1, <2>3
<1>w. Remote!ShellArgs(args) = args
  BY NoArgument
<1> HIDE DEF args, arg, there
<1>7. SameAsk(q, a) /\ LocalCall(q, a).err = err /\ IsCode(RemoteCall(q, a).err, code, a)
  BY <1>1, <1>2, <1>3, <1>4, <1>w, AgreeOnRequest
<1> QED BY <1>5, <1>6, <1>7, AgreeOnError

\* The aliases of the networks are lost, the networks are not.
LEMMA CreateContainerAgrees ==
    ASSUME NEW q, q.op = "CreateContainer", NEW a
    PROVE  SameAsk(q, a) /\ SameEnd(q, a)
<1> DEFINE spec == q.spec
           err == CASE a = "ok" -> Local!NoError
                    [] a = "Conflict" -> Local!Err("ErrContainerAlreadyExists", "already exists")
                    [] a = "port is already allocated" -> Local!Err("ErrPortAlreadyAllocated", a)
                    [] OTHER -> Local!Err("other", a)
           code == CASE a = "ok" -> "ok"
                     [] a = "Conflict" -> "already_exists"
                     [] a = "port is already allocated" -> "port_conflict"
                     [] OTHER -> "internal"
           Cpus(cpu) == IF cpu > 0 THEN cpu * 1000 ELSE 0
           Memory(memory) == IF memory > 0 THEN memory ELSE 0
           Restart(restart) == IF restart.name # "" THEN <<restart>> ELSE <<>>
           networks == Local!ToSet(spec.networks)
           aliases == [n \in networks |-> IF n \in DOMAIN spec.aliases THEN spec.aliases[n] ELSE <<>>]
           noAliases == [n \in networks |-> <<>>]
           Request(endpoints) ==
               [config |-> spec.config, ports |-> Local!PortBindings(spec.ports),
                mounts |-> Local!Mounts(spec.volumes), nanoCPUs |-> Cpus(spec.cpu),
                memory |-> Memory(spec.memory), restart |-> Restart(spec.restart),
                health |-> spec.health, endpoints |-> endpoints]
           input == Remote!toMinionContainerSpec(spec)
<1> HIDE DEF err, code
<1>1. LocalCall(q, a) = Local!Call("ContainerCreate", Request(aliases), err)
  BY DEF LocalCall, Local!CreateContainer, Local!None, err
<1>2. RemoteCall(q, a) = Remote!execMinion("create-container", <<>>, input, a)
  BY DEF RemoteCall, Remote!CreateContainer
<1>3. Remote!dispatch("create-container", <<>>, input, a)
        = Remote!Reply("ContainerCreate", Request(noAliases), code, a)
  <2>1. Remote!dispatch("create-container", <<>>, input, a) = Remote!createContainerCmd(input, a)
    BY DEF Remote!dispatch
  <2>2. /\ input.config = spec.config /\ input.ports = spec.ports /\ input.volumes = spec.volumes
        /\ input.cpu = spec.cpu /\ input.memory = spec.memory /\ input.restart = spec.restart
        /\ input.health = spec.health /\ input.networks = spec.networks
    BY DEF Remote!toMinionContainerSpec
  <2>3. /\ Remote!PortBindings(spec.ports) = Local!PortBindings(spec.ports)
        /\ Remote!Mounts(spec.volumes) = Local!Mounts(spec.volumes)
        /\ Remote!ToSet(spec.networks) = networks
    BY SamePorts, SameMounts DEF Local!ToSet, Remote!ToSet
  <2> HIDE DEF input
  <2>4. Remote!createContainerCmd(input, a)
          = Remote!Reply("ContainerCreate",
              [config |-> input.config, ports |-> Remote!PortBindings(input.ports),
               mounts |-> Remote!Mounts(input.volumes), nanoCPUs |-> Cpus(input.cpu),
               memory |-> Memory(input.memory), restart |-> Restart(input.restart),
               health |-> input.health,
               endpoints |-> [n \in Remote!ToSet(input.networks) |-> <<>>]], code, a)
    BY Zenon DEF Remote!createContainerCmd, Remote!None, code
  <2> HIDE DEF networks, Cpus, Memory, Restart
  <2> QED BY <2>1, <2>2, <2>3, <2>4
<1>4. Known(Request(aliases), q) = Known(Request(noAliases), q)
  <2>1. DOMAIN aliases = networks /\ DOMAIN noAliases = networks
    OBVIOUS
  <2> HIDE DEF aliases, noAliases, networks, Cpus, Memory, Restart
  <2>2. \A e : Known(Request(e), q) = Request(DOMAIN e)
    BY DEF Known
  <2> QED BY <2>1, <2>2
<1>5. a = "ok" => err.is = "nil" /\ code = "ok"
  <2>1. a = "ok" => err = Local!NoError /\ code = "ok"
    BY Zenon DEF err, code
  <2> QED BY <2>1, LocalNoError, Zenon
<1>6. a # "ok" => err.is # "nil" /\ code # "ok" /\ code # "absent"
  <2>1. a # "ok" => code # "ok" /\ code # "absent"
    BY Zenon DEF code
  <2>2. a # "ok" => \/ err = Local!Err("ErrContainerAlreadyExists", "already exists")
                    \/ err = Local!Err("ErrPortAlreadyAllocated", a)
                    \/ err = Local!Err("other", a)
    BY Zenon DEF err
  <2>3. a # "ok" => \/ err.is = "ErrContainerAlreadyExists"
                    \/ err.is = "ErrPortAlreadyAllocated"
                    \/ err.is = "other"
    <3>1. Local!Err("ErrContainerAlreadyExists", "already exists").is = "ErrContainerAlreadyExists"
      BY Zenon DEF Local!Err
    <3>2. /\ Local!Err("ErrPortAlreadyAllocated", a).is = "ErrPortAlreadyAllocated"
          /\ Local!Err("other", a).is = "other"
      BY DEF Local!Err
    <3> QED BY <2>2, <3>1, <3>2, Zenon
  <2> QED BY <2>1, <2>3, Zenon
<1>w. Remote!ShellArgs(<<>>) = <<>>
  BY NoArgument
<1> HIDE DEF input, Request, aliases, noAliases
<1>7. SameAsk(q, a) /\ LocalCall(q, a).err = err /\ IsCode(RemoteCall(q, a).err, code, a)
  BY <1>1, <1>2, <1>3, <1>4, <1>w, AgreeOnRequest
<1> QED BY <1>5, <1>6, <1>7, AgreeOnError

LEMMA StartContainerAgrees ==
    ASSUME NEW q, q.op = "StartContainer", NEW a, PlainCall(q)
    PROVE  SameAsk(q, a) /\ SameEnd(q, a)
<1> DEFINE args == <<q.id>>
           err == IF a = "is already running" THEN Local!Err("ErrContainerAlreadyRunning", a)
                  ELSE Local!ErrorFor(a)
           code == IF a = "is already running" THEN "already_running" ELSE Remote!ContainerCode(a)
           arg == q.id
           there == q.id
<1> HIDE DEF err, code
<1>1. LocalCall(q, a) = Local!Call("ContainerStart", arg, err)
  BY DEF LocalCall, Local!StartContainer, err
<1>2. RemoteCall(q, a) = Remote!execMinion("start-container", args, Remote!NoInput, a)
  BY DEF RemoteCall, Remote!StartContainer
<1>3. Remote!dispatch("start-container", args, Remote!NoInput, a)
        = Remote!Reply("ContainerStart", there, code, a)
  BY DEF Remote!dispatch, Remote!startContainerCmd, code
<1>4. Known(arg, q) = Known(there, q)
  BY DEF Known
<1>5. a = "ok" => err.is = "nil" /\ code = "ok"
  <2>1. a = "ok" => err = Local!ErrorFor(a) /\ code = Remote!ContainerCode(a)
    BY Zenon DEF err, code
  <2> QED BY <2>1, LocalErrorFor, LocalNoError, MinionCodes
<1>6. a # "ok" => err.is # "nil" /\ code # "ok" /\ code # "absent"
                    /\ (err.text = "is already running" <=> a = "is already running")
  <2>1. CASE a = "is already running"
    <3>1. err = Local!Err("ErrContainerAlreadyRunning", a) /\ code # "ok" /\ code # "absent"
      BY <2>1, Zenon DEF err, code
    <3>2. err.is = "ErrContainerAlreadyRunning" /\ err.text = a
      BY <3>1 DEF Local!Err
    <3> QED BY <2>1, <3>1, <3>2, Zenon
  <2>2. CASE a # "is already running"
    <3>1. err = Local!ErrorFor(a) /\ code = Remote!ContainerCode(a)
      BY <2>2, Zenon DEF err, code
    <3>2. a # "ok" => err.is # "nil" /\ code # "ok" /\ code # "absent"
      BY <3>1, LocalErrorFor, MinionCodes
    <3> QED BY <3>1, <3>2, LocalErrorText, Zenon
  <2> QED BY <2>1, <2>2
<1>w. Remote!ShellArgs(args) = args
  <2>1. Remote!Plain(q.id)
    BY DEF PlainCall, Arguments
  <2> QED BY <2>1, OneArgument
<1> HIDE DEF args, arg, there
<1>7. SameAsk(q, a) /\ LocalCall(q, a).err = err /\ IsCode(RemoteCall(q, a).err, code, a)
  BY <1>1, <1>2, <1>3, <1>4, <1>w, AgreeOnRequest
<1>8. \A e : OrchestratorDoes(q.op, e)
              = IF e.is = "nil" \/ e.text = "is already running" THEN "goes on" ELSE "gives up"
  BY Zenon DEF OrchestratorDoes
<1>9. SameEnd(q, a)
  BY <1>5, <1>6, <1>7, <1>8, AgreeOnText, Zenon
<1> QED BY <1>7, <1>9

LEMMA StopContainerAgrees ==
    ASSUME NEW q, q.op = "StopContainer", NEW a, IsCall(q), PlainCall(q)
    PROVE  SameAsk(q, a) /\ SameEnd(q, a)
<1> DEFINE args == <<q.id>> \o (IF q.timeout = <<>> THEN <<>> ELSE <<FormatInt(q.timeout[1])>>)
           err == IF a = "is not running" THEN Local!Err("ErrContainerNotRunning", a)
                  ELSE Local!ErrorFor(a)
           code == IF a = "is not running" THEN "not_running" ELSE Remote!ContainerCode(a)
           arg == [id |-> q.id,
                   seconds |-> IF q.timeout = <<>> THEN <<>> ELSE <<q.timeout[1] \div 1000>>]
           there == [id |-> q.id,
                     seconds |-> IF Len(args) > 1 /\ Atoi(args[2]) # <<>>
                                 THEN <<Atoi(args[2])[1] \div 1000>> ELSE <<>>]
<1> HIDE DEF err, code
<1>1. LocalCall(q, a) = Local!Call("ContainerStop", arg, err)
  BY DEF LocalCall, Local!StopContainer, err, Local!None
<1>2. RemoteCall(q, a) = Remote!execMinion("stop-container", args, Remote!NoInput, a)
  BY DEF RemoteCall, Remote!StopContainer, Remote!None
<1>3. Remote!dispatch("stop-container", args, Remote!NoInput, a)
        = Remote!Reply("ContainerStop", there, code, a)
  <2>2. ~(Len(args) < 1) /\ args[1] = q.id
    OBVIOUS
  <2> HIDE DEF args
  <2>3. Remote!dispatch("stop-container", args, Remote!NoInput, a) = Remote!stopContainerCmd(args, a)
    BY DEF Remote!dispatch
  <2> DEFINE seconds == IF Len(args) > 1 /\ Atoi(args[2]) # <<>>
                        THEN <<Atoi(args[2])[1] \div 1000>> ELSE <<>>
  <2>4. Remote!stopContainerCmd(args, a)
          = IF Len(args) < 1 THEN Remote!InvalidInput
            ELSE Remote!Reply("ContainerStop", [id |-> args[1], seconds |-> seconds], code, a)
    BY Zenon DEF Remote!stopContainerCmd, Remote!None, code
  <2> HIDE DEF seconds
  <2>5. Remote!stopContainerCmd(args, a)
          = Remote!Reply("ContainerStop", [id |-> q.id, seconds |-> seconds], code, a)
    BY <2>2, <2>4
  <2> QED BY <2>3, <2>5, Zenon DEF seconds
<1>4. Known(arg, q) = Known(there, q)
  <2>1. CASE q.timeout = <<>>
    BY <2>1 DEF Known
  <2>2. CASE q.timeout # <<>>
    <3>1. Len(args) > 1 /\ args[2] = FormatInt(q.timeout[1]) /\ 1 \in DOMAIN q.timeout
      BY <2>2 DEF IsCall
    <3>2. Atoi(args[2]) = <<q.timeout[1]>>
      BY <3>1 DEF IsCall
    <3> HIDE DEF args
    <3>3. there = arg
      BY <2>2, <3>1, <3>2
    <3> QED BY <3>3
  <2> QED BY <2>1, <2>2
<1>5. a = "ok" => err.is = "nil" /\ code = "ok"
  <2>1. a = "ok" => err = Local!ErrorFor(a) /\ code = Remote!ContainerCode(a)
    BY Zenon DEF err, code
  <2> QED BY <2>1, LocalErrorFor, LocalNoError, MinionCodes
<1>6. a # "ok" => err.is # "nil" /\ code # "ok" /\ code # "absent"
  <2>1. CASE a = "is not running"
    <3>1. err = Local!Err("ErrContainerNotRunning", a) /\ code # "ok" /\ code # "absent"
      BY <2>1, Zenon DEF err, code
    <3>2. err.is = "ErrContainerNotRunning" /\ err.text = a
      BY <3>1 DEF Local!Err
    <3> QED BY <2>1, <3>1, <3>2, Zenon
  <2>2. CASE a # "is not running"
    <3>1. err = Local!ErrorFor(a) /\ code = Remote!ContainerCode(a)
      BY <2>2, Zenon DEF err, code
    <3>2. a # "ok" => err.is # "nil" /\ code # "ok" /\ code # "absent"
      BY <3>1, LocalErrorFor, MinionCodes
    <3> QED BY <3>1, <3>2, Zenon
  <2> QED BY <2>1, <2>2
<1>w. Remote!ShellArgs(args) = args
  <2>1. Remote!Plain(q.id)
    BY DEF PlainCall, Arguments
  <2>2. CASE q.timeout = <<>>
    <3>1. args = <<q.id>>
      BY <2>2
    <3> QED BY <2>1, <3>1, OneArgument
  <2>3. CASE q.timeout # <<>>
    <3>1. args = <<q.id, FormatInt(q.timeout[1])>>
      BY <2>3, JoinOne, Zenon
    <3>2. Remote!Plain(FormatInt(q.timeout[1]))
      <4>1. q.timeout \in Seq(Nat) /\ q.timeout # <<>>
        BY <2>3 DEF IsCall
      <4>2. 1 \in DOMAIN q.timeout
        BY <4>1
      <4> QED BY <4>2 DEF IsCall
    <3> QED BY <2>1, <3>1, <3>2, TwoArguments
  <2> QED BY <2>2, <2>3
<1> HIDE DEF args, arg, there
<1>7. SameAsk(q, a) /\ LocalCall(q, a).err = err /\ IsCode(RemoteCall(q, a).err, code, a)
  BY <1>1, <1>2, <1>3, <1>4, <1>w, AgreeOnRequest
<1> QED BY <1>5, <1>6, <1>7, AgreeOnError

LEMMA RemoveContainerAgrees ==
    ASSUME NEW q, q.op = "RemoveContainer", NEW a, PlainCall(q)
    PROVE  SameAsk(q, a) /\ SameEnd(q, a)
<1> DEFINE args == <<q.id>>
           err == Local!ErrorFor(a)
           code == Remote!ContainerCode(a)
           arg == [id |-> q.id, force |-> q.opts.force, volumes |-> q.opts.volumes]
           there == [id |-> q.id, force |-> q.opts.force, volumes |-> q.opts.volumes]
<1> HIDE DEF err, code
<1>1. LocalCall(q, a) = Local!Call("ContainerRemove", arg, err)
  BY DEF LocalCall, Local!RemoveContainer, err
<1>2. RemoteCall(q, a)
        = Remote!execMinion("remove-container", args, [force |-> q.opts.force, volumes |-> q.opts.volumes], a)
  BY DEF RemoteCall, Remote!RemoveContainer
<1>3. Remote!dispatch("remove-container", args, [force |-> q.opts.force, volumes |-> q.opts.volumes], a)
        = Remote!Reply("ContainerRemove", there, code, a)
  BY DEF Remote!dispatch, Remote!removeContainerCmd, code
<1>4. Known(arg, q) = Known(there, q)
  BY DEF Known
<1>5. a = "ok" => err.is = "nil" /\ code = "ok"
  BY LocalErrorFor, LocalNoError, MinionCodes DEF err, code
<1>6. a # "ok" => err.is # "nil" /\ code # "ok" /\ code # "absent"
  BY LocalErrorFor, MinionCodes DEF err, code
<1>w. Remote!ShellArgs(args) = args
  <2>1. Remote!Plain(q.id)
    BY DEF PlainCall, Arguments
  <2> QED BY <2>1, OneArgument
<1> HIDE DEF args, arg, there
<1>7. SameAsk(q, a) /\ LocalCall(q, a).err = err /\ IsCode(RemoteCall(q, a).err, code, a)
  BY <1>1, <1>2, <1>3, <1>4, <1>w, AgreeOnRequest
<1> QED BY <1>5, <1>6, <1>7, AgreeOnError

LEMMA InspectContainerAgrees ==
    ASSUME NEW q, q.op = "InspectContainer", NEW a, PlainCall(q)
    PROVE  SameAsk(q, a) /\ SameEnd(q, a)
<1> DEFINE args == <<q.id>>
           err == Local!ErrorFor(a)
           code == Remote!ContainerCode(a)
           arg == q.id
           there == q.id
<1> HIDE DEF err, code
<1>1. LocalCall(q, a) = Local!Call("ContainerInspect", arg, err)
  BY DEF LocalCall, Local!InspectContainer, err
<1>2. RemoteCall(q, a) = Remote!execMinion("inspect-container", args, Remote!NoInput, a)
  BY DEF RemoteCall, Remote!InspectContainer
<1>3. Remote!dispatch("inspect-container", args, Remote!NoInput, a)
        = Remote!Reply("ContainerInspect", there, code, a)
  BY DEF Remote!dispatch, Remote!inspectContainerCmd, code
<1>4. Known(arg, q) = Known(there, q)
  BY DEF Known
<1>5. a = "ok" => err.is = "nil" /\ code = "ok"
  BY LocalErrorFor, LocalNoError, MinionCodes DEF err, code
<1>6. a # "ok" => err.is # "nil" /\ code # "ok" /\ code # "absent"
  BY LocalErrorFor, MinionCodes DEF err, code
<1>w. Remote!ShellArgs(args) = args
  <2>1. Remote!Plain(q.id)
    BY DEF PlainCall, Arguments
  <2> QED BY <2>1, OneArgument
<1> HIDE DEF args, arg, there
<1>7. SameAsk(q, a) /\ LocalCall(q, a).err = err /\ IsCode(RemoteCall(q, a).err, code, a)
  BY <1>1, <1>2, <1>3, <1>4, <1>w, AgreeOnRequest
<1> QED BY <1>5, <1>6, <1>7, AgreeOnError

LEMMA ListContainersAgrees ==
    ASSUME NEW q, q.op = "ListContainers", NEW a
    PROVE  SameAsk(q, a) /\ SameEnd(q, a)
<1> DEFINE args == <<>>
           err == IF a = "ok" THEN Local!NoError ELSE Local!Err("other", a)
           code == IF a = "ok" THEN "ok" ELSE "internal"
           arg == [all |-> q.opts.all, filters |-> q.opts.filters]
           there == [all |-> q.opts.all, filters |-> q.opts.filters]
<1> HIDE DEF err, code
<1>1. LocalCall(q, a) = Local!Call("ContainerList", arg, err)
  BY DEF LocalCall, Local!ListContainers, err
<1>2. RemoteCall(q, a)
        = Remote!execMinion("list-containers", args, [all |-> q.opts.all, filters |-> q.opts.filters], a)
  BY DEF RemoteCall, Remote!ListContainers
<1>3. Remote!dispatch("list-containers", args, [all |-> q.opts.all, filters |-> q.opts.filters], a)
        = Remote!Reply("ContainerList", there, code, a)
  BY DEF Remote!dispatch, Remote!listContainersCmd, code
<1>4. Known(arg, q) = Known(there, q)
  BY DEF Known
<1>5. a = "ok" => err.is = "nil" /\ code = "ok"
  <2>1. a = "ok" => err = Local!NoError /\ code = "ok"
    BY Zenon DEF err, code
  <2> QED BY <2>1, LocalNoError, Zenon
<1>6. a # "ok" => err.is # "nil" /\ code # "ok" /\ code # "absent"
  <2>1. a # "ok" => code # "ok" /\ code # "absent"
    BY Zenon DEF code
  <2>2. a # "ok" => \/ err = Local!Err("other", a)
    BY Zenon DEF err
  <2>3. a # "ok" => \/ err.is = "other"
    BY <2>2 DEF Local!Err
  <2> QED BY <2>1, <2>3
<1>w. Remote!ShellArgs(args) = args
  BY NoArgument
<1> HIDE DEF args, arg, there
<1>7. SameAsk(q, a) /\ LocalCall(q, a).err = err /\ IsCode(RemoteCall(q, a).err, code, a)
  BY <1>1, <1>2, <1>3, <1>4, <1>w, AgreeOnRequest
<1> QED BY <1>5, <1>6, <1>7, AgreeOnError

LEMMA ContainerLogsAgrees ==
    ASSUME NEW q, q.op = "ContainerLogs", NEW a, PlainCall(q)
    PROVE  SameAsk(q, a) /\ SameEnd(q, a)
<1> DEFINE Shown(tail) == IF tail = "" THEN "100" ELSE tail
           args == <<q.id>>
           err == Local!ErrorFor(a)
           code == Remote!ContainerCode(a)
           arg == [id |-> q.id, follow |-> q.opts.follow,
                   tail |-> q.opts.tail, since |-> q.opts.since]
           there == [id |-> q.id, follow |-> FALSE,
                     since |-> q.opts.since, tail |-> Shown(q.opts.tail)]
<1> HIDE DEF err, code
<1>1. LocalCall(q, a) = Local!Call("ContainerLogs", arg, err)
  BY DEF LocalCall, Local!ContainerLogs, err
<1>2. RemoteCall(q, a)
        = Remote!execMinion("container-logs", args, [tail |-> q.opts.tail, since |-> q.opts.since], a)
  BY DEF RemoteCall, Remote!ContainerLogs
<1>3. Remote!dispatch("container-logs", args, [tail |-> q.opts.tail, since |-> q.opts.since], a)
        = Remote!Reply("ContainerLogs", there, code, a)
  BY DEF Remote!dispatch, Remote!containerLogsCmd, code
<1>4. Known(arg, q) = Known(there, q)
  <2> DEFINE t == Shown(q.opts.tail)
             no == FALSE
             Logs(follow, tail) == [id |-> q.id, follow |-> follow, tail |-> tail,
                                    since |-> q.opts.since]
  <2>1. Shown(t) = t
    BY Zenon
  <2>2. \A r : Known(r, q) = [[r EXCEPT !.follow = no] EXCEPT !.tail = Shown(r.tail)]
    BY Zenon DEF Known
  <2>3. \A f, x, g : [Logs(f, x) EXCEPT !.follow = g] = Logs(g, x)
    OBVIOUS
  <2>4. \A f, x, y : [Logs(f, x) EXCEPT !.tail = y] = Logs(f, y)
    OBVIOUS
  <2>5. \A f, x : Logs(f, x).tail = x
    OBVIOUS
  <2>6. arg = Logs(q.opts.follow, q.opts.tail) /\ there = Logs(no, t)
    OBVIOUS
  <2> HIDE DEF arg, there, Logs, Shown, no, t
  <2>7. ASSUME NEW f, NEW x PROVE Known(Logs(f, x), q) = Logs(no, Shown(x))
    <3>1. Known(Logs(f, x), q)
            = [[Logs(f, x) EXCEPT !.follow = no] EXCEPT !.tail = Shown(Logs(f, x).tail)]
      BY <2>2, Zenon
    <3>2. [Logs(f, x) EXCEPT !.follow = no] = Logs(no, x) /\ Logs(f, x).tail = x
      BY <2>3, <2>5, Zenon
    <3>3. [Logs(no, x) EXCEPT !.tail = Shown(x)] = Logs(no, Shown(x))
      BY <2>4, Zenon
    <3> QED BY <3>1, <3>2, <3>3, Zenon
  <2>8. Known(arg, q) = Logs(no, Shown(q.opts.tail))
    BY <2>6, <2>7, Zenon
  <2>9. Known(there, q) = Logs(no, Shown(t))
    BY <2>6, <2>7, Zenon
  <2> QED BY <2>1, <2>8, <2>9, Zenon DEF t
<1>5. a = "ok" => err.is = "nil" /\ code = "ok"
  BY LocalErrorFor, LocalNoError, MinionCodes DEF err, code
<1>6. a # "ok" => err.is # "nil" /\ code # "ok" /\ code # "absent"
  BY LocalErrorFor, MinionCodes DEF err, code
<1>w. Remote!ShellArgs(args) = args
  <2>1. Remote!Plain(q.id)
    BY DEF PlainCall, Arguments
  <2> QED BY <2>1, OneArgument
<1> HIDE DEF args, arg, there
<1>7. SameAsk(q, a) /\ LocalCall(q, a).err = err /\ IsCode(RemoteCall(q, a).err, code, a)
  BY <1>1, <1>2, <1>3, <1>4, <1>w, AgreeOnRequest
<1> QED BY <1>5, <1>6, <1>7, AgreeOnError

LEMMA ContainerStatsAgrees ==
    ASSUME NEW q, q.op = "ContainerStats", NEW a, PlainCall(q)
    PROVE  SameAsk(q, a) /\ SameEnd(q, a)
<1> DEFINE args == <<q.id>>
           err == Local!ErrorFor(a)
           code == Remote!ContainerCode(a)
           arg == q.id
           there == q.id
<1> HIDE DEF err, code
<1>1. LocalCall(q, a) = Local!Call("ContainerStats", arg, err)
  BY DEF LocalCall, Local!ContainerStats, err
<1>2. RemoteCall(q, a) = Remote!execMinion("container-stats", args, Remote!NoInput, a)
  BY DEF RemoteCall, Remote!ContainerStats
<1>3. Remote!dispatch("container-stats", args, Remote!NoInput, a)
        = Remote!Reply("ContainerStats", there, code, a)
  BY DEF Remote!dispatch, Remote!containerStatsCmd, code
<1>4. Known(arg, q) = Known(there, q)
  BY DEF Known
<1>5. a = "ok" => err.is = "nil" /\ code = "ok"
  BY LocalErrorFor, LocalNoError, MinionCodes DEF err, code
<1>6. a # "ok" => err.is # "nil" /\ code # "ok" /\ code # "absent"
  BY LocalErrorFor, MinionCodes DEF err, code
<1>w. Remote!ShellArgs(args) = args
  <2>1. Remote!Plain(q.id)
    BY DEF PlainCall, Arguments
  <2> QED BY <2>1, OneArgument
<1> HIDE DEF args, arg, there
<1>7. SameAsk(q, a) /\ LocalCall(q, a).err = err /\ IsCode(RemoteCall(q, a).err, code, a)
  BY <1>1, <1>2, <1>3, <1>4, <1>w, AgreeOnRequest
<1> QED BY <1>5, <1>6, <1>7, AgreeOnError

LEMMA CreateNetworkAgrees ==
    ASSUME NEW q, q.op = "CreateNetwork", NEW a
    PROVE  SameAsk(q, a) /\ SameEnd(q, a)
<1> DEFINE args == <<>>
           err == CASE a = "ok" -> Local!NoError
                    [] a = "already exists" -> Local!Err("ErrNetworkAlreadyExists", a)
                    [] OTHER -> Local!Err("other", a)
           code == CASE a = "ok" -> "ok"
                     [] a = "already exists" -> "already_exists"
                     [] OTHER -> "internal"
           arg == [name |-> q.spec.name,
                   driver |-> IF q.spec.driver = "" THEN "bridge" ELSE q.spec.driver]
           there == [name |-> q.spec.name,
                   driver |-> IF q.spec.driver = "" THEN "bridge" ELSE q.spec.driver]
<1> HIDE DEF err, code
<1>1. LocalCall(q, a) = Local!Call("NetworkCreate", arg, err)
  BY DEF LocalCall, Local!CreateNetwork, err
<1>2. RemoteCall(q, a) = Remote!execMinion("create-network", args, q.spec, a)
  BY DEF RemoteCall, Remote!CreateNetwork
<1>3. Remote!dispatch("create-network", args, q.spec, a)
        = Remote!Reply("NetworkCreate", there, code, a)
  BY DEF Remote!dispatch, Remote!createNetworkCmd, code
<1>4. Known(arg, q) = Known(there, q)
  BY DEF Known
<1>5. a = "ok" => err.is = "nil" /\ code = "ok"
  <2>1. a = "ok" => err = Local!NoError /\ code = "ok"
    BY Zenon DEF err, code
  <2> QED BY <2>1, LocalNoError, Zenon
<1>6. a # "ok" => err.is # "nil" /\ code # "ok" /\ code # "absent"
                    /\ (err.text = "already exists" <=> a = "already exists")
  <2>1. a # "ok" => code # "ok" /\ code # "absent"
    BY Zenon DEF code
  <2>2. a # "ok" => \/ err = Local!Err("ErrNetworkAlreadyExists", a)
                    \/ err = Local!Err("other", a)
    BY Zenon DEF err
  <2>3. a # "ok" => \/ err.is = "ErrNetworkAlreadyExists" /\ err.text = a
                    \/ err.is = "other" /\ err.text = a
    BY <2>2 DEF Local!Err
  <2> QED BY <2>1, <2>3, Zenon
<1>w. Remote!ShellArgs(args) = args
  BY NoArgument
<1> HIDE DEF args, arg, there
<1>7. SameAsk(q, a) /\ LocalCall(q, a).err = err /\ IsCode(RemoteCall(q, a).err, code, a)
  BY <1>1, <1>2, <1>3, <1>4, <1>w, AgreeOnRequest
<1>8. \A e : OrchestratorDoes(q.op, e)
              = IF e.is = "nil" \/ e.text = "already exists" THEN "goes on" ELSE "gives up"
  BY Zenon DEF OrchestratorDoes
<1>9. SameEnd(q, a)
  BY <1>5, <1>6, <1>7, <1>8, AgreeOnText, Zenon
<1> QED BY <1>7, <1>9

LEMMA RemoveNetworkAgrees ==
    ASSUME NEW q, q.op = "RemoveNetwork", NEW a, PlainCall(q)
    PROVE  SameAsk(q, a) /\ SameEnd(q, a)
<1> DEFINE phrase == "network not found"
           args == <<q.network>>
           err == CASE a = "ok" -> Local!NoError
                    [] a \in Local!NotFound -> Local!Err("ErrNetworkNotFound", phrase)
                    [] a = "has active endpoints" -> Local!Err("ErrNetworkInUse", a)
                    [] OTHER -> Local!Err("other", a)
           code == CASE a = "ok" -> "ok"
                     [] a \in Remote!SaysNotFound -> "not_found"
                     [] a = "has active endpoints" -> "in_use"
                     [] OTHER -> "internal"
           arg == q.network
           there == q.network
<1> HIDE DEF err, code, phrase
<1>1. LocalCall(q, a) = Local!Call("NetworkRemove", arg, err)
  BY DEF LocalCall, Local!RemoveNetwork, err, phrase
<1>2. RemoteCall(q, a) = Remote!execMinion("remove-network", args, Remote!NoInput, a)
  BY DEF RemoteCall, Remote!RemoveNetwork
<1>3. Remote!dispatch("remove-network", args, Remote!NoInput, a)
        = Remote!Reply("NetworkRemove", there, code, a)
  BY DEF Remote!dispatch, Remote!removeNetworkCmd, code
<1>4. Known(arg, q) = Known(there, q)
  BY DEF Known
<1>0. /\ "ok" \notin Local!NotFound /\ "ok" \notin Remote!SaysNotFound
      /\ "has active endpoints" \notin Local!NotFound /\ "has active endpoints" \notin Remote!SaysNotFound
  BY DEF Local!NotFound, Remote!SaysNotFound
<1>5. a = "ok" => err.is = "nil" /\ code = "ok"
  <2>1. a = "ok" => err = Local!NoError /\ code = "ok"
    BY <1>0, Zenon DEF err, code
  <2> QED BY <2>1, LocalNoError, Zenon
<1>6. a # "ok" => err.is # "nil" /\ code # "ok" /\ code # "absent"
  <2>1. a # "ok" => code # "ok" /\ code # "absent"
    BY <1>0, Zenon DEF code
  <2>2. a # "ok" => \/ err = Local!Err("ErrNetworkNotFound", phrase)
                    \/ err = Local!Err("ErrNetworkInUse", a)
                    \/ err = Local!Err("other", a)
    BY <1>0, Zenon DEF err
  <2>3. a # "ok" => \/ err.is = "ErrNetworkNotFound"
                    \/ err.is = "ErrNetworkInUse"
                    \/ err.is = "other"
    BY <2>2 DEF Local!Err
  <2> QED BY <2>1, <2>3
<1>w. Remote!ShellArgs(args) = args
  <2>1. Remote!Plain(q.network)
    BY DEF PlainCall, Arguments
  <2> QED BY <2>1, OneArgument
<1> HIDE DEF args, arg, there
<1>7. SameAsk(q, a) /\ LocalCall(q, a).err = err /\ IsCode(RemoteCall(q, a).err, code, a)
  BY <1>1, <1>2, <1>3, <1>4, <1>w, AgreeOnRequest
<1> QED BY <1>5, <1>6, <1>7, AgreeOnError

LEMMA ConnectNetworkAgrees ==
    ASSUME NEW q, q.op = "ConnectNetwork", NEW a, PlainCall(q)
    PROVE  SameAsk(q, a) /\ SameEnd(q, a)
<1> DEFINE args == <<q.network, q.id>>
           err == Local!AttachError(a)
           code == Remote!AttachCode(a)
           arg == <<q.network, q.id>>
           there == <<q.network, q.id>>
<1> HIDE DEF err, code
<1>1. LocalCall(q, a) = Local!Call("NetworkConnect", arg, err)
  BY DEF LocalCall, Local!ConnectNetwork, err
<1>2. RemoteCall(q, a) = Remote!execMinion("connect-network", args, Remote!NoInput, a)
  BY DEF RemoteCall, Remote!ConnectNetwork
<1>3. Remote!dispatch("connect-network", args, Remote!NoInput, a)
        = Remote!Reply("NetworkConnect", there, code, a)
  BY DEF Remote!dispatch, Remote!connectNetworkCmd, code
<1>4. Known(arg, q) = Known(there, q)
  BY DEF Known
<1>5. a = "ok" => err.is = "nil" /\ code = "ok"
  BY LocalAttachError, MinionCodes DEF err, code
<1>6. a # "ok" => err.is # "nil" /\ code # "ok" /\ code # "absent"
  BY LocalAttachError, MinionCodes DEF err, code
<1>w. Remote!ShellArgs(args) = args
  <2>1. Remote!Plain(q.network) /\ Remote!Plain(q.id)
    BY DEF PlainCall, Arguments
  <2> QED BY <2>1, TwoArguments
<1> HIDE DEF args, arg, there
<1>7. SameAsk(q, a) /\ LocalCall(q, a).err = err /\ IsCode(RemoteCall(q, a).err, code, a)
  BY <1>1, <1>2, <1>3, <1>4, <1>w, AgreeOnRequest
<1> QED BY <1>5, <1>6, <1>7, AgreeOnError

LEMMA DisconnectNetworkAgrees ==
    ASSUME NEW q, q.op = "DisconnectNetwork", NEW a, IsCall(q), PlainCall(q)
    PROVE  SameAsk(q, a) /\ SameEnd(q, a)
<1> DEFINE force == "--force"
           args == <<q.network, q.id>> \o (IF q.force THEN <<force>> ELSE <<>>)
           err == Local!AttachError(a)
           code == Remote!AttachCode(a)
           arg == <<q.network, q.id, q.force>>
           there == <<q.network, q.id, Len(args) > 2 /\ args[3] = force>>
<1> HIDE DEF err, code, force
<1>1. LocalCall(q, a) = Local!Call("NetworkDisconnect", arg, err)
  BY DEF LocalCall, Local!DisconnectNetwork, err
<1>2. RemoteCall(q, a) = Remote!execMinion("disconnect-network", args, Remote!NoInput, a)
  BY DEF RemoteCall, Remote!DisconnectNetwork, force
<1>3. Remote!dispatch("disconnect-network", args, Remote!NoInput, a)
        = Remote!Reply("NetworkDisconnect", there, code, a)
  <2>1. q.force \in BOOLEAN
    BY DEF IsCall
  <2>2. ~(Len(args) < 2) /\ args[1] = q.network /\ args[2] = q.id
    BY <2>1
  <2> HIDE DEF args
  <2> QED BY <2>2, Zenon DEF Remote!dispatch, Remote!disconnectNetworkCmd, code, force
<1>4. Known(arg, q) = Known(there, q)
  BY DEF Known, IsCall
<1>5. a = "ok" => err.is = "nil" /\ code = "ok"
  BY LocalAttachError, MinionCodes DEF err, code
<1>6. a # "ok" => err.is # "nil" /\ code # "ok" /\ code # "absent"
  BY LocalAttachError, MinionCodes DEF err, code
<1>w. Remote!ShellArgs(args) = args
  <2>1. Remote!Plain(q.network) /\ Remote!Plain(q.id) /\ Remote!Plain(force)
    BY ForceAssumption DEF PlainCall, Arguments, force
  <2>2. CASE q.force
    <3>1. args = <<q.network, q.id, force>>
      BY <2>2, JoinTwo, Zenon
    <3> QED BY <2>1, <3>1, ThreeArguments
  <2>3. CASE ~q.force
    <3>1. args = <<q.network, q.id>>
      BY <2>3
    <3> QED BY <2>1, <3>1, TwoArguments
  <2> QED BY <2>2, <2>3
<1> HIDE DEF args, arg, there
<1>7. SameAsk(q, a) /\ LocalCall(q, a).err = err /\ IsCode(RemoteCall(q, a).err, code, a)
  BY <1>1, <1>2, <1>3, <1>4, <1>w, AgreeOnRequest
<1> QED BY <1>5, <1>6, <1>7, AgreeOnError

LEMMA CreateVolumeAgrees ==
    ASSUME NEW q, q.op = "CreateVolume", NEW a
    PROVE  SameAsk(q, a) /\ SameEnd(q, a)
<1> DEFINE args == <<>>
           err == IF a = "ok" THEN Local!NoError ELSE Local!Err("other", a)
           code == IF a = "ok" THEN "ok" ELSE "internal"
           arg == [name |-> q.spec.name,
                   driver |-> IF q.spec.driver = "" THEN "local" ELSE q.spec.driver]
           there == [name |-> q.spec.name,
                   driver |-> IF q.spec.driver = "" THEN "local" ELSE q.spec.driver]
<1> HIDE DEF err, code
<1>1. LocalCall(q, a) = Local!Call("VolumeCreate", arg, err)
  BY DEF LocalCall, Local!CreateVolume, err
<1>2. RemoteCall(q, a) = Remote!execMinion("create-volume", args, q.spec, a)
  BY DEF RemoteCall, Remote!CreateVolume
<1>3. Remote!dispatch("create-volume", args, q.spec, a)
        = Remote!Reply("VolumeCreate", there, code, a)
  BY DEF Remote!dispatch, Remote!createVolumeCmd, code
<1>4. Known(arg, q) = Known(there, q)
  BY DEF Known
<1>5. a = "ok" => err.is = "nil" /\ code = "ok"
  <2>1. a = "ok" => err = Local!NoError /\ code = "ok"
    BY Zenon DEF err, code
  <2> QED BY <2>1, LocalNoError, Zenon
<1>6. a # "ok" => err.is # "nil" /\ code # "ok" /\ code # "absent"
                    /\ (err.text = "already exists" <=> a = "already exists")
  <2>1. a # "ok" => code # "ok" /\ code # "absent"
    BY Zenon DEF code
  <2>2. a # "ok" => \/ err = Local!Err("other", a)
    BY Zenon DEF err
  <2>3. a # "ok" => \/ err.is = "other" /\ err.text = a
    BY <2>2 DEF Local!Err
  <2> QED BY <2>1, <2>3, Zenon
<1>w. Remote!ShellArgs(args) = args
  BY NoArgument
<1> HIDE DEF args, arg, there
<1>7. SameAsk(q, a) /\ LocalCall(q, a).err = err /\ IsCode(RemoteCall(q, a).err, code, a)
  BY <1>1, <1>2, <1>3, <1>4, <1>w, AgreeOnRequest
<1>8. \A e : OrchestratorDoes(q.op, e)
              = IF e.is = "nil" \/ e.text = "already exists" THEN "goes on" ELSE "gives up"
  BY Zenon DEF OrchestratorDoes
<1>9. SameEnd(q, a)
  BY <1>5, <1>6, <1>7, <1>8, AgreeOnText, Zenon
<1> QED BY <1>7, <1>9

LEMMA RemoveVolumeAgrees ==
    ASSUME NEW q, q.op = "RemoveVolume", NEW a, IsCall(q), PlainCall(q)
    PROVE  SameAsk(q, a) /\ SameEnd(q, a)
<1> DEFINE phrase == "volume not found"
           force == "--force"
           args == <<q.volume>> \o (IF q.force THEN <<force>> ELSE <<>>)
           err == CASE a = "ok" -> Local!NoError
                    [] a \in Local!NotFound -> Local!Err("ErrVolumeNotFound", phrase)
                    [] a = "in use" -> Local!Err("ErrVolumeInUse", a)
                    [] OTHER -> Local!Err("other", a)
           code == CASE a = "ok" -> "ok"
                     [] a \in Remote!SaysNotFound -> "not_found"
                     [] a = "in use" -> "in_use"
                     [] OTHER -> "internal"
           arg == <<q.volume, q.force>>
           there == <<q.volume, Len(args) > 1 /\ args[2] = force>>
<1> HIDE DEF err, code, phrase, force
<1>1. LocalCall(q, a) = Local!Call("VolumeRemove", arg, err)
  BY DEF LocalCall, Local!RemoveVolume, err, phrase
<1>2. RemoteCall(q, a) = Remote!execMinion("remove-volume", args, Remote!NoInput, a)
  BY DEF RemoteCall, Remote!RemoveVolume, force
<1>3. Remote!dispatch("remove-volume", args, Remote!NoInput, a)
        = Remote!Reply("VolumeRemove", there, code, a)
  <2>1. q.force \in BOOLEAN
    BY DEF IsCall
  <2>2. ~(Len(args) < 1) /\ args[1] = q.volume
    BY <2>1
  <2> HIDE DEF args
  <2> QED BY <2>2, Zenon DEF Remote!dispatch, Remote!removeVolumeCmd, code, force
<1>4. Known(arg, q) = Known(there, q)
  BY DEF Known, IsCall
<1>0. /\ "ok" \notin Local!NotFound /\ "ok" \notin Remote!SaysNotFound
      /\ "in use" \notin Local!NotFound /\ "in use" \notin Remote!SaysNotFound
  BY DEF Local!NotFound, Remote!SaysNotFound
<1>5. a = "ok" => err.is = "nil" /\ code = "ok"
  <2>1. a = "ok" => err = Local!NoError /\ code = "ok"
    BY <1>0, Zenon DEF err, code
  <2> QED BY <2>1, LocalNoError, Zenon
<1>6. a # "ok" => err.is # "nil" /\ code # "ok" /\ code # "absent"
  <2>1. a # "ok" => code # "ok" /\ code # "absent"
    BY <1>0, Zenon DEF code
  <2>2. a # "ok" => \/ err = Local!Err("ErrVolumeNotFound", phrase)
                    \/ err = Local!Err("ErrVolumeInUse", a)
                    \/ err = Local!Err("other", a)
    BY <1>0, Zenon DEF err
  <2>3. a # "ok" => \/ err.is = "ErrVolumeNotFound"
                    \/ err.is = "ErrVolumeInUse"
                    \/ err.is = "other"
    BY <2>2 DEF Local!Err
  <2> QED BY <2>1, <2>3
<1>w. Remote!ShellArgs(args) = args
  <2>1. Remote!Plain(q.volume) /\ Remote!Plain(force)
    BY ForceAssumption DEF PlainCall, Arguments, force
  <2>2. CASE q.force
    <3>1. args = <<q.volume, force>>
      BY <2>2, JoinOne, Zenon
    <3> QED BY <2>1, <3>1, TwoArguments
  <2>3. CASE ~q.force
    <3>1. args = <<q.volume>>
      BY <2>3
    <3> QED BY <2>1, <3>1, OneArgument
  <2> QED BY <2>2, <2>3
<1> HIDE DEF args, arg, there
<1>7. SameAsk(q, a) /\ LocalCall(q, a).err = err /\ IsCode(RemoteCall(q, a).err, code, a)
  BY <1>1, <1>2, <1>3, <1>4, <1>w, AgreeOnRequest
<1> QED BY <1>5, <1>6, <1>7, AgreeOnError

LEMMA PullImageAgrees ==
    ASSUME NEW q, q.op = "PullImage", NEW a, PlainCall(q)
    PROVE  SameAsk(q, a) /\ SameEnd(q, a)
<1> DEFINE phrase == "image not found"
           empty == ""
           missing == Local!SaysNotFound \cup {"manifest unknown", "repository does not exist",
                                                    "pull access denied"}
           unknown == Remote!SaysNotFound \cup {"manifest unknown"}
           args == <<q.image>> \o (IF q.opts.platform # empty THEN <<q.opts.platform>> ELSE <<>>)
           err == CASE a = "ok" -> Local!NoError
                    [] a \in missing -> Local!Err("ErrImageNotFound", phrase)
                    [] OTHER -> Local!Err("ErrImagePullFailed", a)
           code == CASE a \in {"ok", Remote!BrokenStream} -> "ok"
                     [] a \in unknown -> "not_found"
                     [] OTHER -> "pull_failed"
           arg == [image |-> q.image, platform |-> q.opts.platform]
           there == [image |-> q.image, platform |-> IF Len(args) > 1 THEN args[2] ELSE empty]
<1> HIDE DEF err, code, phrase, empty, missing, unknown
<1>1. LocalCall(q, a) = Local!Call("ImagePull", arg, err)
  BY DEF LocalCall, Local!PullImage, err, phrase, missing
<1>2. RemoteCall(q, a) = Remote!execMinion("pull-image", args, Remote!NoInput, a)
  BY DEF RemoteCall, Remote!PullImage, empty
<1>3. Remote!dispatch("pull-image", args, Remote!NoInput, a)
        = Remote!Reply("ImagePull", there, code, a)
  <2>1. ~(Len(args) < 1) /\ args[1] = q.image
    OBVIOUS
  <2> HIDE DEF args
  <2> QED BY <2>1, Zenon DEF Remote!dispatch, Remote!pullImageCmd, code, empty, unknown
<1>4. Known(arg, q) = Known(there, q)
  BY DEF Known
<1>0. /\ "ok" \notin missing /\ "ok" \notin unknown
      /\ Remote!BrokenStream \notin unknown /\ Remote!BrokenStream = BrokenStream
  BY DEF missing, unknown, Local!SaysNotFound, Remote!SaysNotFound, BrokenStream, Remote!BrokenStream
<1>5. a # BrokenStream => (a = "ok" => err.is = "nil" /\ code = "ok")
  <2>1. a # BrokenStream => (a = "ok" => err = Local!NoError /\ code = "ok")
    BY <1>0, Zenon DEF err, code
  <2> QED BY <2>1, LocalNoError, Zenon
<1>6. a # BrokenStream => (a # "ok" => err.is # "nil" /\ code # "ok" /\ code # "absent")
  <2>1. a # BrokenStream => (a # "ok" => code # "ok" /\ code # "absent")
    BY <1>0, Zenon DEF code
  <2>2. a # "ok" => \/ err = Local!Err("ErrImageNotFound", phrase)
                    \/ err = Local!Err("ErrImagePullFailed", a)
    BY <1>0, Zenon DEF err
  <2>3. a # "ok" => \/ err.is = "ErrImageNotFound"
                    \/ err.is = "ErrImagePullFailed"
    BY <2>2 DEF Local!Err
  <2> QED BY <2>1, <2>3
<1>w. Remote!ShellArgs(args) = args
  <2>1. Remote!Plain(q.image) /\ (q.opts.platform # empty => Remote!Plain(q.opts.platform))
    BY DEF PlainCall, Arguments, empty
  <2>2. CASE q.opts.platform # empty
    <3>1. args = <<q.image, q.opts.platform>>
      BY <2>2, JoinOne, Zenon
    <3> QED BY <2>1, <2>2, <3>1, TwoArguments
  <2>3. CASE q.opts.platform = empty
    <3>1. args = <<q.image>>
      BY <2>3
    <3> QED BY <2>1, <3>1, OneArgument
  <2> QED BY <2>2, <2>3
<1> HIDE DEF args, arg, there
<1>7. SameAsk(q, a) /\ LocalCall(q, a).err = err /\ IsCode(RemoteCall(q, a).err, code, a)
  BY <1>1, <1>2, <1>3, <1>4, <1>w, AgreeOnRequest
<1> QED BY <1>5, <1>6, <1>7, AgreeOnError

\* An image that is not there is pulled, whichever way the daemon says so.
LEMMA ImageExistsAgrees ==
    ASSUME NEW q, q.op = "ImageExists", NEW a, PlainCall(q)
    PROVE  SameAsk(q, a) /\ SameEnd(q, a)
<1> DEFINE args == <<q.image>>
           err == CASE a = "ok" -> Local!NoError [] a \in Local!NotFound -> Local!Absent
                    [] OTHER -> Local!Err("other", a)
           code == CASE a = "ok" -> "ok" [] a = "No such image" -> "absent" [] OTHER -> "internal"
<1> HIDE DEF err, code
<1>1. LocalCall(q, a) = Local!Call("ImageInspect", q.image, err)
  BY DEF LocalCall, Local!ImageExists, err
<1>2. RemoteCall(q, a) = Remote!execMinion("image-exists", args, Remote!NoInput, a)
  BY DEF RemoteCall, Remote!ImageExists
<1>3. Remote!dispatch("image-exists", args, Remote!NoInput, a)
        = Remote!Reply("ImageInspect", q.image, code, a)
  <2>1. Remote!dispatch("image-exists", args, Remote!NoInput, a) = Remote!imageExistsCmd(args, a)
    BY DEF Remote!dispatch
  <2>2. ~(Len(args) < 1) /\ args[1] = q.image
    OBVIOUS
  <2> HIDE DEF args
  <2>3. Remote!imageExistsCmd(args, a) = Remote!Reply("ImageInspect", q.image, code, a)
    BY <2>2, Zenon DEF Remote!imageExistsCmd, code
  <2> QED BY <2>1, <2>3
<1>w. Remote!ShellArgs(args) = args
  <2>1. Remote!Plain(q.image)
    BY DEF PlainCall, Arguments
  <2> QED BY <2>1, OneArgument
<1> HIDE DEF args
<1>4. SameAsk(q, a) /\ LocalCall(q, a).err = err /\ IsCode(RemoteCall(q, a).err, code, a)
  BY <1>1, <1>2, <1>3, <1>w, AgreeOnRequest
<1>5. NoError.is = "nil" /\ NoError.text = "" /\ Absent.text = "absent"
  BY Zenon DEF NoError, Absent
<1>6. /\ a = "ok" => err = NoError /\ code = "ok"
      /\ a # "ok" => err # NoError /\ code # "ok"
  <2>1. "ok" \notin Local!NotFound
    BY DEF Local!NotFound
  <2>2. Local!NoError = NoError /\ Local!Absent = Absent
    BY Zenon DEF Local!NoError, NoError, Local!Absent, Absent
  <2>3. a = "ok" => err = NoError /\ code = "ok"
    BY <2>1, <2>2, Zenon DEF err, code
  <2>4. a # "ok" => (err = Absent \/ err = Local!Err("other", a)) /\ code # "ok"
    BY <2>2, Zenon DEF err, code
  <2>5. Local!Err("other", a).is = "other"
    BY DEF Local!Err
  <2>6. Absent # NoError /\ Local!Err("other", a) # NoError
    BY <1>5, <2>5, Zenon
  <2> QED BY <2>3, <2>4, <2>6, Zenon
<1>7. /\ a = "ok" => RemoteCall(q, a).err = NoError
      /\ a # "ok" => RemoteCall(q, a).err # NoError
  BY <1>4, <1>5, <1>6, Zenon DEF IsCode
<1>8. \A e : OrchestratorDoes(q.op, e) = IF e = NoError THEN "goes on" ELSE "pulls"
  BY Zenon DEF OrchestratorDoes
<1>9. SameEnd(q, a)
  BY <1>4, <1>6, <1>7, <1>8, Zenon DEF SameEnd
<1> QED BY <1>4, <1>9

LEMMA CallsAgree ==
    ASSUME NEW q, IsCall(q), PlainCall(q), NEW a
    PROVE  SameAsk(q, a) /\ SameEnd(q, a)
BY PingAgrees, CreateContainerAgrees, StartContainerAgrees, StopContainerAgrees,
   RemoveContainerAgrees, InspectContainerAgrees, ListContainersAgrees, ContainerLogsAgrees,
   ContainerStatsAgrees, CreateNetworkAgrees, RemoveNetworkAgrees, ConnectNetworkAgrees,
   DisconnectNetworkAgrees, CreateVolumeAgrees, RemoveVolumeAgrees, PullImageAgrees,
   ImageExistsAgrees
   DEF IsCall

\* The minion on a node asks its daemon for what DockerClient asks the local
\* one, for every call of docker.Client but Ping, whatever its parameters, if
\* the names on the unquoted command line (execMinion) are plain words.
THEOREM ClientsAskTheSame ==
    ASSUME asked.kind = "call" => IsCall(asked.q.call)
    PROVE  SameRequest
BY CallsAgree DEF SameRequest, SameAsk

\* Whatever text a daemon answers with (a pull that breaks off aside), the
\* orchestrator goes on, pulls or gives up in the same way with both clients.
THEOREM ClientsEndTheSame ==
    ASSUME asked.kind = "call" => IsCall(asked.q.call)
    PROVE  SameDecision
BY CallsAgree DEF SameDecision, SameEnd

----------------------------------------------------------------------------
(***************************************************************************)
(* What the clients say of a container.                                    *)
(***************************************************************************)
LEMMA SameInspect ==
    ASSUME NEW resp
    PROVE  Local!InspectInfo(resp) = Remote!InspectInfo(resp)
<1> DEFINE Time(t) == IF t \in {"", "zero"} THEN <<>> ELSE <<t>>
           Bound(b) == IF b.host # <<>> THEN b.host[1] ELSE 0
           Port(p, b) == [port |-> p.port, proto |-> p.proto, ip |-> b.ip, host |-> Bound(b)]
           ports == UNION {{Port(p, b) : b \in p.bindings} : p \in resp.ports}
           health == IF resp.health = <<>> THEN "" ELSE resp.health[1]
           info == [name |-> resp.name, about |-> resp.about, status |-> resp.status,
                    state |-> resp.status, health |-> health, startedAt |-> Time(resp.startedAt),
                    finishedAt |-> Time(resp.finishedAt), ports |-> ports, exitCode |-> resp.exitCode]
           sent == Remote!convertContainerInspect(resp)
<1>1. Local!PortsOf(resp.ports) = ports
  BY DEF Local!PortsOf, Local!None
<1>2. health = IF resp.health # <<>> THEN resp.health[1] ELSE ""
  BY Zenon
<1>3. \A t : /\ Time(t) = Local!TimeOf(t)
             /\ Time(t) = IF Remote!HasCome(t) THEN <<t>> ELSE <<>>
  BY Zenon DEF Local!TimeOf, Local!None, Remote!HasCome
<1> HIDE DEF Time, health
<1>4. Local!InspectInfo(resp) = info
  <2>1. health = IF resp.health = <<>> THEN "" ELSE resp.health[1]
    BY Zenon DEF health
  <2> HIDE DEF ports
  <2> QED BY <1>1, <1>3, <2>1, Zenon DEF Local!InspectInfo, Local!None
<1>5. sent = info
  <2>1. ports = UNION {{[port |-> p.port, proto |-> p.proto, ip |-> b.ip,
                         host |-> IF b.host # <<>> THEN b.host[1] ELSE 0] : b \in p.bindings} :
                          p \in resp.ports}
    OBVIOUS
  <2> HIDE DEF ports
  <2> QED BY <1>2, <1>3, <2>1, Zenon DEF Remote!convertContainerInspect, Remote!None
<1>6. {[port |-> p.port, host |-> p.host, proto |-> p.proto, ip |-> p.ip] : p \in ports} = ports
  <2>1. ASSUME NEW p \in ports
        PROVE  [port |-> p.port, host |-> p.host, proto |-> p.proto, ip |-> p.ip] = p
    <3>1. PICK r \in resp.ports : \E b \in r.bindings : p = Port(r, b)
      BY <2>1
    <3>2. PICK b \in r.bindings : p = Port(r, b)
      BY <3>1
    <3> HIDE DEF Bound
    <3> QED BY <3>2
  <2> HIDE DEF ports
  <2> QED BY <2>1
<1>7. Remote!fromMinionContainerInfo(info) = info
  <2> HIDE DEF ports
  <2> QED BY <1>6 DEF Remote!fromMinionContainerInfo
<1> HIDE DEF info, sent
<1> QED BY <1>4, <1>5, <1>7 DEF Remote!InspectInfo, sent

LEMMA SameListing ==
    ASSUME NEW c, IsListed(c)
    PROVE  Local!ListInfo(c) = Remote!ListInfo(c)
<1> DEFINE Port(p) == [port |-> p.private, host |-> p.public, proto |-> p.type, ip |-> p.ip]
           ports == {Port(p) : p \in c.ports}
           name == IF c.names = <<>> THEN "" ELSE c.names[1]
           none == ""
           info == [name |-> name, about |-> c.about, status |-> c.state, state |-> c.state,
                    health |-> none, startedAt |-> <<>>, finishedAt |-> <<>>, exitCode |-> 0,
                    ports |-> ports]
           sent == Remote!convertListed(c)
<1>1. c.names = <<>> <=> ~(Len(c.names) > 0)
  BY DEF IsListed
<1>2. name = IF Len(c.names) > 0 THEN c.names[1] ELSE ""
  BY <1>1, Zenon
<1>3. Local!ListInfo(c) = info
  BY Zenon DEF Local!ListInfo, Local!None
<1>4. sent = info
  <2> HIDE DEF name
  <2> QED BY <1>2, Zenon DEF Remote!convertListed, Remote!None
<1> HIDE DEF name, none
<1>5. {[port |-> p.port, host |-> p.host, proto |-> p.proto, ip |-> p.ip] : p \in ports} = ports
  <2>1. ASSUME NEW p \in ports
        PROVE  [port |-> p.port, host |-> p.host, proto |-> p.proto, ip |-> p.ip] = p
    <3>1. PICK r \in c.ports : p = Port(r)
      BY <2>1
    <3> QED BY <3>1
  <2> HIDE DEF ports
  <2> QED BY <2>1
<1>6. Remote!fromMinionContainerInfo(info) = info
  <2> HIDE DEF ports
  <2> QED BY <1>5 DEF Remote!fromMinionContainerInfo
<1> HIDE DEF info, sent
<1> QED BY <1>3, <1>4, <1>6 DEF Remote!ListInfo, sent

LEMMA SameStats ==
    ASSUME NEW s, IsCount(s)
    PROVE  Local!Stats(s) = Remote!Stats(s)
<1>1. s.online # 0
  BY DEF IsCount
<1> QED BY <1>1, SameTotal DEF Local!Stats, Remote!Stats, Remote!calculateStats, Remote!CPUCount,
          Local!calculateCPUPercent, Local!Minus

\* Whatever a daemon says of a container, its place in a list or its counters
\* (wrapped around or not), both clients hand the same on to the caller.
THEOREM ClientsTellTheSame ==
    ASSUME asked.kind = "list" => IsListed(asked.q), asked.kind = "stats" => IsCount(asked.q)
    PROVE  SameInfo
BY SameInspect, SameListing, SameStats DEF SameInfo

----------------------------------------------------------------------------
\* TopologicalSort loses no service of a compose file and repeats none, and
\* puts each after all it depends on unless a cycle is below it.
THEOREM SortIsAlwaysTopological ==
    ASSUME asked.kind = "graph" => IsGraph(asked.q)
    PROVE  SortIsTopological
BY OrdersSort, NamesAssumption DEF SortIsTopological, IsGraph
=============================================================================
