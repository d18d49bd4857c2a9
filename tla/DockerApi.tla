------------------------------ MODULE DockerApi ------------------------------
(***************************************************************************)
(* What DockerClient (the daemon of the machine hoster runs on) and        *)
(* SSHDockerClient (the daemon of a node, through the minion) have in      *)
(* common.  Both implement docker.Client; a call is the request it makes   *)
(* to the API of a daemon and the error it makes of the daemon's answer.   *)
(* An answer is "ok" or the phrase the clients look for in its text.       *)
(***************************************************************************)
EXTENDS Integers, Sequences, SequencesExt

\* Answers with status 404 (client.IsErrNotFound).
NotFound == {"No such container", "No such image", "network not found", "image not found",
             "no such volume"}

Answer == NotFound \cup
    {"ok", "Conflict", "already exists", "port is already allocated", "is already running",
     "is not running", "has active endpoints", "in use", "manifest unknown",
     "repository does not exist", "pull access denied", "other"}

\* strings.Contains(err.Error(), "not found").
SaysNotFound == {"network not found", "image not found"}

\* A pull whose stream of progress messages breaks off after a good start.
BrokenStream == "broken stream"

NoError == [is |-> "nil", text |-> ""]
Absent == [is |-> "nil", text |-> "absent"]     \* ImageExists: no error, and no image
Err(is, text) == [is |-> is, text |-> text]

Call(api, arg, err) == [api |-> api, arg |-> arg, err |-> err]

\* Values that may be missing are sequences of at most one element.
None == <<>>

(***************************************************************************)
(* ContainerCreate: a later port of the compose file replaces an earlier   *)
(* one with the same container port, host port 0 leaves the choice to the  *)
(* daemon, a source that starts with "/" is a directory of the host.       *)
(***************************************************************************)
ContainerPort(p) == <<p.port, IF p.proto = "" THEN "tcp" ELSE p.proto>>

PortBindings(ports) ==
    [k \in {ContainerPort(ports[i]) : i \in DOMAIN ports} |->
        LET p == ports[CHOOSE i \in DOMAIN ports :
                          /\ ContainerPort(ports[i]) = k
                          /\ \A j \in i + 1 .. Len(ports) : ContainerPort(ports[j]) # k]
        IN  [ip |-> p.ip, port |-> IF p.host # 0 THEN <<p.host>> ELSE None]]

Mounts(volumes) ==
    [i \in DOMAIN volumes |->
        [type |-> IF volumes[i].absolute THEN "bind" ELSE "volume",
         source |-> volumes[i].source, readOnly |-> volumes[i].readOnly]]

\* The sum that a loop over networks or block devices adds up.
Total(values) ==
    LET upTo[i \in 0 .. Len(values)] == IF i = 0 THEN 0 ELSE upTo[i - 1] + values[i]
    IN  upTo[Len(values)]

(***************************************************************************)
(* What orchestrator.go makes of the end of a call: it goes on, pulls the  *)
(* image first, or gives up.                                               *)
(***************************************************************************)
OrchestratorDoes(op, err) ==
    CASE op = "CreateNetwork"  -> IF err.is = "nil" \/ err.text = "already exists" THEN "goes on" ELSE "gives up"
      [] op = "CreateVolume"   -> IF err.is = "nil" \/ err.text = "already exists" THEN "goes on" ELSE "gives up"
      [] op = "StartContainer" -> IF err.is = "nil" \/ err.text = "is already running" THEN "goes on" ELSE "gives up"
      [] op = "ImageExists"    -> IF err = NoError THEN "goes on" ELSE "pulls"
      [] OTHER                 -> IF err.is = "nil" THEN "goes on" ELSE "gives up"
=============================================================================
