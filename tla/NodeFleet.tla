----------------------------- MODULE NodeFleet -----------------------------
(***************************************************************************)
(* The nodes as the control plane sees them: the column status of the      *)
(* table nodes, written by the health checker (engine/workers.go) and by   *)
(* the owner (engine/setup.go), and the pool of SSH clients that the       *)
(* checker and the deployments' command handlers share                     *)
(* (shell/docker/node_pool.go, ssh_client.go).                             *)
(*                                                                         *)
(* A client is opened lazily: NewSSHDockerClient only keeps the address it *)
(* is given, connect dials when a command is run.  The client's mutex is   *)
(* released between connect and NewSession, and the pool's lock between    *)
(* PingNode's look into the map and its write, so these are steps of their *)
(* own.                                                                    *)
(***************************************************************************)
EXTENDS Integers, FiniteSets

CONSTANTS
    Node,       \* rows of the table nodes
    Addr,       \* ssh_host values
    NoAddr,     \* none of them
    Flaky,      \* bound: the addresses that may stop answering
    Req,        \* command handlers (start, stop, delete...) that may overlap
    Checker,    \* the goroutine of the health checker
    MaxClient,  \* bound: SSHDockerClient values alive at a time
    MaxCrash,   \* bound: how often the process crashes
    Faults      \* which of "upload", "patch", "erase" may occur

CheckLimit == 1000    \* Page{Limit: 1000} of checkAll

ASSUME FleetAssumption ==
    /\ IsFiniteSet(Node) /\ Cardinality(Node) <= CheckLimit
    /\ Checker \notin Req /\ NoAddr \notin Addr /\ Flaky \subseteq Addr
    /\ MaxClient \in Nat \ {0} /\ MaxCrash \in Nat
    /\ Faults \subseteq {"upload", "patch", "erase"}

Actor == Req \cup {Checker}
Client == 1 .. MaxClient
NoClient == 0

(***************************************************************************)
(* An SSHDockerClient: the address it was made with (field node), its      *)
(* sshClient (nil, open, or dead at the far end), whether its sync.Once    *)
(* minionEnsured is used up, and whether its mutex was left locked.        *)
(***************************************************************************)
Unused == [addr |-> NoAddr, conn |-> "nil", ensured |-> FALSE, locked |-> FALSE]

VARIABLES
    status,   \* nodes.status, "gone" once the row is deleted
    host,     \* nodes.ssh_host
    key,      \* the nodes with an ssh_key_id whose key can be decrypted
    pool,     \* NodePool.clients
    client,   \* the SSHDockerClient values
    up,       \* the addresses that answer
    minion,   \* the addresses that have a minion binary
    at,       \* what an actor does next
    has,      \* the client it does it with
    fresh,    \* PingNode made that client itself
    todo,     \* the nodes checkAll still has to check in this cycle
    target,   \* the node it is checking
    crashes,  \* how often the process crashed
    wanted,   \* what the owner of a node last asked for
    late      \* it was asked for while a cycle had the node on its list

table == <<status, host, key>>
world == <<up, minion>>
actors == <<at, has, fresh>>
cycle == <<todo, target>>
history == <<wanted, late>>
vars == <<table, pool, client, world, actors, cycle, crashes, history>>

\* The clients some actor or the pool holds, or whose connection is open: an
\* ssh.Client has goroutines on its connection and is not collected.
Held == {c \in Client : (\E n \in Node : pool[n] = c) \/ (\E a \in Actor : has[a] = c)}

Alive == Held \cup {c \in Client : client[c].conn = "open"}

Init ==
    /\ status \in [Node -> {"online", "offline"}]
    /\ host \in [Node -> Addr] /\ key \in SUBSET Node
    /\ pool = [n \in Node |-> NoClient]
    /\ client = [c \in Client |-> Unused]
    /\ up = Addr /\ minion = {}
    /\ at = [a \in Actor |-> "idle"]
    /\ has = [a \in Actor |-> NoClient]
    /\ fresh = FALSE
    /\ todo = {} /\ target \in Node
    /\ crashes = 0
    /\ wanted = [n \in Node |-> "service"]
    /\ late = [n \in Node |-> FALSE]

(***************************************************************************)
(* NewSSHDockerClient, after GetNode, GetSSHKey and DecryptSSHKey: client  *)
(* c, any that is not in use, is made for node n.                          *)
(***************************************************************************)
NewSSHDockerClient(c, n) ==
    /\ n \in key /\ c \notin Alive
    /\ \A b \in 1 .. c - 1 : b \in Alive
    /\ client' = [client EXCEPT ![c] = [Unused EXCEPT !.addr = host[n]]]

Go(a, label, c) ==
    /\ at' = [at EXCEPT ![a] = label]
    /\ has' = [has EXCEPT ![a] = c]

-----------------------------------------------------------------------------
(***************************************************************************)
(* HealthChecker.checkAll: one List, then one node after the other.        *)
(***************************************************************************)
\* Mutant: the nodes in maintenance are checked like the others.
ListedEvenInMaintenance(n) == status[n] # "gone"

Listed(n) == status[n] \notin {"gone", "maintenance"}

CheckAll ==
    /\ at[Checker] = "idle" /\ todo = {}
    /\ todo' = {n \in Node : Listed(n)}
    /\ UNCHANGED <<table, pool, client, world, actors, target, crashes, history>>

\* Mutant: PingNode asks for an available node, as GetClient does.
PingableAvailable(n) == status[n] = "online"

Pingable(n) == status[n] # "gone"

\* Mutant: PingNode does not look for a cached client.
CachedNever(n) == NoClient

Cached(n) == pool[n]

\* NodePool.PingNode up to the ping.
PingNode(n) ==
    /\ at[Checker] = "idle" /\ n \in todo
    /\ todo' = todo \ {n} /\ target' = n
    /\ \/ /\ Cached(n) # NoClient
          /\ Go(Checker, "connect", Cached(n)) /\ fresh' = FALSE
          /\ UNCHANGED client
       \/ /\ Cached(n) = NoClient /\ Pingable(n)
          /\ \E c \in Client :
                /\ NewSSHDockerClient(c, n)
                /\ Go(Checker, "connect", c) /\ fresh' = TRUE
       \/ /\ Cached(n) = NoClient /\ (~Pingable(n) \/ n \notin key)
          /\ Go(Checker, "offline", NoClient) /\ fresh' = FALSE
          /\ UNCHANGED client
    /\ UNCHANGED <<table, pool, world, crashes, history>>

\* The write at the end of checkAll's loop; on a deleted row it fails and
\* the error is dropped.
RecordHealth ==
    /\ at[Checker] \in {"online", "offline"}
    /\ status' = [status EXCEPT ![target] =
                     IF @ = "gone" THEN @ ELSE at[Checker]]
    /\ Go(Checker, "idle", NoClient)
    /\ UNCHANGED <<host, key, pool, client, world, fresh, cycle, crashes, history>>

-----------------------------------------------------------------------------
(***************************************************************************)
(* NodePool.GetClient, for a command handler of a deployment: all of it    *)
(* after the double check runs under the write lock.                       *)
(***************************************************************************)
GetClient(r, n) ==
    /\ at[r] = "idle"
    /\ \/ /\ pool[n] # NoClient
          /\ Go(r, "connect", pool[n])
          /\ UNCHANGED <<pool, client>>
       \/ /\ pool[n] = NoClient /\ status[n] = "online"
          /\ \E c \in Client :
                /\ NewSSHDockerClient(c, n)
                /\ pool' = [pool EXCEPT ![n] = c]
                /\ Go(r, "connect", c)
    /\ UNCHANGED <<table, world, fresh, cycle, crashes, history>>

\* The handler runs no further command (scheduleDeployment runs none).
Release(r) ==
    /\ at[r] = "connect"
    /\ Go(r, "idle", NoClient)
    /\ UNCHANGED <<table, pool, client, world, fresh, cycle, crashes, history>>

-----------------------------------------------------------------------------
(***************************************************************************)
(* SSHDockerClient.execMinion: connect, once per client AutoEnsureMinion,  *)
(* then a session that runs the command.                                   *)
(***************************************************************************)
\* What follows a command that failed, and one that was answered.  PingNode
\* closes a client it has just made when the ping fails, and puts it into
\* the map when it succeeds.
Fails(a, ssh) ==
    /\ Go(a, IF a = Checker THEN "offline" ELSE "connect",
             IF a = Checker THEN NoClient ELSE has[a])
    /\ client' = [client EXCEPT ![has[a]] =
                     IF a = Checker /\ fresh THEN Unused ELSE [@ EXCEPT !.conn = ssh]]
    /\ UNCHANGED pool

Answers(a) ==
    /\ Go(a, IF a = Checker THEN "online" ELSE "connect",
             IF a = Checker THEN NoClient ELSE has[a])
    /\ pool' = IF a = Checker /\ fresh
               THEN [pool EXCEPT ![target] = has[a]] ELSE pool
    /\ UNCHANGED client

\* connect: a live connection is kept, a dead one is closed and dialled
\* anew; a dial that fails leaves sshClient nil.
Connect(a) ==
    LET c == has[a] IN
    /\ at[a] = "connect" /\ ~client[c].locked
    /\ \/ /\ client[c].conn = "open" \/ client[c].addr \in up
          /\ client' = [client EXCEPT ![c].conn = "open"]
          /\ Go(a, IF client[c].ensured THEN "session" ELSE "ensure", c)
          /\ UNCHANGED pool
       \/ /\ client[c].conn # "open" /\ client[c].addr \notin up
          /\ Fails(a, "nil")
    /\ UNCHANGED <<table, world, fresh, cycle, crashes, history>>

\* minionEnsured.Do(AutoEnsureMinion), which connects again and uploads the
\* binary: the sync.Once is used up whatever comes of it, and the error is
\* dropped.  An actor that waited for another one's Do has nothing to do.
EnsureMinion(a) ==
    LET c == has[a]
        reaches == client[c].conn = "open" \/ client[c].addr \in up
    IN
    /\ at[a] = "ensure" /\ ~client[c].locked
    /\ \/ /\ client[c].ensured
          /\ UNCHANGED <<client, minion>>
       \/ /\ ~client[c].ensured /\ reaches
          /\ client' = [client EXCEPT ![c].ensured = TRUE, ![c].conn = "open"]
          /\ \/ minion' = minion \cup {client[c].addr}
             \/ "upload" \in Faults /\ UNCHANGED minion
       \/ /\ ~client[c].ensured /\ ~reaches
          /\ client' = [client EXCEPT ![c].ensured = TRUE, ![c].conn = "nil"]
          /\ UNCHANGED minion
    /\ Go(a, "session", c)
    /\ UNCHANGED <<table, pool, up, fresh, cycle, crashes, history>>

\* The process is gone: by a crash, or by the panic of a goroutine nothing
\* recovers.  It comes up with an empty pool; its connections are closed.
ProcessDies ==
    /\ pool' = [n \in Node |-> NoClient]
    /\ client' = [c \in Client |-> Unused]
    /\ at' = [a \in Actor |-> "idle"]
    /\ has' = [a \in Actor |-> NoClient]
    /\ todo' = {} /\ fresh' = FALSE
    /\ UNCHANGED <<table, world, target, history>>

\* c.sshClient.NewSession and session.Run.
RunCommand(a) ==
    LET c == has[a] IN
    /\ at[a] = "session" /\ ~client[c].locked /\ client[c].conn # "nil"
    /\ \/ client[c].conn = "open" /\ client[c].addr \in minion /\ Answers(a)
       \/ /\ client[c].conn = "dead" \/ client[c].addr \notin minion
          /\ Fails(a, client[c].conn)
    /\ UNCHANGED <<table, world, fresh, cycle, crashes, history>>

\* NewSession on nil panics.  The checker and the commands of start and stop
\* run in goroutines of their own: the process dies.  The other commands run
\* in their HTTP request, where recoveryMiddleware goes on; the mutex that
\* was locked around NewSession, without a defer, stays locked.
Panic(a) ==
    LET c == has[a] IN
    /\ at[a] = "session" /\ ~client[c].locked /\ client[c].conn = "nil"
    /\ \/ ProcessDies
       \/ /\ a \in Req
          /\ client' = [client EXCEPT ![c].locked = TRUE]
          /\ Go(a, "idle", NoClient)
          /\ UNCHANGED <<table, pool, world, fresh, cycle, history>>
    /\ UNCHANGED crashes

Crash ==
    /\ crashes < MaxCrash /\ crashes' = crashes + 1
    /\ ProcessDies

-----------------------------------------------------------------------------
(***************************************************************************)
(* The owner: nodeMaintenanceHandler, and the generic PATCH and DELETE of  *)
(* a node.  Nobody tells the pool about them: RemoveClient and             *)
(* RefreshClient have no caller.                                           *)
(***************************************************************************)
Busy(n) == n \in todo \/ (at[Checker] # "idle" /\ target = n)

Maintenance(n, on) ==
    /\ status[n] # "gone"
    /\ status' = [status EXCEPT ![n] = IF on THEN "maintenance" ELSE "online"]
    /\ wanted' = [wanted EXCEPT ![n] = IF on THEN "maintenance" ELSE "service"]
    /\ late' = [late EXCEPT ![n] = on /\ Busy(n)]
    /\ UNCHANGED <<host, key, pool, client, world, actors, cycle, crashes>>

Patch(n, a) ==
    /\ "patch" \in Faults /\ status[n] # "gone"
    /\ host' = [host EXCEPT ![n] = a]
    /\ UNCHANGED <<status, key, pool, client, world, actors, cycle, crashes, history>>

Erase(n) ==
    /\ "erase" \in Faults
    /\ status' = [status EXCEPT ![n] = "gone"]
    /\ UNCHANGED <<host, key, pool, client, world, actors, cycle, crashes, history>>

-----------------------------------------------------------------------------
(***************************************************************************)
(* The machines: an address stops answering, which kills the connections   *)
(* to it, and comes back.                                                  *)
(***************************************************************************)
GoesDown(x) ==
    /\ x \in Flaky \cap up
    /\ up' = up \ {x}
    /\ client' = [c \in Client |->
                     IF client[c].conn # "open" \/ client[c].addr # x THEN client[c]
                     ELSE IF c \in Held THEN [client[c] EXCEPT !.conn = "dead"]
                     ELSE Unused]
    /\ UNCHANGED <<table, pool, minion, actors, cycle, crashes, history>>

ComesUp(x) ==
    /\ x \notin up
    /\ up' = up \cup {x}
    /\ UNCHANGED <<table, pool, client, minion, actors, cycle, crashes, history>>

-----------------------------------------------------------------------------
Exec(a) == Connect(a) \/ EnsureMinion(a) \/ RunCommand(a) \/ Panic(a)

CheckerStep ==
    \/ CheckAll
    \/ \E n \in Node : PingNode(n)
    \/ RecordHealth
    \/ Exec(Checker)

Next ==
    \/ CheckerStep
    \/ \E r \in Req : Exec(r) \/ Release(r) \/ \E n \in Node : GetClient(r, n)
    \/ \E n \in Node, on \in BOOLEAN : Maintenance(n, on)
    \/ \E n \in Node, a \in Addr : Patch(n, a)
    \/ \E n \in Node : Erase(n)
    \/ \E x \in Flaky : GoesDown(x) \/ ComesUp(x)
    \/ Crash

\* The checker is a goroutine in a loop; every call it makes returns.
Fairness == WF_vars(CheckerStep)

Spec == Init /\ [][Next]_vars /\ Fairness

-----------------------------------------------------------------------------
(***************************************************************************)
(* Properties.                                                             *)
(***************************************************************************)
(***************************************************************************)
(* PingNode looks into the pool and writes to it under two separate locks, *)
(* and a connection it overwrites is never closed: the most that can be    *)
(* lost is one for each node, so a process holds at most two connections a *)
(* node, however long it runs.                                             *)
(***************************************************************************)
ConnectionsBounded ==
    Cardinality({c \in Client : client[c].conn = "open"}) <= 2 * Cardinality(Node)

(***************************************************************************)
(* The health checker leaves a node in maintenance alone, except in the    *)
(* one cycle whose list was read before the owner asked: only then can it  *)
(* put the node back into service behind the owner's back.                 *)
(***************************************************************************)
MaintenanceHolds ==
    \A n \in Node :
        wanted[n] = "maintenance" /\ ~late[n] => status[n] \in {"maintenance", "gone"}

(***************************************************************************)
(* workers.go: the "HealthChecker periodically checks node health via      *)
(* SSH": it always comes to the end of a node and goes on.                 *)
(***************************************************************************)
ChecksPeriodically == []<>(at[Checker] = "idle")

\* The address the checker talks to: a cached client keeps the one it was
\* made with.
Peer(n) == IF pool[n] = NoClient THEN host[n] ELSE client[pool[n]].addr

\* The checker does not wait for a mutex that nobody will unlock.
CheckerMoves == has[Checker] = NoClient \/ ~client[has[Checker]].locked

\* A ping of node n reaches address x and is answered.
Reachable(n, x) ==
    /\ Peer(n) = x /\ x \in up \cap minion
    /\ n \in key \/ pool[n] # NoClient

(***************************************************************************)
(* The status follows the machine.  A node outside maintenance that        *)
(* answers for good, at the address the pool has for it and with a minion, *)
(* ends up online and stays so; one that is unreachable for good is found  *)
(* offline again and again, whatever its owner writes.  This holds through *)
(* crashes, panics, failed uploads and a moved address, as long as the     *)
(* checker itself is not left waiting.                                     *)
(***************************************************************************)
InService(n) == status[n] \in {"online", "offline"}

StatusFollowsNode ==
    \A n \in Node, x \in Addr :
        /\ <>[](InService(n) /\ CheckerMoves /\ Reachable(n, x))
               => <>[](status[n] = "online")
        /\ <>[](InService(n) /\ CheckerMoves /\ Peer(n) = x /\ x \notin up)
               => []<>(status[n] = "offline")
=============================================================================
