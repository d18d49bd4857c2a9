---------------------------- MODULE FleetProofs ----------------------------
(***************************************************************************)
(* A node its owner put into maintenance stays there, for any set of       *)
(* nodes, requests and faults, unless a cycle of the health checker had it *)
(* on its list when the owner asked; and the process holds at most two     *)
(* connections a node, however many clients it makes.                      *)
(***************************************************************************)
EXTENDS NodeFleet, FiniteSetTheorems, TLAPS

Label == {"idle", "connect", "ensure", "session", "online", "offline"}

FleetTyped ==
    /\ status \in [Node -> {"online", "offline", "maintenance", "gone"}]
    /\ wanted \in [Node -> {"maintenance", "service"}]
    /\ late \in [Node -> BOOLEAN]
    /\ at \in [Actor -> Label]
    /\ todo \subseteq Node /\ target \in Node

(***************************************************************************)
(* The strengthening: the checker has no hand on such a node either.  It   *)
(* does not list it, so what it records later is about another node.       *)
(***************************************************************************)
Kept(n) == wanted[n] = "maintenance" /\ ~late[n]

LeftAlone == \A n \in Node : Kept(n) => status[n] \in {"maintenance", "gone"} /\ ~Busy(n)

FleetInv == FleetTyped /\ LeftAlone

\* In the initial state nobody has asked for maintenance.
LEMMA FleetInit ==
    Init => FleetInv
BY DEF Init, FleetInv, FleetTyped, LeftAlone, Kept, Label

\* Steps that write no status and put the checker on no node: what requests,
\* machines and the checker's own commands do.
LEMMA AsideKeeps ==
    ASSUME FleetInv, UNCHANGED <<status, wanted, late, target>>,
           todo' \subseteq todo, at' \in [Actor -> Label],
           at'[Checker] # "idle" => at[Checker] # "idle"
    PROVE  FleetInv'
<1>1. \A n \in Node : Busy(n)' => Busy(n)
  BY DEF Busy
<1> QED BY <1>1 DEF FleetInv, FleetTyped, LeftAlone, Kept

\* The steps of a command's execution leave a checker that is at work at work.
LEMMA GoKeeps ==
    ASSUME FleetInv, NEW a \in Actor, NEW l \in Label, NEW c, Go(a, l, c),
           l # "idle" => at[a] # "idle" \/ a # Checker,
           UNCHANGED <<status, wanted, late, target, todo>>
    PROVE  FleetInv'
<1>1. at' \in [Actor -> Label] /\ Checker \in Actor
  BY DEF Go, FleetInv, FleetTyped, Actor
<1>2. at'[Checker] # "idle" => at[Checker] # "idle"
  BY <1>1 DEF Go, FleetInv, FleetTyped
<1> QED BY <1>1, <1>2, AsideKeeps

LEMMA FailsKeeps ==
    ASSUME FleetInv, NEW a \in Actor, NEW ssh, Fails(a, ssh), at[a] # "idle",
           UNCHANGED <<status, wanted, late, target, todo>>
    PROVE  FleetInv'
<1>1. Go(a, "offline", NoClient) \/ Go(a, "connect", has[a])
  BY DEF Fails
<1> QED BY <1>1, GoKeeps DEF Label

LEMMA AnswersKeeps ==
    ASSUME FleetInv, NEW a \in Actor, Answers(a), at[a] # "idle",
           UNCHANGED <<status, wanted, late, target, todo>>
    PROVE  FleetInv'
<1>1. Go(a, "online", NoClient) \/ Go(a, "connect", has[a])
  BY DEF Answers
<1> QED BY <1>1, GoKeeps DEF Label

\* A process that dies forgets its cycle.
LEMMA DiesKeeps ==
    ASSUME FleetInv, ProcessDies
    PROVE  FleetInv'
<1>1. at' \in [Actor -> Label] /\ at'[Checker] = "idle" /\ todo' = {}
  BY DEF ProcessDies, Label, Actor
<1>2. UNCHANGED <<status, wanted, late, target>>
  BY DEF ProcessDies, table, history
<1> QED BY <1>1, <1>2, AsideKeeps

LEMMA ExecKeeps ==
    ASSUME FleetInv, NEW a \in Actor, Exec(a)
    PROVE  FleetInv'
<1>1. CASE Connect(a)
  <2>1. at[a] = "connect" /\ UNCHANGED <<status, wanted, late, target, todo>>
    BY <1>1 DEF Connect, table, history, cycle
  <2>2. \/ Go(a, "session", has[a]) \/ Go(a, "ensure", has[a])
        \/ Fails(a, "nil")
    BY <1>1 DEF Connect
  <2> QED BY <2>1, <2>2, GoKeeps, FailsKeeps DEF Label
<1>2. CASE EnsureMinion(a)
  <2>1. /\ at[a] = "ensure" /\ Go(a, "session", has[a])
        /\ UNCHANGED <<status, wanted, late, target, todo>>
    BY <1>2 DEF EnsureMinion, table, history, cycle
  <2> QED BY <2>1, GoKeeps DEF Label
<1>3. CASE RunCommand(a)
  <2>1. at[a] = "session" /\ UNCHANGED <<status, wanted, late, target, todo>>
    BY <1>3 DEF RunCommand, table, history, cycle
  <2>2. Answers(a) \/ Fails(a, client[has[a]].conn)
    BY <1>3 DEF RunCommand
  <2> QED BY <2>1, <2>2, AnswersKeeps, FailsKeeps
<1>4. CASE Panic(a)
  <2>1. CASE ProcessDies
    BY <2>1, DiesKeeps
  <2>2. CASE ~ProcessDies
    <3>1. /\ Go(a, "idle", NoClient)
          /\ UNCHANGED <<status, wanted, late, target, todo>>
      BY <1>4, <2>2 DEF Panic, table, history, cycle
    <3> QED BY <3>1, GoKeeps DEF Label
  <2> QED BY <2>1, <2>2
<1> QED BY <1>1, <1>2, <1>3, <1>4 DEF Exec

\* checkAll lists the nodes that are not in maintenance.
LEMMA CheckAllKeeps ==
    ASSUME FleetInv, CheckAll
    PROVE  FleetInv'
<1>1. /\ UNCHANGED <<status, wanted, late, target, at>> /\ at[Checker] = "idle"
      /\ todo' = {n \in Node : status[n] \notin {"gone", "maintenance"}}
  BY DEF CheckAll, Listed, table, history, actors
<1> QED BY <1>1 DEF FleetInv, FleetTyped, LeftAlone, Kept, Busy

\* PingNode turns to a node of that list.
LEMMA PingKeeps ==
    ASSUME FleetInv, NEW m \in Node, PingNode(m)
    PROVE  FleetInv'
<1>1. UNCHANGED <<status, wanted, late>> /\ m \in todo
      /\ todo' = todo \ {m} /\ target' = m
  BY DEF PingNode, table, history
<1>2. at' \in [Actor -> Label]
  BY DEF PingNode, Go, FleetInv, FleetTyped, Label
<1>3. \A n \in Node : Busy(n)' => Busy(n)
  BY <1>1 DEF Busy
<1> QED BY <1>1, <1>2, <1>3 DEF FleetInv, FleetTyped, LeftAlone, Kept

\* RecordHealth writes the status of the node the checker is on.
LEMMA RecordKeeps ==
    ASSUME FleetInv, RecordHealth
    PROVE  FleetInv'
<1>1. /\ UNCHANGED <<wanted, late, todo, target>> /\ at[Checker] \in {"online", "offline"}
      /\ at' = [at EXCEPT ![Checker] = "idle"]
  BY DEF RecordHealth, Go, cycle, history
<1>2. Checker \in Actor /\ at' \in [Actor -> Label] /\ at'[Checker] = "idle"
  BY <1>1 DEF Actor, FleetInv, FleetTyped, Label
<1>3. status' \in [Node -> {"online", "offline", "maintenance", "gone"}]
      /\ \A n \in Node \ {target} : status'[n] = status[n]
  BY <1>1 DEF RecordHealth, FleetInv, FleetTyped
<1>4. Busy(target) /\ \A n \in Node : Busy(n)' => Busy(n)
  BY <1>1, <1>2 DEF Busy
<1>5. \A n \in Node : Kept(n)' => Kept(n) /\ n # target
  BY <1>1, <1>4 DEF Kept, FleetInv, LeftAlone
<1> QED BY <1>1, <1>2, <1>3, <1>4, <1>5 DEF FleetInv, FleetTyped, LeftAlone

\* The owner asks: from then on the node is kept, unless a cycle has it.
LEMMA MaintenanceKeeps ==
    ASSUME FleetInv, NEW m \in Node, NEW on \in BOOLEAN, Maintenance(m, on)
    PROVE  FleetInv'
<1>1. UNCHANGED <<at, todo, target>>
  BY DEF Maintenance, actors, cycle
<1>2. \A n \in Node : Busy(n)' <=> Busy(n)
  BY <1>1 DEF Busy
<1>3. FleetTyped'
  BY <1>1 DEF Maintenance, FleetInv, FleetTyped, Busy
<1>4. ASSUME NEW n \in Node, Kept(n)'
      PROVE  status'[n] \in {"maintenance", "gone"} /\ ~Busy(n)
  <2>1. CASE n = m
    <3>1. wanted'[m] = (IF on THEN "maintenance" ELSE "service")
          /\ status'[m] = (IF on THEN "maintenance" ELSE "online")
          /\ late'[m] = (on /\ Busy(m))
      BY DEF Maintenance, FleetInv, FleetTyped
    <3> QED BY <1>4, <2>1, <3>1 DEF Kept
  <2>2. CASE n # m
    <3>1. wanted'[n] = wanted[n] /\ status'[n] = status[n] /\ late'[n] = late[n]
      BY <2>2 DEF Maintenance, FleetInv, FleetTyped
    <3> QED BY <1>4, <3>1 DEF Kept, FleetInv, LeftAlone
  <2> QED BY <2>1, <2>2
<1> QED BY <1>2, <1>3, <1>4 DEF FleetInv, LeftAlone

LEMMA EraseKeeps ==
    ASSUME FleetInv, NEW m \in Node, Erase(m)
    PROVE  FleetInv'
<1>1. UNCHANGED <<wanted, late, at, todo, target>>
      /\ status' = [status EXCEPT ![m] = "gone"]
  BY DEF Erase, actors, cycle, history
<1>2. \A n \in Node : (Busy(n)' <=> Busy(n)) /\ (Kept(n)' <=> Kept(n))
  BY <1>1 DEF Busy, Kept
<1> QED BY <1>1, <1>2 DEF FleetInv, FleetTyped, LeftAlone

LEMMA FleetStep ==
    ASSUME FleetInv, [Next]_vars
    PROVE  FleetInv'
<1> Checker \in Actor /\ Req \subseteq Actor
  BY DEF Actor
<1>1. CASE CheckerStep
  BY <1>1, CheckAllKeeps, PingKeeps, RecordKeeps, ExecKeeps DEF CheckerStep
<1>2. ASSUME NEW r \in Req, Exec(r) PROVE FleetInv'
  BY <1>2, ExecKeeps
<1>3. ASSUME NEW r \in Req, Release(r) PROVE FleetInv'
  <2>1. Go(r, "idle", NoClient) /\ UNCHANGED <<status, wanted, late, target, todo>>
    BY <1>3 DEF Release, table, history, cycle
  <2> QED BY <2>1, GoKeeps DEF Label
<1>4. ASSUME NEW r \in Req, NEW n \in Node, GetClient(r, n) PROVE FleetInv'
  <2>1. UNCHANGED <<status, wanted, late, target, todo>>
        /\ \E c \in Client \cup {pool[n]} : Go(r, "connect", c)
    BY <1>4 DEF GetClient, table, history, cycle
  <2> QED BY <2>1, GoKeeps, FleetAssumption DEF Label
<1>5. ASSUME NEW n \in Node, NEW on \in BOOLEAN, Maintenance(n, on) PROVE FleetInv'
  BY <1>5, MaintenanceKeeps
<1>6. ASSUME NEW n \in Node, NEW a \in Addr, Patch(n, a) PROVE FleetInv'
  <2>1. UNCHANGED <<status, wanted, late, target, todo, at>>
    BY <1>6 DEF Patch, actors, history, cycle
  <2> QED BY <2>1, AsideKeeps DEF FleetInv, FleetTyped
<1>7. ASSUME NEW n \in Node, Erase(n) PROVE FleetInv'
  BY <1>7, EraseKeeps
<1>8. ASSUME NEW x \in Flaky, GoesDown(x) \/ ComesUp(x) PROVE FleetInv'
  <2>1. UNCHANGED <<status, wanted, late, target, todo, at>>
    BY <1>8 DEF GoesDown, ComesUp, table, actors, history, cycle
  <2> QED BY <2>1, AsideKeeps DEF FleetInv, FleetTyped
<1>9. CASE Crash
  BY <1>9, DiesKeeps DEF Crash
<1>10. CASE UNCHANGED vars
  <2>1. UNCHANGED <<status, wanted, late, target, todo, at>>
    BY <1>10 DEF vars, table, actors, history, cycle
  <2> QED BY <2>1, AsideKeeps DEF FleetInv, FleetTyped
<1> QED
  BY <1>1, <1>2, <1>3, <1>4, <1>5, <1>6, <1>7, <1>8, <1>9, <1>10 DEF Next

(***************************************************************************)
(* A node in maintenance stays in maintenance (nodeMaintenanceHandler and  *)
(* checkAll), whatever requests, crashes and machines do, unless the       *)
(* checker had listed the node before the owner asked.                     *)
(***************************************************************************)
THEOREM MaintenanceAlwaysHolds == Spec => []MaintenanceHolds
<1>1. Init => FleetInv
  BY FleetInit
<1>2. FleetInv /\ [Next]_vars => FleetInv'
  BY FleetStep
<1>3. FleetInv => MaintenanceHolds
  BY DEF FleetInv, LeftAlone, Kept, MaintenanceHolds
<1> QED BY <1>1, <1>2, <1>3, PTL DEF Spec

-----------------------------------------------------------------------------
(***************************************************************************)
(* ConnectionsBounded.  A client that is alive and not in the pool is      *)
(* either the one PingNode has just made, or one that PingNode overwrote   *)
(* in the map.  It can do so once for a node: from then on the pool has a  *)
(* client for the node, until the process dies.  So such clients can be    *)
(* charged to nodes, no two to the same one.                               *)
(***************************************************************************)
Working == {"connect", "ensure", "session"}

SSHDockerClient == [addr : Addr \cup {NoAddr}, conn : {"nil", "open", "dead"},
                    ensured : BOOLEAN, locked : BOOLEAN]

ConnTyped ==
    /\ host \in [Node -> Addr]
    /\ pool \in [Node -> Client \cup {NoClient}]
    /\ client \in [Client -> SSHDockerClient]
    /\ has \in [Actor -> Client \cup {NoClient}]
    /\ fresh \in BOOLEAN
    /\ \A a \in Actor : at[a] \in Working <=> has[a] # NoClient

\* PingNode is at work with a client of its own.
Pinging == fresh /\ at[Checker] \in Working

Pooled == {c \in Client : \E n \in Node : pool[n] = c}
Unpooled == Alive \ Pooled

Apart == Pinging => has[Checker] \notin Pooled /\ \A r \in Req : has[r] # has[Checker]

\* g says to which node a client that is not in the pool is charged.
Charged(g) ==
    /\ \A b, c \in Unpooled : g[b] = g[c] => b = c
    /\ \A c \in Unpooled : (Pinging /\ c = has[Checker]) \/ pool[g[c]] # NoClient
    /\ Pinging => g[has[Checker]] = target

ConnInv ==
    /\ FleetInv /\ ConnTyped /\ Apart
    /\ \E g \in [Client -> Node] : Charged(g)

LEMMA ClientIsSome == NoClient \notin Client /\ Checker \in Actor /\ Checker \notin Req
BY FleetAssumption DEF Client, NoClient, Actor

LEMMA UnusedTyped ==
    /\ Unused \in SSHDockerClient /\ Unused.conn = "nil"
    /\ \A x \in Addr : [Unused EXCEPT !.addr = x] \in SSHDockerClient
    /\ \A x \in Addr : [Unused EXCEPT !.addr = x].conn = "nil"
BY DEF Unused, SSHDockerClient

\* At first there is no client.
LEMMA ConnInit == Init => ConnInv
<1> SUFFICES ASSUME Init PROVE ConnInv
  OBVIOUS
<1>1. FleetInv
  BY FleetInit
<1>2. ConnTyped
  BY UnusedTyped, ClientIsSome DEF Init, ConnTyped, Working
<1>3. ~Pinging
  BY DEF Init, Pinging
<1>4. Unpooled = {}
  <2>1. \A c \in Client : client[c].conn = "nil"
    BY UnusedTyped DEF Init
  <2> QED BY <2>1, ClientIsSome DEF Unpooled, Alive, Held, Init
<1>5. PICK n \in Node : TRUE
  BY DEF Init
<1>6. [c \in Client |-> n] \in [Client -> Node] /\ Charged([c \in Client |-> n])
  BY <1>3, <1>4, <1>5 DEF Charged
<1> QED BY <1>1, <1>2, <1>3, <1>6 DEF ConnInv, Apart

-----------------------------------------------------------------------------
\* A client that nobody held and that was not open does not come alive by
\* itself.
LEMMA AliveKept ==
    ASSUME pool' = pool,
           \A a \in Actor : has'[a] \in {has[a], NoClient} \cup Pooled,
           \A c \in Client : client'[c].conn = "open" => client[c].conn = "open" \/ c \in Held
    PROVE  Alive' \subseteq Alive
BY ClientIsSome DEF Alive, Held, Pooled

\* Steps that make no client and leave the pool alone.
LEMMA ConnKept ==
    ASSUME ConnInv, FleetInv', ConnTyped', pool' = pool, Alive' \subseteq Alive,
           Pinging' => Pinging /\ has'[Checker] = has[Checker] /\ target' = target,
           Pinging /\ ~Pinging' => has[Checker] \notin Alive',
           \A r \in Req : has'[r] \in {has[r], NoClient} \cup Pooled
    PROVE  ConnInv'
<1>1. PICK g \in [Client -> Node] : Charged(g)
  BY DEF ConnInv
<1>2. Pooled' = Pooled /\ Unpooled' \subseteq Unpooled
  BY DEF Pooled, Unpooled
<1>3. Pinging => has[Checker] # NoClient
  BY ClientIsSome DEF ConnInv, ConnTyped, Pinging
<1>4. Apart'
  BY <1>2, <1>3 DEF ConnInv, Apart
<1>5. Pinging /\ ~Pinging' => has[Checker] \notin Unpooled'
  BY DEF Unpooled
<1>6. /\ \A b, c \in Unpooled' : g[b] = g[c] => b = c
      /\ \A c \in Unpooled' : (Pinging' /\ c = has'[Checker]) \/ pool'[g[c]] # NoClient
      /\ Pinging' => g[has'[Checker]] = target'
  BY <1>1, <1>2, <1>5 DEF Charged
<1>7. Charged(g)'
  BY <1>6 DEF Charged
<1> QED BY <1>1, <1>4, <1>7 DEF ConnInv

\* Where an actor goes, and with which client.
LEMMA GoTyped ==
    ASSUME ConnInv, NEW a \in Actor, NEW l \in Label, NEW c \in Client \cup {NoClient},
           Go(a, l, c), l \in Working <=> c # NoClient,
           host' \in [Node -> Addr], pool' \in [Node -> Client \cup {NoClient}],
           client' \in [Client -> SSHDockerClient], fresh' \in BOOLEAN
    PROVE  /\ ConnTyped'
           /\ at'[a] = l /\ has'[a] = c
           /\ \A b \in Actor \ {a} : at'[b] = at[b] /\ has'[b] = has[b]
<1>1. at \in [Actor -> Label] /\ has \in [Actor -> Client \cup {NoClient}]
  BY DEF ConnInv, FleetInv, FleetTyped, ConnTyped
<1>2. /\ has' \in [Actor -> Client \cup {NoClient}]
      /\ at'[a] = l /\ has'[a] = c
      /\ \A b \in Actor \ {a} : at'[b] = at[b] /\ has'[b] = has[b]
  BY <1>1 DEF Go
<1>3. \A b \in Actor : at'[b] \in Working <=> has'[b] # NoClient
  BY <1>2 DEF ConnInv, ConnTyped
<1> QED BY <1>2, <1>3 DEF ConnTyped

-----------------------------------------------------------------------------
\* Steps of a command that go on with the client they have.
LEMMA GoesOnConn ==
    ASSUME ConnInv, FleetInv', NEW a \in Actor, at[a] \in Working, NEW l \in Working,
           Go(a, l, has[a]), UNCHANGED <<host, pool, fresh, target>>,
           client' \in [Client -> SSHDockerClient],
           \A c \in Client \ {has[a]} : client'[c] = client[c]
    PROVE  ConnInv'
<1>1. has[a] \in Client /\ has[a] # NoClient /\ l \in Label
  BY ClientIsSome DEF ConnInv, ConnTyped, Working, Label
<1>2. ConnTyped' /\ at'[a] = l /\ has'[a] = has[a]
      /\ \A b \in Actor \ {a} : at'[b] = at[b] /\ has'[b] = has[b]
  BY <1>1, GoTyped DEF ConnInv, ConnTyped
<1>3. Alive' \subseteq Alive
  <2>1. \A b \in Actor : has'[b] = has[b]
    BY <1>2
  <2>2. has[a] \in Held
    BY <1>1 DEF Held
  <2> QED BY <2>1, <2>2, AliveKept
<1>4. (Pinging' <=> Pinging) /\ has'[Checker] = has[Checker] /\ Req \subseteq Actor
  BY <1>2, ClientIsSome DEF Pinging, Actor
<1> QED BY <1>2, <1>3, <1>4, ConnKept

\* A command failed.
LEMMA FailsConn ==
    ASSUME ConnInv, FleetInv', NEW a \in Actor, at[a] \in Working,
           NEW ssh \in {"nil", client[has[a]].conn}, Fails(a, ssh),
           UNCHANGED <<host, fresh, target>>
    PROVE  ConnInv'
<1> DEFINE c == has[a]
<1>1. c \in Client /\ c # NoClient /\ client[c] \in SSHDockerClient /\ c \in Held
  BY ClientIsSome DEF ConnInv, ConnTyped, Held
<1>2. /\ client' = [client EXCEPT ![c] =
             IF a = Checker /\ fresh THEN Unused ELSE [client[c] EXCEPT !.conn = ssh]]
      /\ pool' = pool
  BY DEF Fails
<1>3. /\ [client[c] EXCEPT !.conn = ssh] \in SSHDockerClient
      /\ [client[c] EXCEPT !.conn = ssh].conn = ssh
  BY <1>1 DEF SSHDockerClient
<1>4. /\ client' \in [Client -> SSHDockerClient]
      /\ \A b \in Client \ {c} : client'[b] = client[b]
  BY <1>2, <1>3, UnusedTyped DEF ConnInv, ConnTyped
<1>5. \A b \in Client : client'[b].conn = "open" => client[b].conn = "open" \/ b \in Held
  BY <1>1, <1>4
<1>6. CASE a # Checker
  <2>1. Go(a, "connect", has[a])
    BY <1>6 DEF Fails
  <2> QED BY <1>2, <1>4, <2>1, GoesOnConn DEF Working
<1>7. CASE a = Checker
  <2>1. Go(Checker, "offline", NoClient)
    BY <1>7 DEF Fails
  <2>2. /\ ConnTyped' /\ at'[Checker] = "offline" /\ has'[Checker] = NoClient
        /\ \A b \in Actor \ {Checker} : has'[b] = has[b]
    BY <1>2, <1>4, <2>1, GoTyped, ClientIsSome DEF ConnInv, ConnTyped, Label, Working
  <2>3. Alive' \subseteq Alive
    BY <1>2, <1>5, <2>2, AliveKept
  <2>4. ~Pinging' /\ \A r \in Req : has'[r] = has[r]
    BY <2>2, ClientIsSome DEF Pinging, Working, Actor
  <2>5. Pinging => c \notin Alive'
    <3> SUFFICES ASSUME Pinging PROVE c \notin Alive'
      OBVIOUS
    <3>1. client'[c].conn = "nil"
      BY <1>1, <1>2, <1>7, UnusedTyped DEF ConnInv, ConnTyped, Pinging
    <3>2. \A b \in Actor : has'[b] # c
      BY <1>1, <1>7, <2>2, <2>4 DEF ConnInv, Apart, Actor
    <3>3. \A n \in Node : pool'[n] # c
      BY <1>1, <1>2, <1>7 DEF ConnInv, Apart, Pooled
    <3> QED BY <3>1, <3>2, <3>3 DEF Alive, Held
  <2> QED BY <1>2, <1>7, <2>2, <2>3, <2>4, <2>5, ConnKept
<1> QED BY <1>6, <1>7

\* A command was answered.  Here PingNode may write over a client that GetClient
\* has put into the map in the meantime: that one is charged to the node now.
LEMMA AnswersConn ==
    ASSUME ConnInv, FleetInv', NEW a \in Actor, at[a] \in Working, Answers(a),
           UNCHANGED <<host, fresh, target>>
    PROVE  ConnInv'
<1> DEFINE c == has[a]
<1>1. c \in Client /\ c # NoClient /\ client' = client
  BY ClientIsSome DEF ConnInv, ConnTyped, Answers
<1>2. CASE a # Checker
  BY <1>2, <1>1, GoesOnConn DEF Answers, Working, ConnInv, ConnTyped
<1>3. CASE a = Checker /\ ~fresh
  <2>1. Go(Checker, "online", NoClient) /\ pool' = pool
    BY <1>3 DEF Answers
  <2>2. /\ ConnTyped' /\ has'[Checker] = NoClient /\ at'[Checker] = "online"
        /\ \A b \in Actor \ {Checker} : has'[b] = has[b]
    BY <1>1, <2>1, GoTyped, ClientIsSome DEF ConnInv, ConnTyped, Label, Working
  <2>3. Alive' \subseteq Alive
    BY <1>1, <2>1, <2>2, AliveKept
  <2>4. ~Pinging /\ ~Pinging' /\ \A r \in Req : has'[r] = has[r]
    BY <1>3, <2>2, ClientIsSome DEF Pinging, Working, Actor
  <2> QED BY <2>1, <2>2, <2>3, <2>4, ConnKept
<1>4. CASE a = Checker /\ fresh
  <2>1. PICK g \in [Client -> Node] : Charged(g)
    BY DEF ConnInv
  <2>2. PICK b : b = has[Checker]
    OBVIOUS
  <2>3. /\ Pinging /\ b \in Client /\ b # NoClient /\ b \notin Pooled
        /\ target \in Node /\ g[b] = target
    BY <1>1, <1>4, <2>1, <2>2 DEF Pinging, ConnInv, Apart, Charged, FleetInv, FleetTyped
  <2>4. /\ Go(Checker, "online", NoClient)
        /\ pool' = [pool EXCEPT ![target] = b]
    BY <1>4, <2>2 DEF Answers
  <2>5. /\ pool' \in [Node -> Client \cup {NoClient}] /\ pool'[target] = b
        /\ \A n \in Node \ {target} : pool'[n] = pool[n]
    BY <2>3, <2>4 DEF ConnInv, ConnTyped
  <2>6. /\ ConnTyped' /\ has'[Checker] = NoClient /\ at'[Checker] = "online"
        /\ \A d \in Actor \ {Checker} : has'[d] = has[d]
    BY <1>1, <2>4, <2>5, GoTyped, ClientIsSome DEF ConnInv, ConnTyped, Label, Working
  <2>7. ~Pinging'
    BY <2>6 DEF Pinging, Working
  <2>8. PICK p \in Client \cup {NoClient} : p = pool[target]
    BY <2>3 DEF ConnInv, ConnTyped
  <2>9. Unpooled' \subseteq (Unpooled \ {b}) \cup {p}
    <3> SUFFICES ASSUME NEW x \in Unpooled', x # p PROVE x \in Unpooled /\ x # b
      OBVIOUS
    <3>1. x \in Client /\ x \notin Pooled' /\ x # NoClient
      BY ClientIsSome DEF Unpooled, Alive, Held
    <3>2. x # b
      BY <2>3, <2>5, <3>1 DEF Pooled
    <3>3. x \notin Pooled
      BY <2>5, <2>8, <3>1 DEF Pooled
    <3>4. x \in Alive
      BY <1>1, <2>5, <2>6, <3>1 DEF Unpooled, Alive, Held, Pooled
    <3> QED BY <3>2, <3>3, <3>4 DEF Unpooled
  <2>10. p = NoClient => p \notin Unpooled'
    BY ClientIsSome DEF Unpooled, Alive, Held
  <2>11. p # NoClient => p \in Pooled /\ p \notin Unpooled
    BY <2>3, <2>8 DEF Pooled, Unpooled
  <2>12. PICK h \in [Client -> Node] : \A x \in Client : h[x] = IF x = p THEN target ELSE g[x]
    <3>1. [x \in Client |-> IF x = p THEN target ELSE g[x]] \in [Client -> Node]
      BY <2>3
    <3> QED BY <3>1
  <2>13. b \in Unpooled /\ \A x \in Unpooled : x \in Client
    BY <2>2, <2>3, ClientIsSome DEF Unpooled, Alive, Held
  <2>14. \A x \in Unpooled \ {b} : g[x] # target /\ pool[g[x]] # NoClient
    BY <2>1, <2>2, <2>3, <2>13 DEF Charged
  <2>15. \A x \in Unpooled' : \A y \in Unpooled' : h[x] = h[y] => x = y
    BY <2>1, <2>9, <2>10, <2>12, <2>13, <2>14 DEF Charged
  <2>16. \A x \in Unpooled' : pool'[h[x]] # NoClient
    BY <2>3, <2>5, <2>9, <2>10, <2>12, <2>13, <2>14
  <2>17. Charged(h)'
    BY <2>7, <2>15, <2>16 DEF Charged
  <2> QED BY <2>6, <2>7, <2>12, <2>17 DEF ConnInv, Apart
<1> QED BY <1>2, <1>3, <1>4

\* A process that dies has no clients.
LEMMA DiesConn ==
    ASSUME ConnInv, FleetInv', ProcessDies
    PROVE  ConnInv'
<1>1. /\ pool' = [n \in Node |-> NoClient] /\ client' = [c \in Client |-> Unused]
      /\ at' = [a \in Actor |-> "idle"] /\ has' = [a \in Actor |-> NoClient]
      /\ fresh' = FALSE /\ host' = host
  BY DEF ProcessDies, table
<1>2. ConnTyped' /\ ~Pinging'
  BY <1>1, UnusedTyped, ClientIsSome DEF ConnInv, ConnTyped, Pinging, Working
<1>3. Unpooled' = {}
  <2>1. \A c \in Client : client'[c].conn = "nil"
    BY <1>1, UnusedTyped
  <2>2. Alive' = {}
    BY <1>1, <2>1, ClientIsSome DEF Alive, Held
  <2> QED BY <2>2 DEF Unpooled
<1>4. PICK g \in [Client -> Node] : TRUE
  BY DEF ConnInv
<1>5. Charged(g)'
  BY <1>2, <1>3 DEF Charged
<1> QED BY <1>2, <1>4, <1>5 DEF ConnInv, Apart

\* execMinion.
LEMMA ExecConn ==
    ASSUME ConnInv, FleetInv', NEW a \in Actor, Exec(a)
    PROVE  ConnInv'
<1> DEFINE c == has[a]
<1>1. at[a] \in Working
  BY DEF Exec, Connect, EnsureMinion, RunCommand, Panic, Working
<1>2. c \in Client /\ c # NoClient /\ client[c] \in SSHDockerClient
  BY <1>1, ClientIsSome DEF ConnInv, ConnTyped
<1>3. client \in [Client -> SSHDockerClient]
  BY DEF ConnInv, ConnTyped
<1>4. CASE Connect(a)
  <2>1. UNCHANGED <<host, fresh, target>>
    BY <1>4 DEF Connect, table, cycle
  <2>2. CASE Fails(a, "nil")
    BY <1>1, <2>1, <2>2, FailsConn
  <2>3. CASE ~Fails(a, "nil")
    <3>1. /\ client' = [client EXCEPT ![c].conn = "open"] /\ pool' = pool
          /\ Go(a, IF client[c].ensured THEN "session" ELSE "ensure", c)
      BY <1>4, <2>3 DEF Connect
    <3>2. /\ client' \in [Client -> SSHDockerClient]
          /\ \A b \in Client \ {c} : client'[b] = client[b]
      BY <1>2, <1>3, <3>1 DEF SSHDockerClient
    <3>3. \E l \in Working : Go(a, l, c)
      BY <3>1 DEF Working
    <3> QED BY <1>1, <2>1, <3>1, <3>2, <3>3, GoesOnConn
  <2> QED BY <2>2, <2>3
<1>5. CASE EnsureMinion(a)
  <2>1. /\ UNCHANGED <<host, pool, fresh, target>> /\ Go(a, "session", c)
        /\ \/ client' = client
           \/ client' = [client EXCEPT ![c].ensured = TRUE, ![c].conn = "open"]
           \/ client' = [client EXCEPT ![c].ensured = TRUE, ![c].conn = "nil"]
    BY <1>5 DEF EnsureMinion, table, cycle
  <2>2. /\ client' \in [Client -> SSHDockerClient]
        /\ \A b \in Client \ {c} : client'[b] = client[b]
    <3>1. \A k \in {"open", "nil"} :
              [[client[c] EXCEPT !.ensured = TRUE] EXCEPT !.conn = k] \in SSHDockerClient
      BY <1>2 DEF SSHDockerClient
    <3>2. ASSUME NEW k \in {"open", "nil"},
                 client' = [client EXCEPT ![c].ensured = TRUE, ![c].conn = k]
          PROVE  /\ client' = [client EXCEPT ![c] =
                                  [[client[c] EXCEPT !.ensured = TRUE] EXCEPT !.conn = k]]
      BY <1>2, <1>3, <3>2
    <3>3. CASE client' = client
      BY <1>3, <3>3
    <3>4. CASE client' # client
      <4>1. PICK k \in {"open", "nil"} :
               client' = [client EXCEPT ![c] =
                            [[client[c] EXCEPT !.ensured = TRUE] EXCEPT !.conn = k]]
        BY <2>1, <3>2, <3>4
      <4>2. PICK v \in SSHDockerClient : client' = [client EXCEPT ![c] = v]
        BY <3>1, <4>1
      <4> QED BY <1>2, <1>3, <4>2
    <3> QED BY <3>3, <3>4
  <2> QED BY <1>1, <2>1, <2>2, GoesOnConn DEF Working
<1>6. CASE RunCommand(a)
  <2>1. /\ UNCHANGED <<host, fresh, target>>
        /\ Answers(a) \/ Fails(a, client[c].conn)
    BY <1>6 DEF RunCommand, table, cycle
  <2> QED BY <1>1, <2>1, AnswersConn, FailsConn
<1>7. CASE Panic(a)
  <2>1. CASE ProcessDies
    BY <2>1, DiesConn
  <2>2. CASE ~ProcessDies
    <3>1. /\ a \in Req /\ client' = [client EXCEPT ![c].locked = TRUE]
          /\ Go(a, "idle", NoClient) /\ UNCHANGED <<host, pool, fresh, target>>
      BY <1>7, <2>2 DEF Panic, table, cycle
    <3>2. /\ client' \in [Client -> SSHDockerClient]
          /\ \A b \in Client : client'[b].conn = client[b].conn
      BY <1>2, <1>3, <3>1 DEF SSHDockerClient
    <3>3. /\ ConnTyped' /\ has'[a] = NoClient
          /\ \A b \in Actor \ {a} : at'[b] = at[b] /\ has'[b] = has[b]
      BY <3>1, <3>2, GoTyped, ClientIsSome DEF ConnInv, ConnTyped, Label, Working
    <3>4. Alive' \subseteq Alive
      BY <3>1, <3>2, <3>3, AliveKept
    <3>5. (Pinging' <=> Pinging) /\ has'[Checker] = has[Checker] /\ Req \subseteq Actor
      BY <3>1, <3>3, ClientIsSome DEF Pinging, Actor
    <3> QED BY <3>1, <3>3, <3>4, <3>5, ConnKept
  <2> QED BY <2>1, <2>2
<1> QED BY <1>4, <1>5, <1>6, <1>7 DEF Exec

-----------------------------------------------------------------------------
\* A new client is one that was not alive.
LEMMA NewClient ==
    ASSUME ConnInv, NEW n \in Node, NEW c \in Client, NewSSHDockerClient(c, n)
    PROVE  /\ c # NoClient /\ c \notin Pooled /\ \A a \in Actor : has[a] # c
           /\ client' \in [Client -> SSHDockerClient]
           /\ \A b \in Client : client'[b].conn = "open" => client[b].conn = "open"
<1>1. c \notin Alive /\ client' = [client EXCEPT ![c] = [Unused EXCEPT !.addr = host[n]]]
  BY DEF NewSSHDockerClient
<1>2. PICK v \in SSHDockerClient : v.conn = "nil" /\ client' = [client EXCEPT ![c] = v]
  BY <1>1, UnusedTyped DEF ConnInv, ConnTyped
<1>3. /\ client' \in [Client -> SSHDockerClient]
      /\ client'[c].conn = "nil"
      /\ \A b \in Client \ {c} : client'[b] = client[b]
  BY <1>2 DEF ConnInv, ConnTyped
<1>4. c # NoClient /\ c \notin Pooled /\ \A a \in Actor : has[a] # c
  BY <1>1, ClientIsSome DEF Alive, Held, Pooled
<1> QED BY <1>3, <1>4

\* PingNode: a client it makes is charged to the node it makes it for, which
\* has none in the pool.
LEMMA PingConn ==
    ASSUME ConnInv, FleetInv', NEW n \in Node, PingNode(n)
    PROVE  ConnInv'
<1>1. /\ at[Checker] = "idle" /\ target' = n /\ UNCHANGED <<host, pool>>
  BY DEF PingNode, table
<1>2. ~Pinging /\ has[Checker] = NoClient
  BY <1>1, ClientIsSome DEF Pinging, ConnInv, ConnTyped, Working
<1>3. Req \subseteq Actor /\ \A r \in Req : r \in Actor \ {Checker}
  BY ClientIsSome DEF Actor
<1>4. host' \in [Node -> Addr] /\ pool' \in [Node -> Client \cup {NoClient}]
      /\ client \in [Client -> SSHDockerClient]
  BY <1>1 DEF ConnInv, ConnTyped
<1>5. CASE /\ pool[n] # NoClient /\ Go(Checker, "connect", pool[n])
           /\ fresh' = FALSE /\ client' = client
  <2>1. pool[n] \in Client /\ pool[n] \in Pooled
    BY <1>5 DEF ConnInv, ConnTyped, Pooled
  <2>2. /\ ConnTyped' /\ has'[Checker] = pool[n]
        /\ \A b \in Actor \ {Checker} : has'[b] = has[b]
    BY <1>4, <1>5, <2>1, GoTyped, ClientIsSome DEF Label, Working
  <2>3. Alive' \subseteq Alive
    BY <1>1, <1>5, <2>1, <2>2, AliveKept
  <2>4. ~Pinging'
    BY <1>5 DEF Pinging
  <2> QED BY <1>1, <1>2, <1>3, <2>2, <2>3, <2>4, ConnKept
<1>6. CASE Go(Checker, "offline", NoClient) /\ fresh' = FALSE /\ client' = client
  <2>1. /\ ConnTyped' /\ has'[Checker] = NoClient
        /\ \A b \in Actor \ {Checker} : has'[b] = has[b]
    BY <1>4, <1>6, GoTyped, ClientIsSome DEF Label, Working
  <2>2. Alive' \subseteq Alive
    BY <1>1, <1>6, <2>1, AliveKept
  <2>3. ~Pinging'
    BY <1>6 DEF Pinging
  <2> QED BY <1>1, <1>2, <1>3, <2>1, <2>2, <2>3, ConnKept
<1>7. ASSUME NEW c \in Client, pool[n] = NoClient, NewSSHDockerClient(c, n),
             Go(Checker, "connect", c), fresh' = TRUE
      PROVE  ConnInv'
  <2>1. /\ c # NoClient /\ c \notin Pooled /\ \A a \in Actor : has[a] # c
        /\ client' \in [Client -> SSHDockerClient]
        /\ \A b \in Client : client'[b].conn = "open" => client[b].conn = "open"
    BY <1>7, NewClient
  <2>2. /\ ConnTyped' /\ has'[Checker] = c /\ at'[Checker] = "connect"
        /\ \A b \in Actor \ {Checker} : has'[b] = has[b]
    BY <1>4, <1>7, <2>1, GoTyped, ClientIsSome DEF Label, Working
  <2>3. Pinging'
    BY <1>7, <2>2 DEF Pinging, Working
  <2>4. Pooled' = Pooled /\ Alive' \subseteq Alive \cup {c}
    BY <1>1, <2>1, <2>2 DEF Pooled, Alive, Held
  <2>5. Unpooled' \subseteq Unpooled \cup {c} /\ Unpooled \subseteq Client
    BY <2>4 DEF Unpooled, Alive, Held
  <2>6. Apart'
    BY <1>3, <2>1, <2>2, <2>4 DEF Apart
  <2>7. PICK g \in [Client -> Node] : Charged(g)
    BY DEF ConnInv
  <2>8. PICK h : h = [g EXCEPT ![c] = n]
    OBVIOUS
  <2>9. /\ h \in [Client -> Node] /\ h[c] = n
        /\ \A b \in Client \ {c} : h[b] = g[b]
    BY <2>7, <2>8
  <2>10. \A b \in Unpooled \ {c} : h[b] = g[b] /\ pool[h[b]] # NoClient /\ h[b] # n
    BY <1>2, <1>7, <2>5, <2>7, <2>9 DEF Charged
  <2>11. \A b, d \in Unpooled' : h[b] = h[d] => b = d
    BY <2>5, <2>7, <2>9, <2>10 DEF Charged
  <2>12. \A b \in Unpooled' : b = c \/ pool'[h[b]] # NoClient
    BY <1>1, <2>5, <2>10
  <2>13. Charged(h)'
    BY <1>1, <2>2, <2>3, <2>9, <2>11, <2>12 DEF Charged
  <2> QED BY <2>2, <2>6, <2>9, <2>13 DEF ConnInv
<1> QED BY <1>5, <1>6, <1>7 DEF PingNode, Cached

\* GetClient puts the client it makes into the pool at once.
LEMMA GetConn ==
    ASSUME ConnInv, FleetInv', NEW r \in Req, NEW n \in Node, GetClient(r, n)
    PROVE  ConnInv'
<1>1. UNCHANGED <<host, fresh, target>>
  BY DEF GetClient, table, cycle
<1>2. r \in Actor /\ r # Checker /\ Checker \in Actor \ {r} /\ Req \subseteq Actor
  BY ClientIsSome DEF Actor
<1>3. host' \in [Node -> Addr] /\ fresh' \in BOOLEAN
      /\ pool \in [Node -> Client \cup {NoClient}]
      /\ client \in [Client -> SSHDockerClient]
  BY <1>1 DEF ConnInv, ConnTyped
<1>4. CASE pool[n] # NoClient
  <2>1. Go(r, "connect", pool[n]) /\ pool' = pool /\ client' = client
    BY <1>4 DEF GetClient
  <2>2. pool[n] \in Client /\ pool[n] \in Pooled
    BY <1>3, <1>4 DEF Pooled
  <2>3. /\ ConnTyped' /\ has'[r] = pool[n]
        /\ \A b \in Actor \ {r} : at'[b] = at[b] /\ has'[b] = has[b]
    BY <1>2, <1>3, <2>1, <2>2, GoTyped, ClientIsSome DEF Label, Working
  <2>4. Alive' \subseteq Alive
    BY <2>1, <2>2, <2>3, AliveKept
  <2>5. (Pinging' <=> Pinging) /\ has'[Checker] = has[Checker]
    BY <1>1, <1>2, <2>3 DEF Pinging
  <2>6. \A q \in Req : has'[q] \in {has[q], NoClient} \cup Pooled
    BY <1>2, <2>2, <2>3
  <2> QED BY <1>1, <2>1, <2>3, <2>4, <2>5, <2>6, ConnKept
<1>5. CASE pool[n] = NoClient
  <2>1. PICK c \in Client : /\ NewSSHDockerClient(c, n)
                            /\ pool' = [pool EXCEPT ![n] = c] /\ Go(r, "connect", c)
    BY <1>5 DEF GetClient
  <2>2. /\ c # NoClient /\ c \notin Pooled /\ \A a \in Actor : has[a] # c
        /\ client' \in [Client -> SSHDockerClient]
        /\ \A b \in Client : client'[b].conn = "open" => client[b].conn = "open"
    BY <2>1, NewClient
  <2>3. /\ pool' \in [Node -> Client \cup {NoClient}] /\ pool'[n] = c
        /\ \A m \in Node \ {n} : pool'[m] = pool[m]
    BY <1>3, <2>1
  <2>4. /\ ConnTyped' /\ has'[r] = c
        /\ \A b \in Actor \ {r} : at'[b] = at[b] /\ has'[b] = has[b]
    BY <1>2, <1>3, <2>1, <2>2, <2>3, GoTyped, ClientIsSome DEF Label, Working
  <2>5. (Pinging' <=> Pinging) /\ has'[Checker] = has[Checker]
    BY <1>1, <1>2, <2>4 DEF Pinging
  <2>6. Pooled' = Pooled \cup {c}
    BY <1>5, <2>3, ClientIsSome DEF Pooled
  <2>7. Alive' \subseteq Alive \cup {c}
    <3>1. \A b \in Client \ {c} : (\E a \in Actor : has'[a] = b) => b \in Held
      BY <2>4 DEF Held
    <3>2. \A b \in Client \ {c} : (\E m \in Node : pool'[m] = b) => b \in Held
      BY <2>3 DEF Held
    <3> QED BY <2>2, <3>1, <3>2 DEF Alive, Held
  <2>8. Unpooled' \subseteq Unpooled
    BY <2>6, <2>7 DEF Unpooled
  <2>9. Apart'
    BY <1>2, <2>2, <2>4, <2>5, <2>6 DEF ConnInv, Apart
  <2>10. \A m \in Node : pool[m] # NoClient => pool'[m] # NoClient
    BY <2>2, <2>3
  <2>11. PICK g \in [Client -> Node] : Charged(g)
    BY DEF ConnInv
  <2>12. \A b \in Unpooled' : b \in Client /\ g[b] \in Node
    BY <2>11 DEF Unpooled, Alive, Held
  <2>13. Charged(g)'
    BY <1>1, <2>5, <2>8, <2>10, <2>11, <2>12 DEF Charged
  <2> QED BY <2>4, <2>9, <2>11, <2>13 DEF ConnInv
<1> QED BY <1>4, <1>5

\* Steps that write neither the pool nor what the actors do.
LEMMA AsideConn ==
    ASSUME ConnInv, FleetInv', UNCHANGED <<pool, at, has, fresh, target>>,
           host' \in [Node -> Addr], client' \in [Client -> SSHDockerClient],
           \A c \in Client : client'[c].conn = "open" => client[c].conn = "open"
    PROVE  ConnInv'
<1>1. ConnTyped'
  BY DEF ConnInv, ConnTyped
<1>2. Alive' \subseteq Alive
  BY AliveKept
<1>3. Pinging' <=> Pinging
  BY DEF Pinging
<1> QED BY <1>1, <1>2, <1>3, ConnKept

\* A machine that goes down closes connections.
LEMMA DownConn ==
    ASSUME ConnInv, FleetInv', NEW x, GoesDown(x)
    PROVE  ConnInv'
<1>1. UNCHANGED <<pool, at, has, fresh, target, host>>
  BY DEF GoesDown, table, actors, cycle
<1>2. ASSUME NEW c \in Client
      PROVE  /\ client'[c] \in SSHDockerClient
             /\ client'[c].conn = "open" => client[c].conn = "open"
  <2>1. client[c] \in SSHDockerClient
    BY DEF ConnInv, ConnTyped
  <2>2. \/ client'[c] = client[c]
        \/ client[c].conn = "open" /\ client'[c] = [client[c] EXCEPT !.conn = "dead"]
        \/ client'[c] = Unused
    BY DEF GoesDown
  <2> QED BY <2>1, <2>2, UnusedTyped DEF SSHDockerClient
<1>3. client' \in [Client -> SSHDockerClient]
  BY <1>2 DEF GoesDown
<1> QED BY <1>1, <1>2, <1>3, AsideConn DEF ConnInv, ConnTyped

LEMMA ConnStep ==
    ASSUME ConnInv, [Next]_vars
    PROVE  ConnInv'
<1>1. FleetInv'
  BY FleetStep DEF ConnInv
<1>2. Checker \in Actor /\ Req \subseteq Actor
  BY DEF Actor
<1>3. host \in [Node -> Addr] /\ client \in [Client -> SSHDockerClient]
  BY DEF ConnInv, ConnTyped
<1>4. CASE CheckAll
  BY <1>1, <1>3, <1>4, AsideConn DEF CheckAll, table, actors
<1>5. ASSUME NEW n \in Node, PingNode(n) PROVE ConnInv'
  BY <1>1, <1>5, PingConn
<1>6. CASE RecordHealth
  <2>1. /\ at[Checker] \in {"online", "offline"} /\ Go(Checker, "idle", NoClient)
        /\ UNCHANGED <<host, pool, client, fresh, target>>
    BY <1>6 DEF RecordHealth, cycle
  <2>2. /\ ConnTyped' /\ has'[Checker] = NoClient /\ at'[Checker] = "idle"
        /\ \A b \in Actor \ {Checker} : at'[b] = at[b] /\ has'[b] = has[b]
    BY <1>2, <2>1, GoTyped DEF ConnInv, ConnTyped, Label, Working
  <2>3. Alive' \subseteq Alive
    BY <2>1, <2>2, AliveKept
  <2>4. ~Pinging /\ ~Pinging' /\ \A r \in Req : has'[r] = has[r]
    BY <2>1, <2>2, ClientIsSome DEF Pinging, Working, Actor
  <2> QED BY <1>1, <2>1, <2>2, <2>3, <2>4, ConnKept
<1>7. ASSUME NEW a \in Actor, Exec(a) PROVE ConnInv'
  BY <1>1, <1>7, ExecConn
<1>8. ASSUME NEW r \in Req, Release(r) PROVE ConnInv'
  <2>1. Go(r, "idle", NoClient) /\ UNCHANGED <<host, pool, client, fresh, target>>
    BY <1>8 DEF Release, table, cycle
  <2>2. /\ ConnTyped' /\ has'[r] = NoClient
        /\ \A b \in Actor \ {r} : at'[b] = at[b] /\ has'[b] = has[b]
    BY <1>2, <2>1, GoTyped DEF ConnInv, ConnTyped, Label, Working
  <2>3. Alive' \subseteq Alive
    BY <2>1, <2>2, AliveKept
  <2>4. (Pinging' <=> Pinging) /\ has'[Checker] = has[Checker]
    BY <2>1, <2>2, ClientIsSome DEF Pinging, Actor
  <2>5. \A q \in Req : has'[q] \in {has[q], NoClient}
    BY <1>2, <2>2
  <2> QED BY <1>1, <2>1, <2>2, <2>3, <2>4, <2>5, ConnKept
<1>9. ASSUME NEW r \in Req, NEW n \in Node, GetClient(r, n) PROVE ConnInv'
  BY <1>1, <1>9, GetConn
<1>10. ASSUME NEW n \in Node, NEW on \in BOOLEAN, Maintenance(n, on) PROVE ConnInv'
  BY <1>1, <1>3, <1>10, AsideConn DEF Maintenance, actors, cycle
<1>11. ASSUME NEW n \in Node, NEW a \in Addr, Patch(n, a) PROVE ConnInv'
  BY <1>1, <1>3, <1>11, AsideConn DEF Patch, actors, cycle
<1>12. ASSUME NEW n \in Node, Erase(n) PROVE ConnInv'
  BY <1>1, <1>3, <1>12, AsideConn DEF Erase, actors, cycle
<1>13. ASSUME NEW x \in Flaky, GoesDown(x) PROVE ConnInv'
  BY <1>1, <1>13, DownConn
<1>14. ASSUME NEW x \in Flaky, ComesUp(x) PROVE ConnInv'
  BY <1>1, <1>3, <1>14, AsideConn DEF ComesUp, table, actors, cycle
<1>15. CASE Crash
  BY <1>1, <1>15, DiesConn DEF Crash
<1>16. CASE UNCHANGED vars
  BY <1>1, <1>3, <1>16, AsideConn DEF vars, table, actors, cycle
<1> QED
  BY <1>2, <1>4, <1>5, <1>6, <1>7, <1>8, <1>9, <1>10, <1>11, <1>12, <1>13, <1>14,
     <1>15, <1>16
  DEF Next, CheckerStep

(***************************************************************************)
(* The pool has at most one client a node, and the others that are alive   *)
(* are charged to nodes, at most one to each.                              *)
(***************************************************************************)
LEMMA ConnBound == ConnInv => ConnectionsBounded
<1> SUFFICES ASSUME ConnInv PROVE ConnectionsBounded
  OBVIOUS
<1> DEFINE open == {c \in Client : client[c].conn = "open"}
           used == {n \in Node : pool[n] # NoClient}
<1>1. IsFiniteSet(Node) /\ Cardinality(Node) \in Nat
  BY FleetAssumption, FS_CardinalityType
<1>2. IsFiniteSet(used) /\ Cardinality(used) <= Cardinality(Node)
  BY <1>1, FS_Subset
<1>3. IsFiniteSet(Pooled) /\ Cardinality(Pooled) <= Cardinality(used)
  <2> DEFINE f == [n \in used |-> pool[n]]
  <2>1. f \in [used -> Pooled]
    BY DEF ConnInv, ConnTyped, Pooled
  <2>2. \A c \in Pooled : \E n \in used : f[n] = c
    BY ClientIsSome DEF Pooled
  <2>3. f \in Surjection(used, Pooled)
    BY <2>1, <2>2 DEF Surjection
  <2> QED BY <1>2, <2>3, FS_Surjection
<1>4. IsFiniteSet(Unpooled) /\ Cardinality(Unpooled) <= Cardinality(Node)
  <2>1. PICK g \in [Client -> Node] : Charged(g)
    BY DEF ConnInv
  <2>2. Unpooled \subseteq Client
    BY DEF Unpooled, Alive, Held
  <2> DEFINE f == [c \in Unpooled |-> g[c]]
  <2>3. f \in [Unpooled -> Node]
    BY <2>1, <2>2
  <2>4. \A b, c \in Unpooled : f[b] = f[c] => b = c
    BY <2>1 DEF Charged
  <2>5. f \in Injection(Unpooled, Node)
    BY <2>3, <2>4 DEF Injection, IsInjective
  <2> QED BY <1>1, <2>5, FS_Injection
<1>5. open \subseteq Pooled \cup Unpooled
  BY DEF Unpooled, Alive
<1>6. /\ IsFiniteSet(Pooled \cup Unpooled)
      /\ Cardinality(Pooled \cup Unpooled) =
             Cardinality(Pooled) + Cardinality(Unpooled) - Cardinality(Pooled \cap Unpooled)
  BY <1>3, <1>4, FS_Union
<1>7. Pooled \cap Unpooled = {}
  BY DEF Unpooled
<1>8. Cardinality(Pooled \cap Unpooled) = 0
  BY <1>7, FS_EmptySet
<1>9. Cardinality(open) <= Cardinality(Pooled \cup Unpooled) /\ IsFiniteSet(open)
  BY <1>5, <1>6, FS_Subset
<1>10. /\ Cardinality(Pooled) \in Nat /\ Cardinality(Unpooled) \in Nat
       /\ Cardinality(used) \in Nat /\ Cardinality(open) \in Nat
       /\ Cardinality(Pooled \cup Unpooled) \in Nat
  BY <1>2, <1>3, <1>4, <1>6, <1>9, FS_CardinalityType
<1> HIDE DEF open, used
<1>11. Cardinality(open) <= 2 * Cardinality(Node)
  BY <1>1, <1>2, <1>3, <1>4, <1>6, <1>8, <1>9, <1>10
<1> QED BY <1>11 DEF open, ConnectionsBounded

(***************************************************************************)
(* PingNode and GetClient take the pool's lock for each access on its own, *)
(* so a client can be overwritten and its connection lost; still there are *)
(* never more than two connections a node, for any number of nodes, of     *)
(* overlapping requests and of crashes.                                    *)
(***************************************************************************)
THEOREM ConnectionsAreBounded == Spec => []ConnectionsBounded
<1>1. Init => ConnInv
  BY ConnInit
<1>2. ConnInv /\ [Next]_vars => ConnInv'
  BY ConnStep
<1>3. ConnInv => ConnectionsBounded
  BY ConnBound
<1> QED BY <1>1, <1>2, <1>3, PTL DEF Spec
=============================================================================
