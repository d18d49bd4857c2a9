# A TLA+ verification of Hoster

Hoster (Go, `src/`) is a self-hosted deployment marketplace: customers create
*deployments* of templates (Docker Compose stacks), which the server schedules
on *nodes*, starts over SSH and routes to through an application proxy; nodes
can be bought from cloud providers as *cloud provisions*; usage is metered and
invoiced. All state is in one SQLite database behind a generic store
(`internal/engine/store.go`).

The hard part of this program is that nothing is transactional. The store runs
single SQL statements; HTTP handlers run concurrently; starting and stopping run
in goroutines that outlive the request; background workers poll the same tables;
and the effects that matter (containers, cloud instances) are outside the
database. This project models that control, one SQL statement or external call
per step, and checks and proves what survives it.

## Inventory

| Component | Source | State | Operations | Talks to |
|---|---|---|---|---|
| Deployment lifecycle | `engine/api.go`, `setup.go`, `handlers.go` | rows of `deployments`; goroutines under way | create, start, stop, transition, delete, PATCH; commands schedule, start, stop, delete | store, bus, orchestrator, usage events |
| State machine, store | `engine/schema.go`, `store.go` | one table per resource | Create, Get, List, Update, Delete, Transition | SQLite |
| Command bus | `engine/commands.go` | registered handlers | Dispatch | called by the API after a transition |
| Orchestrator | `shell/docker/orchestrator.go` | containers, networks and volumes of the nodes | Start-, Stop-, RemoveDeployment | Docker client (local or over SSH) |
| Service ordering, compose parser | `core/deployment`, `core/compose` | none | TopologicalSort, ParseComposeSpec, buildContainerSpec | orchestrator |
| Docker client, SSH client, minion | `shell/docker/client.go`, `ssh_client.go`, `cmd/hoster-minion` | SSH connections | the 18 operations of the interface `docker.Client` | Docker daemon |
| Proxy ports | `core/proxy/ports.go` | column `proxy_port` | AllocatePort | scheduleDeployment |
| Cloud provisioner | `engine/workers.go` | rows of `cloud_provisions` and `nodes`; cloud instances | runCycle every 5 s: create, configure, finalize, destroy | provider adapters |
| Provider adapters | `shell/provider` | none (SDK clients) | CreateInstance, DestroyInstance | AWS, DigitalOcean, Hetzner |
| Usage events, reporter | `handlers.go`, `shell/billing` | rows of `usage_events` | record; report a batch, mark it | APIGate |
| Invoices, payment | `workers.go`, `billing_handlers.go`, `api.go` | rows of `invoices` | generate, pay, verify; POST, PATCH, DELETE, transition | Stripe |
| Node health | `workers.go`, `setup.go` | `nodes.status` | ping all, enter and leave maintenance | node pool |
| Node pool | `shell/docker/node_pool.go` | cached SSH clients | GetClient, PingNode | SSH |
| Domains, DNS | `setup.go`, `handlers.go` | JSON column `domains` | add, verify, remove, auto domain | DNS |
| App Proxy | `shell/proxy`, `core/proxy` | none | resolve a host to node and port, forward | store (read only) |
| Authorization, crypto, scheduler, config, frontend | see PROJECT.json | none or I/O only | - | - |

What is hard, and what makes each part correct:

* **Transitions race.** `Store.Transition` reads, checks the table and the guard,
  and writes in separate statements. The states a row goes through should be a
  path of the resource's table, and what a guard requires should hold after it.
* **Commands work from snapshots.** A command handler acts on the row map it was
  given, possibly minutes later. The containers it starts must be where stop and
  delete will look, bound to the port the proxy will use.
* **External effects and rows drift apart.** Calls fail half way, errors are
  logged and dropped, the process may end between a call and the statement that
  records it. "running" must mean running; what a customer is billed for must be
  what runs; what a customer has paid must be credited.
* **Calls are lost and come late.** A command to a node may time out and take
  effect afterwards; an answer of APIGate may be lost. What is tried again must
  be harmless, and must succeed in the end.
* **Whole lists are read, changed and written back** (the domains of a
  deployment, the nodes of a health check, the invoices of a month), with slow
  calls in between.
* **Locks are released between a check and its use** (the node pool's map, the
  SSH client's connection).
* **Two implementations of one interface** (the local Docker client, and the one
  through SSH and the minion) must make the orchestrator decide alike, though it
  decides by the text of errors.
* **Workers poll with a limit.** A row that cannot make progress must not stay
  in the batch for ever, and must not keep others out of it.
* **Limits are checked before the write** that uses them up (ports, plan).

The hazards at their source lines, with the properties aimed at each, are in
`PROJECT.json`.

## Modules

| Module | Models |
|---|---|
| `StateMachine` | abstract: a resource with a state machine. Each row starts in the initial state, moves atomically along the table, may be deleted, and never comes back |
| `DeploymentLifecycle` | deployments: requests, `Store.Transition`, commands, containers, ports, usage events |
| `ProvisionLifecycle` | cloud provisions: the Provisioner worker, the API, instances and nodes |
| `Metering` | abstract: usage events are recorded, answered for by the metering service, and closed; never closed unanswered, never sent after they are closed |
| `UsageReporter` | the reporter that implements it: read a batch, send, mark, shut down |
| `InvoiceBilling` | invoices: the generator, pay and verify, the Stripe session, what clients write through the generic API |
| `ServiceOrdering` | `TopologicalSort` with Go's unordered maps |
| `Orchestrator` | start, stop and removal of one deployment, call by call to the node |
| `Compose` | from a loaded compose file to services, and from a service to a container: validation, cycles, variables, ports |
| `DockerApi` | what the clients and a daemon exchange, and how the orchestrator reads errors (external part) |
| `DockerClient` | `docker.Client` on a local daemon |
| `Minion`, `SSHDockerClient` | the minion's commands, and `docker.Client` through SSH and a minion |
| `NodeFleet` | node status, health checker, maintenance, node pool, SSH connection and its locks |
| `Domains` | the domains of deployments and how the App Proxy resolves a hostname |
| `MCDeployment`, `MCProvision` | the lifecycles for TLC, with the symmetry sets |
| `MCBilling`, `MCEdge` | two components each that share no state, checked side by side; invoices with and without what clients write |
| `MCOrchestrator` | the orchestrator with its dependency graphs |
| `Questions` | the stateless parts as questions: the two Docker clients compared call by call, the sort against its definition |
| `MCQuestions` | every question of a bounded set is asked, and two about the compose parser |
| `DeploymentProofs` | theorems about deployments, in three parts: types and the shape of a step; what holds however requests overlap; what holds when they do not |
| `ProvisionProofs`, `BillingProofs`, `FleetProofs`, `DomainsProofs` | theorems about provisions, about invoices and the usage reporter, about nodes, and about domains |
| `OrderingProofs`, `OrchestratorProofs` | what `TopologicalSort` returns for any graph, and the orchestrator's operations built on it |
| `QuestionProofs` | the two clients agree, for any parameters and answers |

The models meet in a few places. `DeploymentLifecycle` sees the orchestrator as
one container per deployment with outcomes "started", "failed, something is
left" and "failed, nothing is left"; `Orchestrator` is that view in detail.
`Orchestrator` in turn sees a node through commands that succeed, fail, or fail
and take effect later; `Questions` shows that the two clients that carry these
commands lead it to the same decisions, and `NodeFleet` shows what the
connection below them does. `UsageReporter` takes over the rows that
`DeploymentLifecycle` writes. `Domains` reduces a deployment's row to what the
proxy looks at.

### DeploymentLifecycle and the code

`status`, `node_id` and `proxy_port` are columns of `deployments`; all three are
the owner's to PATCH, to null as well (`NoNode`, 0). `renoded` is a history: the
deployments whose `node_id` a PATCH cleared past the guard ("cleared"), or changed
while there were containers or a command at work ("moved"). `container`
and `bound` are what each node's Docker daemon holds: the containers of a
deployment's services are taken as one, the one that binds the proxy port, with
a partial start as one of the outcomes of a failing start. `lastEvent` is the
latest row of `usage_events` for a deployment.

Every HTTP request is a slot `r` of `Req`; `pc[r]` is the next statement and
`ctx[r]` holds the local variables of handler and command. A request goes
through

    CreateRequest -> Insert -> RecordEvent
    StartRequest / StopRequest / TransitionRequest / DeleteRequest
        -> TransitionCheck -> TransitionUpdate -> TransitionReturn   (Store.Transition)
        -> ScheduleDeployment / ScheduleFails -> AssignNode -> (Transition)
        -> StartDeployment / StopDeployment / DeleteDeployment -> (Transition) -> RecordEvent
        -> VerifyDelete -> EraseRow                                  (delete only)

A command is the continuation of its request in the same slot, because the bus
calls the handler directly. The start and stop endpoints run it in a goroutine
with a context of its own: it is the same sequence of steps, but a hang-up of
the client (`Disconnect`) does not end it (`InBackground`). `Crash` ends all of
them at once and keeps the table and the containers. `StoreFails` is any store
call that returns an error; where the code ignores the error the request goes on.

What is abstracted: a request that is refused outright (401, 403, 404, 409)
changes nothing and is no step; columns that decide nothing (`error_message`,
`containers`, `started_at`, `domains`, variables) are left out; whether a node is
online or an SSH call works is a nondeterministic choice; a POST that sets
`status` is a create and a PATCH. Containers that die by themselves are not
modelled: the code never looks.

`Spec` lets all requests overlap. `SerialSpec` leaves out the steps after which
two requests are about one deployment, and `AtomicAssignSpec` of those also the
steps between the choice of a port and the UPDATE that writes it.

### ProvisionLifecycle and the code

`status`, `instance` (`provider_instance_id`), `node_id` and `completed` are
columns of `cloud_provisions`; `cloud` says for each instance of the provider
whether it exists and for which provision; `nodes` the rows of `nodes` made by
`stepFinalize`. The worker takes a snapshot of the first `Batch` active rows
(`RunCycle`, the `LIMIT 10` of `runCycle`) and steps each by the status in the
snapshot; every update and every call of `Transition` in a step function is a
step of the model. `destroyProvision` runs inside the delete or transition
request. `CreateInstance` may fail after the instance exists (when it waits for
the public IP): the id is then lost. `DestroyInstance` of an instance that is
gone succeeds, and an error says nothing about the instance. `unlinked` is a
history: the provisions whose `node_id` could not be written, or was cleared by
a client.

Two facts about types decide control and are modelled as what they are.
`strVal` of a timestamp is the empty string (`CompletedAtText`), as the store
returns timestamps as `time.Time`. The timeout of `stepFinalize` needs
`created_at` to be a Go string: `RawQuery` returns what the driver returns,
which is a `time.Time` for a column declared DATETIME, as `CreateTable` does,
and a string for one added as TEXT (by `migrate.go:112`, to a table that had no
such column). The constant `CreatedAtIsText` is that choice. For safety TRUE is
the more general one, since a provision need not grow old, and `provision_serial`
has it; `found_provision_stuck` has FALSE, which is what `CreateTable` makes.

### UsageReporter, InvoiceBilling and the code

`time` and `reported` are the columns `timestamp` and `reported_at`. Reading a
batch (oldest first, rows of one second in any order), `MeterUsageBatch` and
`MarkEventsReported` are three steps. An answer below 400 counts as success even
if it lists rejected events (`refused`); an error may come after the service has
taken the events, so that they are sent again: delivery is at least once, and
APIGate is expected to tell duplicates by their reference id. `Stop` and
`CloseStore` are the order of `Server.Shutdown`.

The generator lists the deployments, then the newest `GenLimit` invoices, and
then writes customer by customer from the two lists (`gen`). Pay reads the
invoice, creates a session at Stripe, stores its id and moves the invoice to
"pending"; the errors of the last two are dropped, as in the code. Verify finds
the invoice by session id, asks Stripe, and moves it to "paid".

Invoices are a resource like any other, and no column of theirs but the owner is
internal: a client may POST an invoice, PATCH its status, amount, month and
session, DELETE it, and ask for a state with `/transition/{state}`
(`PostInvoice`, `PatchInvoice`, `DeleteInvoice`, `TransitionRequest` and
`SetState`, which are the read and the write of `Store.Transition`). A deleted row
keeps its place with the status "gone", so that a request under way still has an
id that no row answers to. `edited` is a history of what clients wrote into a row;
the properties use it to except what the API takes the client's word for.

### Orchestrator and the code

`op` holds the operation under way and its local variables; `node` the network,
volumes, images and containers of the deployment on its node, each service with up
to `MaxCopy` containers. A container of a service with a restart policy
(`Restarts`) that exits may be "restarting" until the daemon starts it again
(`DaemonRestarts`), or gives it up because its network or port is gone; the labels
of a service may overwrite the one that names the deployment (`hidden`), and then
no list shows its containers (`Visible`). The states "paused", "removing" and
"dead", the restart of all containers when a node boots, and labels that overwrite
only the service's name are left out. Every call of the Docker client is a step
with three outcomes (`Ends`): answered; failed without effect; failed, with the
effect to come (`late`, a slot for each call whose command is still on its way:
two equal commands are two). What the code makes of an error - ignore, go on,
clean up - is that of `startContainers`, `cleanup` and the others. `ListExisting`
takes the order of services from `orders`, which is every order `TopologicalSort`
may return for this compose file (`Orders`), as Go iterates over maps in any
order. `calm` is the point after which nothing fails any more; it is there for
liveness.

### DockerClient, SSHDockerClient, Minion, Compose and the code

Each operation is an operator from its parameters and the daemon's answer to the
request it makes and the error it returns. Between the SSH client and the minion
is a shell: `execMinion` joins the arguments with blanks, unquoted, and the shell
splits the line again (`ShellArgs`). What it makes of a string (`Words`), whether a
metacharacter ends the command (`Cuts`), and how numbers are written and read
(`FormatInt`, `Atoi`) are constants; what else a line with a metacharacter may do
is left out. An error is a tag for what the orchestrator looks for in its text.
Widths matter in the statistics: counters
are `% 2^Width` and differences wrap. Values of a compose file are sequences of
text and variables, substituted as `SubstituteVariables` does.

### NodeFleet and the code

`status`, `host` and `key` are columns of `nodes`; `pool` is the pool's map,
`client` the SSH clients with address, connection, `sync.Once` and mutex. An
actor (the checker, or a request's command handler) goes through
`connect`, `ensure` (the upload of the minion) and `session`: these are the
critical sections of the code, and between them anything may happen. The
client's mutex is modelled only where it stays locked; within a section nothing
else can run anyway. `wanted` and `late` are history: what the owner asked for,
and whether a cycle of the checker had the node on its list at that time.

### Domains and the code

Every handler reads the row, computes a new list in `ctx[r].list` and writes all
of it back in a later step; `Lookup` is the DNS query in between. `StoreDomains` is
the UPDATE of `Store.Update`, `Answer` the read after it and the answer to the
client; when that read fails (`AnswerFails`) the list has changed and the client
gets an error. `told` is what the owner was told, `unsure` the hostnames written and
not answered for. The list is a
set: its order only decides which of several entries of one hostname comes first,
and the model then takes any. Hostnames are spelt in several ways, since the
store compares exactly and the proxy without regard to case. `pointed` is the
history of successful lookups (and of lists a client itself wrote as verified).

## Runs

`tlc -workers 2 -config <run>.cfg <module>`; under three minutes each.

| Run | Asks | Answer |
|---|---|---|
| `deployment_serial` | requests about one deployment do not overlap, those about different ones do; every fault | the table implements `StateMachine`; a running container is bound to the routed port; "running" implies started containers |
| `deployment_sequential` | two requests overlap on different deployments (`AtomicAssignSpec`), three deployments and a plan of one, two ports, no faults | usage events agree with the status when nothing is under way; two overlapping creates exceed the plan by one and nothing exceeds it by more; a port is given only if no deployment that is neither stopped nor deleted has it |
| `deployment_concurrent` | two requests overlap on one deployment, every state as target, every fault, `node_id` PATCHed to null at any time | types; a deployment past scheduling has a node unless it was cleared past the guard; containers are only on the node of the row unless it was cleared under them; "pending" is fresh |
| `deployment_liveness` | two overlapping requests, PATCHes of the port, no faults | no deployment stays in "starting", "stopping" or "deleting" |
| `provision_serial` | worker and request never hold the same provision; every fault; `node_id` PATCHed to null | the table implements `StateMachine`; instances are created only for "pending" rows and destroyed only for "destroying" ones; "ready" implies a node unless its UPDATE failed or a client cleared it |
| `billing` | reporter with lost answers, failing marks, crashes and shutdown; invoices with overlapping verifications, generator and crashes; their owners write any column, delete and post | the reporter implements `Metering`, every event is reported in the end, a batch never meets a closed database; where the owner did not write it himself, a paid invoice was paid, in the amount charged; one invoice per customer and month; a payment is credited |
| `orchestrator` | start, stop and remove in any order with lost and late calls, crashes, containers that exit or restart, labels that hide one | a start that reports success leaves every service running or about to be restarted, in dependency order; a failed start removes what it made, and a stop or removal leaves nothing behind of what the list showed as running, or showed, unless one of their own calls fails; a start tried again succeeds in the end |
| `questions` | every call of the Docker interface, with plain names and others, and every kind of answer; what a daemon says of containers; every dependency graph of three services; small templates | for plain names both clients make the same request, a ping aside, and lead to the same decision; same container information and statistics; cycles are found exactly; the sort is topological where it can be; the first port is bound to the proxy port, and no other but one that publishes that number itself |
| `edge` | health checker, a command, the owner of a node, machines that go down and a crash; two requests on a deployment's domains | at most two connections per node; maintenance holds unless a cycle had begun; the status follows the machine; only names that pointed at a deployment are forwarded to it; lists are what the owner was told, without overlap and but for a change that was written and not answered |

Three runs end in a counterexample: a comment says one thing and the code does
another.

| Run | What the code does |
|---|---|
| `found_transition_race` | two overlapping requests make `Transition` write a state that the table does not allow from the one it overwrites; the comment calls it atomic |
| `found_checker_hangs` | a panic between the lock and the unlock of an SSH client is recovered in an HTTP request and the mutex stays locked; the health checker then waits for ever |
| `found_provision_stuck` | with `created_at` a DATETIME the five-minute timeout of `stepFinalize` never fires, and a provision whose instance does not answer stays "configuring"; the comment says "Fail after 5 minutes to avoid stuck provisions" (with `CreatedAtIsText = TRUE` TLC finds no counterexample) |

### What the properties except

Some properties hold only beside something the code does get wrong, and say so
in their statement or in the step relation of the run:

* The serial runs exclude overlapping requests on one row; `found_transition_race`
  shows why.
* `billing` lets a payment of an invoice overlap verifications and other
  invoices' payments, but neither another payment of the same invoice nor a run
  of the generator (`SerialStep`): two payments of one draft leave only the second
  session id, and the generator may change the amount of a draft that is being
  paid. A pay whose store errors were dropped is excepted too (`clean`).
* The API lets clients write into their invoices: `POST
  /invoices/{id}/transition/paid` makes a pending one paid without a payment, and
  PATCH changes amount, month and session. `PaidWasPaid` excepts the invoices into
  which a client wrote "paid" or a session, or which he posted; `OneInvoicePerMonth`
  those posted or moved; `ChargedAmount` and `PaymentIsCredited` those written into
  in any way that matters to them (`Touched`). The exceptions are per row and per
  column, so that what clients do to one invoice must not spoil another one.
* `NodeAssigned` excepts deployments whose `node_id` a client cleared past
  scheduling, or between the guard and the UPDATE of a transition; a row cleared
  before the guard is stopped by it. `ContainersOnAssignedNode` excepts those whose
  `node_id` was changed while there were containers or a command at work.
* `WithinPlan` allows for the creates that overlap: all of them may pass the check
  before the first inserts. The bound says that the excess does not grow, however
  often this happens, and one request at a time keeps to the plan exactly.
* `PortWasFree` is about schedules with nothing between the look at the used ports
  and the write; two that overlap there choose the same port.
* `ReadyHasNode` excepts a provision whose UPDATE of `node_id` failed, an error that
  the code ignores, or whose `node_id` a client cleared.
* `MaintenanceHolds` excepts the cycle that listed the node before; there the
  checker does put the node back into service.
* `StatusFollowsNode` follows the address the pool has, not the one in the row,
  and a node that has its minion.
* `ListsFollowRequests` says nothing once two requests on a deployment overlap:
  one of them loses its change. It excepts the hostnames whose change was written
  while the read after the UPDATE failed, or the client or the process was gone
  (`unsure`), until the next answer about such a hostname.
* `StartedIsRunning`, `FailedStartCleansUp` and `StoppedAndGone` are about
  operations during which no container exited for good and no late call arrived
  (`disturbed`), and what is removed about those in which no call failed, since
  the code drops the errors of its clean-up. `StoppedAndGone` also excepts, by
  name, containers that were restarting when a stop made its list (`skipped`), and
  those that no list shows; `StartsInTheEnd` is about templates that hide none.
* `SameRequest` and `SameDecision` name the differences between the two clients:
  the ping, network aliases, the following of logs, a pull that breaks off, and
  names that are not one word to a shell (`PlainCall`).
* `ProxyPortIsBound` is about services without two ports of one target, and names
  the ports of the file that publish the number of the proxy port themselves.

### Divergences and facts met on the way

Read in the code while modelling; the models do what the code does.

Deployments
: `deleteHandler` erases the row of a running deployment and leaves its
  containers (`engine/api.go:378`), where `specs/features/F004-http-api.md:373`
  says "Delete a deployment (stops containers first if running)." A scheduling
  that fails stays "scheduled": the table has no edge to "failed", where
  `specs/domain/deployment.md:80` says "Any state can transition to 'failed' on
  error"; starting it again skips scheduling and it runs without a port.
  PATCH clears or changes `node_id` of a running deployment, whose containers nobody
  finds then.
  Overlapping creates can exceed the plan; a crash leaves "starting" and "stopping"
  rows that nothing resumes; the port of a stopped deployment can be given away
  while it keeps it.

Provisions
: `stepDestroy` takes a provider's refusal for success (`workers.go:444`;
  `specs/STATUS.md:88` says otherwise). Retry reads `completed_at` as text, which
  it never is, and always starts over (`setup.go:550`, against the comment at 546).
  `CreateInstance` may fail after the
  instance exists and lose its id; a crash between the node's insert and the
  update of `node_id` makes a second node.

Orchestrator and below
: The deployment's variables do not reach the environment of a container
  (`orchestrator.go:473` says "Merge environment: service env + deployment
  variables"): compose-go has already replaced them by nothing
  (`parser_test.go:638`). On a restart the primary service may be another one than
  at the first start, so that no container has the proxy port. Configuration files
  are written on the server and mounted on the node; nothing removes them, nor
  volumes. A failed pull leaves the network. The cleanup of a failed start removes
  containers that existed before. Two ports with the same target lose the proxy
  port. The comment at `orchestrator.go:479` says localhost, the code binds all
  addresses. Labels of a service can overwrite the deployment's label
  (`orchestrator.go:573`), and its containers then stay for ever. `StopDeployment`
  "stops all containers for a deployment" (`orchestrator.go:301`) but those that
  are restarting (`orchestrator.go:319`). A port that publishes the number of the
  proxy port makes the daemon bind it twice. Arguments of a minion's command are
  not quoted (`ssh_client.go:366`). "Not found" of a network or volume becomes
  that of a container behind a minion.

Nodes
: The `sync.Once` of a client is used up by a failed upload. A cached client keeps
  the address of a node that has been changed. `RefreshClient`, `RemoveClient`,
  `GetClientForNode` and `CheckNode` have no caller.

Domains
: Hostnames are not unique across deployments (the query takes any one, in any
  status). `domains` can be written by PATCH, verification included. A check that
  fails takes a verification back. Removing works on the auto domain too; a custom
  domain added before the first start suppresses it. `DNSVerifier` does nothing,
  and `core/dns` is not used.

Invoices
: Clients may write status, amount, month and session of their invoices, and post
  and delete invoices. Past 100 rows verify, and past 1000 the generator, do not
  see all invoices.

### Bounds

Two overlapping requests suffice for every race here: a race is one request coming
between two statements of another. One deployment is enough where the property is
about one row (`deployment_concurrent`, `deployment_liveness`, `edge`); two where
rows compete for ports; three against a plan of one, so that two overlapping
creates exceed it and a third one would be too many. Two nodes let a container be
on the wrong one; two ports let one be taken. In `deployment_concurrent` the
PATCHes write null only: other values of `node_id` make the run too long, and the
theorems cover them. Two provisions make the worker's snapshot grow stale; two
instances let a retry create a second.

In `billing`, three events and a batch of two leave one behind; two months, two
sessions and two amounts let an invoice be confused with another and a price
change between. With what clients write (`part = "clients"` of `MCBilling`) there
is one month, one session, one paying request (`Payer`) and one edit (`MaxEdits`),
of every kind and at every moment; without it, two requests of any kind. Prices
only rise in the run (`Rising`): the properties ask whether two amounts are equal,
and an amount that comes back is equal to itself. The theorems are about any number
of all of these and any prices. The limits of the lists are not below the number of
rows (see above for what happens past them). In `orchestrator`, two
services, independent or one on the other, are enough for order and partial
failure, three containers a service for what failed attempts leave, and one late
command at a time for each to arrive at any later point (`MaxCopy > MaxLate + 1`:
a container id that nobody refers to is always left; the theorems hold for any two
such numbers). One service has a restart policy and may be hidden, the other is
neither. In `questions`, three services have every shape of cycle and the
diamond's two paths to one service; counters of width 8 wrap; names are plain,
have a blank or a metacharacter; ports publish nothing, another number, a range,
too large a number, or the proxy port's. In `edge`, one node with two addresses is
enough since nodes share nothing but the checker, three clients are one more than
a node can have open, and two spellings of a hostname with two handlers give every
interleaving of two read-change-write requests.

Ids are never reused in the code, so the sets of ids bound the number of creates:
when they are used up the model may stop, and so may a server that nobody calls,
hence `CHECK_DEADLOCK FALSE`; in `questions` a state is an input and has no
successor. Symmetry is used in the safety runs only.

The clients' inputs are constants: `Targets` are the states sent to
`/transition/{state}`, `Patch*` the values written by PATCH. A PATCH of `status`
writes any state at once and with it no invariant about states holds, so the runs
give it no values; the type theorem holds with it.

### Fairness

Of each goroutine it is asked that it takes its next step if it can: Go schedules
every runnable goroutine and an SSH command ends after its timeout
(`ssh_client.go`, 30 s by default). Weak fairness is therefore per request in
`DeploymentLifecycle`, and of the checker in `NodeFleet`; a mutex that nobody
unlocks disables the step, and fairness does not help. The worker's ticker is a
loop of its own, and in the provision model time passes (`GrowOld`). No client
owes a request, except in `Orchestrator`, whose question is whether a customer who
keeps trying succeeds; there the daemon follows the restart policies, too. Strong
fairness is used where the code retries: the reporter's three calls, each of which
succeeds at some time if tried again and again, and the orders of a Go map, which
is iterated from a random start. Faults are left out of the lifecycles' liveness
(`Faults = {}`, or the relation `Normal` of `ProvisionLifecycle`): a crash really
does leave a "starting" row behind for ever. In `UsageReporter` and `NodeFleet`
they are in.

## Proofs

Checked by `tlapm <module>.tla`, for every value of the constants allowed by
the named assumptions and those in the theorems.

| Theorem | States | Needs |
|---|---|---|
| `TypeCorrect` | `Spec => []TypeOK` | nothing |
| `NodeAlwaysAssigned` | `[]NodeAssigned` | clients do not PATCH `status` |
| `ContainersAlwaysOnAssignedNode` | `[]ContainersOnAssignedNode` | nothing |
| `PendingAlwaysFresh` | `[]PendingIsFresh` | clients PATCH neither `status` nor `proxy_port` |
| `SerialRequestsImplementStateMachine` | `SerialSpec => ImplementsStateMachine` | clients do not PATCH `status` |
| `RoutesReachContainers` | `SerialSpec => []RouteReachesContainer` | no PATCH of `status`, `node_id`, `proxy_port` |
| `RunningDeploymentsHaveContainers` | `SerialSpec => []RunningHasContainers` | the same, and nobody asks `/transition/running` |
| `EventsFollowStatus` | `SerialSpec => []BillingFollowsStatus` | the same, nobody asks for "stopped" that way either, and nothing fails |
| `PlanLimitHolds` | `Spec => []WithinPlan` | finitely many requests, no PATCH of `status`, no failing store call |
| `AllocatedPortsAreFree` | `AtomicAssignSpec => PortWasFree` | no PATCH of the three, no failing store call |
| `ProvisionsWellTyped` | `Spec => []TypeOK` | nothing |
| `ReadyProvisionsHaveNodes` | `Spec => []ReadyHasNode` | `WellBehaved`: clients neither ask for "ready" nor write it |
| `SerialProvisionsImplementStateMachine` | `SerialSpec => ImplementsStateMachine` | clients do not PATCH `status` |
| `CloudFollowsTheTable` | `SerialSpec => CloudFollowsStatus` | no PATCH of `status`, `provider_instance_id` |
| `PaidAlwaysWasPaid` | `Spec => []PaidWasPaid` | `BillingAssumption` (the limits are numbers) |
| `OneInvoiceEveryMonth` | `Spec => []OneInvoicePerMonth` | no more invoices than the generator reads, `MaxInvoice <= GenLimit` |
| `PaidInvoicesShowTheCharge` | `SerialSpec => []ChargedAmount` | `BillingAssumption` |
| `PaymentsAreCredited` | `SerialSpec => []PaymentIsCredited` | `BillingAssumption` |
| `BatchAlwaysHasStore` | `ReporterSpec => []BatchHasStore` | nothing |
| `ReporterImplementsMetering` | `ReporterSpec => ImplementsMetering` | nothing |
| `MaintenanceAlwaysHolds` | `Spec => []MaintenanceHolds` | `FleetAssumption` (the checker is none of the requests) |
| `ConnectionsAreBounded` | `Spec => []ConnectionsBounded` | `FleetAssumption` |
| `ForwardingFollowsPointing` | `DomainsSpec => []ForwardedWasPointed` | `DomainsAssumption` (client lists are lists of entries) |
| `ListsFollowTheirRequests` | `DomainsSpec => []ListsFollowRequests` | `DomainsAssumption` |
| `OrdersSort` | `Sorts(S, deps)`: the sort is a permutation, topological except above cycles | a finite set of services |
| `OrdersAreTopological` | every order returned satisfies `depends_on` | some order does |
| `OrchestratorTypeCorrect` | `Spec => []TypeOK` | `OrchestratorAssumption` (a finite set of services without cycles, `MaxCopy > MaxLate + 1`) |
| `SuccessfulStartRuns` | `Spec => StartedIsRunning` | the same |
| `StartsFollowDependencies` | `Spec => DependenciesFirst` | the same |
| `FailedStartLeavesNothing` | `Spec => FailedStartCleansUp` | the same |
| `StopAndRemoveAreThorough` | `Spec => StoppedAndGone` | the same |
| `ClientsAskTheSame`, `ClientsEndTheSame` | `SameRequest`, `SameDecision` | `IsCall`: the operation is one of the interface, parameters have their Go types, a number in digits is a plain word; `ForceAssumption`: so is `--force` |
| `ClientsTellTheSame` | `SameInfo` | `IsListed`, `IsCount`: names are a list, the daemon gives the number of processors |
| `SortIsAlwaysTopological` | `SortIsTopological` | `IsGraph`: `depends_on` names services of the file |

`Spec` lets everything overlap. `SerialSpec` is the same next-state relation
without the steps after which two requests (for provisions also the worker) are
about one row, or, for invoices, two payments about one invoice or a payment and
the generator at work; crashes, hang-ups and failing calls stay in. The conditions
are needed: a PATCH writes any column, so an invariant about that column holds
only if nobody does, or excepts the rows where it was done at a bad time;
overlapping starts share a port (see above); a crash between the status and the
usage event leaves them apart. A failing store call that the code ignores is why
some theorems exclude it: with the list of deployments unread, every port is free
and the plan is empty.

None of the invariants is inductive by itself; each rests on what requests hold.

* `TypeInv` adds to `TypeOK` that a request under way has a deployment, and in a
  call of `Transition` a target state.
* `BaseInv` adds `FreshId`: an id that a create has chosen is in no row and in no
  other request, so an insert disturbs nobody.
* `NodeInv` adds that a request about to write a state past scheduling is about a
  row that has a node, or one that a PATCH cleared after the check. Scheduling writes
  back the node it was given, so that nothing but a PATCH clears `node_id`.
* `HomeInv` adds that the node in the snapshot of a command under way is the node
  of the row, and strengthens the claim to rows already erased: `node_id` is
  written by the insertion and by PATCHes, and what scheduling writes is the value it
  has, so that only a PATCH during a command makes its snapshot stale ("moved").
* `FreshInv` adds that no request is about to write "pending", which no state of
  the table leads to, and that commands only run on rows that have left it.
* `SerialInv` adds that a request alone with its deployment finds at the write what
  it found at the check, so read, check and write are one abstract step: the
  write; the others stutter. `found_transition_race` shows that the hypothesis is
  needed.
* `RunInv` says for every statement what the request there knows (`KnowsOwn`): the
  status it left in the row, whether the containers are up, and that the port in its
  snapshot is that of the row. Between requests it is `Sound`: nothing runs for
  a row that was never started, and what exists is bound to the port of the row.
* `BillInv` adds that a row whose status has an event due has it, or a request is
  about to write it (`Owes`). Only without faults is the debt always paid.
* `PlanInv` counts with the active rows those that a request past its check may
  still add: an insertion, or the UPDATE of a row that has become "deleted" since.
  There are at most as many of the latter as requests, and whoever passes the check
  of the plan leaves room for one.
* `PortInv` adds that the port a request is about to write is still free, as nothing
  comes between look and write.
* `ReadyInv` (provisions) adds that a call of `Transition` to "ready" under way is
  about a row that has its node, is known to be unlinked, or is erased for good.
  Nothing else unlinks a node, so the order of the two writes in `stepFinalize`
  suffices, whatever overlaps.
* `SerialInv` and `CloudInv` of the provisions add that the rest of the worker's
  snapshot still agrees with the table, status and instance, and that an instance
  about to be recorded or destroyed was created for this row.
* `PaidInv` adds that no two payments carry the same session, that the session an
  invoice names was made for it unless a client wrote it there, and that a
  verification which goes on holds a session that is paid; a session once paid
  stays so.
* `MonthInv` adds that a customer whom the generator will still bill as new has no
  invoice for the month but those a client put there: nobody else inserts, and a
  crash forgets the lists.
* `CreditInv` adds that the invoice of a payment under way is a draft with the
  amount read, that of a clean session is settled, has its amount and names it,
  and that what the generator takes for a draft is one, all of it for the rows
  that no client touched.
* `ReporterInv` adds that a batch holds only events that are recorded and not
  marked, and that a batch about to be marked has been answered for. Sending then
  is an abstract answer, marking an abstract close; all else stutters.
* `FleetInv` adds that the checker has no hand on a node in maintenance: it is
  neither on the list of the cycle nor the node being pinged, so what the checker
  writes is about another node.
* `ConnInv` counts by an injection: every open client that is not in the pool is
  charged to a node whose place in the pool is taken, or to the one being pinged,
  and no node is charged twice. An overwritten client is charged to its node;
  afterwards the pool has one, so nobody connects for that node again.
* `DomainsInv` adds that the list a request carries between its read and its write
  names as verified only what has pointed at the deployment, as long as the row
  exists. It is what makes the write of a stale list safe: lookups are never
  forgotten while the row is there, and a row that is deleted does not come back.
* `ListsInv` adds that a request alone with its deployment carries the list that
  the row has, changed by the one hostname it is about, and after its UPDATE that
  the row has this change; the hostname is `unsure` from the UPDATE to the answer.

* `IInv` (orchestrator) adds that a name has one container on the node, that an
  operation holds at most one container of each service and that it is of that
  service. Ids are used again, and this is why the orchestrator never takes a new
  container for the one it made: with one container a service and one id in each
  late command, `MaxCopy > MaxLate + 1` ids leave one that nobody refers to. While
  services are started, the rest of the order is still one in which each comes
  after all it depends on, counting those already done (`InOrder`), and those
  have containers that run (`Started`). What a cleanup, a stop or a removal has
  still to do is on its list (`Undone`, `Stopping`): a list taken before stays
  good because only this operation creates containers, a late command aside, and
  what restarts during a stop was running or restarting when the list was made. What
  a stop saw restarting is in `skipped`, what the labels hide is in no list.

The proof about the orchestrator changed the model in one place. `late` used to
be a set, and two lost commands that are equal (remove the network, twice) were
one; with room for two of them (`MaxLate = 2`, `MaxCopy = 4`) a removal then saw
`late` unchanged by a call that was lost, and `StoppedAndGone` failed. Each lost
call now has a slot of its own.

`Kahn`'s loop and the sums of the statistics are recursive functions. What is
proved of them for every length is proved without an induction schema: if the
fact failed, there would be a least round at which it fails, and that round
contradicts the one before. The loop invariant says that queue and result have
no service twice, that a service is in one of them exactly if all it depends on is
in the result, and that each service of the result comes after all it depends on.
After as many rounds as there are services the queue is empty, so what is missing
depends on something missing: a cycle is below it.

The clients are compared operation by operation. Each lemma gives the request and
the error of one operation on both ways; behind the minion an error is a code that
the SSH client turns back into the texts the orchestrator looks for, and the code
survives the reply (`IsCode`). A plain name is itself after the shell
(`ShellArgs`), and a number is read as it was written. Names, texts,
specifications and numbers are arbitrary; only a pull that breaks off is excepted,
as in the run. `QuestionsAreInTheTheorems` makes TLC check that the inputs of the
run meet the hypotheses of these theorems.

The proofs go action by action over lemmas on the shape of a step (which request
moves, which row it may touch), so that the invariants' proofs do not expand the
helpers again.

Only model-checked:

* liveness, which is out of the prover's reach under fairness (`CommandsFinish`,
  `EventuallyReported`, `StartsInTheEnd`, `FleetStatus`);
* `CyclesAreFound`: `hasCycle` is a recursive search, and the prover does not take
  RECURSIVE operators;
* `ProxyPortIsBound`: `Compose`, which it is about, has such operators too
  (substitution).

## Not modelled

* The node scheduler (`core/scheduler`): `scheduleDeployment` does not call it.
* Authentication and authorization, secret encryption: stateless decisions and
  cryptography. A request that is turned away is no step.
* Monitoring, the domain types and the frontend: read-only, or clients of the API.
* The YAML reader, the SDKs of Docker, SSH and the cloud providers, HTML and JSON
  rendering, configuration: I/O without control of its own. What the code does
  with their outcomes is modelled.
* Functions without a caller: `DetermineStartPath`, the option builders of
  `planner.go` and `container.go`, `WaitForHealthy`, `RefreshContainerInfo`,
  `CleanupConfigFiles`, and those of the node pool named above.

## Plan

The order in which the project was built: the lifecycles of deployments and
provisions, billing, the orchestrator and what is below it, nodes and domains;
then the theorems, component by component. What is left is a refinement from
`Orchestrator` to the one-container view of `DeploymentLifecycle`: its outcome
"failed, nothing is left" is `FailedStartCleansUp`, "started" is
`StartedIsRunning`, but late commands have no counterpart there yet.
