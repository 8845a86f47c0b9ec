# A TLA+ model of Hangang

Hangang is a reverse-proxy gateway: it accepts HTTP, TCP and UDP traffic,
routes it to pools of backend members according to one versioned configuration
document, and lets administrators replace that document, the certificates and
the executable itself without dropping a connection.  Several gateway processes
may share one durable configuration authority (PostgreSQL, Redis or SQLite); a
single process may instead keep its document in a local file.

This directory models the parts of the program whose correctness depends on
order: who may publish a document, what is known after a lost answer, what a
process hands to its successor, when a pool member may still be used.  The
modules are checked with TLC on small instances; some results are proved with
TLAPS for every instance.  Paths below are relative to the repository.

* [Inventory](#inventory) - the components, their state and what makes them correct
* [Modules](#modules) - which module models which code, and how
* [Runs](#runs) - what each model-checking run asks, its bounds, what it shows
* [Fairness](#fairness)
* [Proofs](#proofs)
* [What the models leave out](#what-the-models-leave-out)
* [Plan](#plan)

## Inventory

Each component with its state, its operations, who it interacts with, what is
hard about it and the properties that make it correct.  `PROJECT.json` lists
the same components with the modules that cover them.

**Configuration publication** (`src/admin.rs`, `Manager`).  State: the published
snapshot (`active`), the authority epoch it follows, the atomic flags `ready`,
`stopping`, `withdrawing`, the store health (last confirmation, last failure),
and the `writes` mutex.  Operations: a governed write (prepare, accept in the
journal, compare-and-swap, publish), the poll that adopts other instances'
documents, the cache purge, file reload, freeze/resume/withdraw.  Interacts with
the authority, the operation journal, the TCP listener manager (publication
happens under its lock) and the supervisor.  Hard: every await is a place where
the store, the freeze flag or the listeners may change; an unanswered write may
have happened.  Correct: only proven documents are served; no update is lost;
the journal never claims more than is known; readiness is justified; instances
converge.

**Shared configuration authority** (`src/config_store.rs`, `src/redis_store.rs`).
State: one row (epoch, revision, document, operation stamp) and a receipt row
per source instance.  Operations: bootstrap of an empty store, load,
compare-and-swap with at most one retry, resolution of an unknown outcome,
receipts and their release.  Hard: lost acknowledgements, statements executed
after their sender gave up, restored backups, wiped stores.

**Local configuration file** (`src/store.rs`).  Temporary file, rename, directory
sync; the single-node authority.

**Supervisor and generations** (`src/supervisor.rs`, `src/restart.rs`,
`src/main.rs`).  State: the active generation, a candidate, draining generations,
the installed executable; one SEQPACKET channel per generation.  Operations:
restart on signal or request, scheduled update, freeze/export, spawn, prepare,
commit, drain, reject/resume, shutdown with a lame-duck window.  Hard: a
candidate may fail, hang or die in every phase, answers may be late, and the
listeners must stay answered throughout.

**Signed updates** (`src/update.rs`, `src/github_release.rs`).  State: the installed
file, its previous version, the staged candidate, a lock file.  Operations: fetch and
verify, stage, activate, roll back.  Hard: a crash or a failed operation between two
directory operations, supervisors that share one executable.

**Member admission and retirement** (`src/member_admission.rs`,
`src/retired_members.rs`, `src/pool_member.rs`, `src/tcp_member.rs`).  State: one
word per member generation (closed bit and lease count), a bounded registry of
generations that still drain.  Hard: selection, lease, dial and forwarding race
the publication that retires the member.

**Configuration document** (`src/config.rs`, `src/host_match.rs`).  Parsing,
validation, transition rules, and preparation of the runtime objects of every
route, reusing those of unchanged parts.

**HTTP proxy path** (`src/proxy.rs`, `src/public_http.rs`, `src/upstream.rs`, ...).
Per request: admission, route match, policies, body limits, backend selection
with retry, forwarding, upgrade tunnels.

**Balancing and health** (`src/balance.rs`, `src/active_probe.rs`).  Round-robin with
weights, affinity, passive failure counters, active probes, endpoint epochs.

**TCP gateway** (`src/tcp.rs`, `src/tcp_health.rs`, `src/tcp_history.rs`) and **UDP
gateway** (`src/udp.rs`).  State: listening sockets, routes by server name, member
health, flow tables, permits, connection histories.  Operations: prepare, commit,
export and stop of the listener set; accept, choose, dial, relay; flows and their
joins.  Hard: accept loops and sessions read published state without the lock that
changes it, and tasks end after what they belong to was replaced.  Correct: sockets
match the published document, a stream uses a member that was healthy and admitted
for it, every slot returns.

**Direct server return** (`src/dsr.rs`).  One-shot programming of kernel IPVS.

**Response cache** (`src/cache.rs`, `src/cache_policy.rs`, `src/cache_store.rs`).
Memory tier and optional shared tier, fill coalescing, generation fence, purge.

**Lua policy workers** (`src/policy.rs`, `src/sandbox.rs`).  Bounded worker pool with
deadlines and replacement.

**Administrator accounts** (`src/admin_users.rs`, `src/config_receipt_release.rs`).
Users, sessions and their generations, the operation journal, receipt release.

**ACME and certificates** (`src/acme*.rs`, `src/certificates.rs`, `src/tls.rs`).  Order
state machine, HTTP-01 tokens published for the fleet, renewal under a lease, verified
replacement of a key pair.  Hard: publication, refresh and withdrawal of a token overlap
and outlive their callers.

**Token verification** (`src/jwt_auth.rs`, `src/jwks_remote.rs`, `src/jwt_runtime.rs`,
`src/basic_auth.rs`).  Remote key sets with refresh, staleness and coalescing.

**Client admission, rate limits and bans** (`src/country_*.rs`, `src/geoip*.rs`,
`src/path_*.rs`, `src/security_redis.rs`).  Decisions on one request, token buckets,
failure windows and bans, local or shared.

**Request inspection** (`src/request_block*.rs`, `src/transform*.rs`).  State per
request: what was inspected, in memory under a permit or in a spool file under a
quota.  Hard: a body may be rewritten, or its rules republished, after it was judged;
the network cuts delimiters anywhere.  Correct: the decision fits the bytes that are
sent, and does not depend on the cuts.

**Guard and native authorization** (`src/guard.rs`, `src/hopae_*`, `src/projection_*`,
`src/pumgye*`, `src/native_*`).  Decisions of an external authorization service,
cached and fenced by revision; permits consumed at most once.  Hard: revocation may
fall between any two steps of a dispatch or into the middle of a stream.  Correct:
nothing leaves on evidence that was withdrawn or has aged.

**Discovery and Kubernetes** (`src/discovery.rs`, `src/docker*.rs`,
`src/kubernetes.rs`, `src/ingress.rs`).  Controllers that publish generated documents
through the same `Manager`, and the resolution of `docker://` backends while the
daemon connection is replaced.

**Administration surface** (`src/admin.rs`, `Admin::handle`).  State: admission
budgets, detached tasks, event streams.  Operations: one per endpoint.  Hard: a
handler waits for other systems after it checked the caller, and work outlives its
caller.  Correct: nothing is disclosed to a caller that lost its role, an edit builds
on the revision the caller named, a page of the journal skips nothing.

**Workload identity and reloaded material** (`src/workload_*.rs`, `src/tls.rs`,
`src/certificates.rs`, `src/geoip_runtime.rs`).  Files polled while their owner replaces
them one by one.  Correct: what is served is a key that fits its certificate, workload
material only what both files held at one time.

**Fleet observation, telemetry, network bridge**.  Read-only polling, bounded rings,
byte relays.

## Modules

| module | models | composed in |
|---|---|---|
| `ConfigPublication` | instances, shared authority, journal, retries, lifecycle | `MCFleet` |
| `Authority` | what the authority promises, without instances' internals | refined by `ConfigPublication` |
| `ConfigPublicationProofs`, `ConfigAuthorityProofs` | theorems of `ConfigPublication`: what is served; the journal, the writes, the refinement | |
| `SupervisorHandoff` | supervisor, channels, generations, installed executable | `MCFleet` |
| `SupervisorHandoffProofs` | theorems of `SupervisorHandoff` | |
| `ResponseCache` | memory and disk tiers, coalesced fills, invalidation | `MCRequestPath` |
| `ClientLimits` | bans of one rule, local and in Redis; token bucket and window | `MCRequestPath` |
| `RemoteKeys`, `BearerSessions` | remote signing keys of an issuer; verified tokens and their sessions | `MCRequestPath` |
| `PolicyPool` | pool of Lua worker processes | `MCRequestPath` |
| `HttpPipeline` | one request from admission to the end of its response or tunnel | `MCRequestPath` |
| `RequestInspection`, `BodyRecords` | parameter rules and spooling, multipart parsing; record cutting | `MCRequestPath` |
| `MemberRetirement` | member gates, leases, publication, retirement registry | `MCInstance` |
| `BackendHealth` | health of a discovered backend: probes, responses, endpoint epochs | `MCInstance` |
| `AdminAccounts`, `ReceiptRelease` | accounts, sessions, audit; journal, receipts, release | `MCInstance` |
| `KubernetesController`, `HostOwnership` | list/watch loop and authority; which Ingresses may publish their hostnames | `MCInstance` |
| `UpdateInstall` | installation of a signed release: directory operations, lock, faults, crashes | `MCInstance` |
| `AcmeValidations` | HTTP-01 token; DNS-01 orders and cleanup ledger | `MCInstance` |
| `AcmeCertificates` | issuer processes; the gateway's ACME runtime | `MCFleet` |
| `AcmeCertificatesProofs` | theorem of `AcmeCertificates` | |
| `TcpListeners`, `TcpStreams`, `UdpRelay` | listening sockets; TCP connections and health; flows of a datagram listener | `MCGateway` |
| `TrafficHistory` | TCP and HTTP history rings, their recording policy, paging readers | `MCGateway` |
| `MaterialReload` | certificate, workload and country-database files under replacement | `MCGateway` |
| `AccessRules`, `RouteScopes` | stateless client decisions; hosts, paths, route order, server names | `MCGateway` |
| `NativeDispatch`, `AuthorityLease`, `GuardClient` | native authorization of a request; leases of streams; guard client | `MCGateway` |
| `AdminApi` | administration surface | `MCGateway` |
| `ConfigStore` | SQL configuration store below `ConfigPublication` | `MCGateway` |
| `DockerDiscovery` | daemon connection, refresh, endpoint epochs, resolution | `MCGateway` |
| `SnapshotBuild` | what a new snapshot shares with the running one | `MCGateway` |
| `RequestPathProofs` | theorems of `PolicyPool`, `HttpPipeline`, `ResponseCache`, `RemoteKeys`, `BearerSessions` | |
| `InstanceProofs` | theorems of `HostOwnership`, `MemberRetirement`, `BackendHealth`, `ReceiptRelease`, `AdminAccounts`, `UpdateInstall`, `KubernetesController` | |
| `GatewayProofs` | theorems of `UdpRelay`, `TcpListeners`, `AuthorityLease`, `MaterialReload` | |
| `AcmeValidationsProofs` | theorems of `AcmeValidations` | |

`MCFleet`, `MCRequestPath`, `MCInstance` and `MCGateway` put components side by side
that share no state: the variable `subject` names the component whose steps a
behaviour takes, so a run explores each of them by itself (the state counts add, they
do not multiply).  The variables of the others are `Off`; those a property of a
component with a theorem reads have values on which it says nothing, so that the run
checks the very formula that is proved.

Definitions whose comment begins with `Mutant:` are deliberately wrong variants
of the definition that follows them; `PROJECT.json` pairs each with the property
that rejects it.

### ConfigPublication

`pc[m]` is how far the holder of the `writes` mutex of instance `m` got; between
two values of `pc` lies an await of the code.  A write goes `idle` -> (`catchup` ->
`judge` -> `adopt`) -> `precond` -> `cas` -> `publish`; a poll goes `idle` -> `judge` ->
`adopt`.  `cont[m]` remembers who asked for a reconciliation and `Return` continues
there: `reconcile_stored` is one piece of code with three callers.  Statements in
`wire` are executed by the store in any order and at any time after they were
sent, also after their sender gave up or died, which is what a reconnecting
PostgreSQL client can produce.  `Backend` selects the protocol: PostgreSQL sends
at most twice, stamps the operation into the row and keeps receipts; Redis sends
once and answers a lost compare-and-swap with the row it saw.

`history`, `written` and `restored` are observation only: no guard reads them,
except that clients submit revisions somebody could have read.

A document is `[revision, body, cache, floor]`: the body is opaque, the cache
generation and floor are kept because `Normalize` computes with them.

`Fail` and `Confirm` are `store_failure` and `store_confirmed`; readiness is what
they and the lifecycle controls make of it.  `GraceTimer` may fire at any step
because the watcher's timer runs while a poll is pending on the lock.

### SupervisorHandoff

`phase` is the supervisor's position; `down[g]` and `up[g]` are the two directions of
a generation's channel.  `Reject` is the common error path of `replace` and of its
caller: an activated executable is rolled back first (`Rollback`), then `Resume` is sent.
The rollback may fail and the worker is resumed all the same; `unrestored` remembers
that, and the claim on the installed executable is stated without it.  A control channel
that fails (`ChannelFails`) and a control that cannot be answered lead into the orderly
shutdown (`BeginShutdown`); only a failed `try_wait` ends the supervisor (`Bail`).  A worker
handles one control at a time in `lifecycle_wait`; an export waits for the writer
lock (`writing`).  Single-node documents are numbered by the write that produced
them.

### MemberRetirement

A gate is one generation of one member.  `Prepare` builds a candidate: gates of
unchanged members are shared with the published snapshot, others are fresh, and
the plan of gates to retire is reserved in the registry.  `CommitBegin`, `Retire`,
`RecordRetired`, `Publish` are the steps of `activated` and of the pointer swap that
follows; connections interleave with each of them because they only touch the
gate's atomic word.  Only one publisher runs at a time (the caller holds `writes`).
HTTP and TCP members use the same gate; the connection steps are those of `tcp.rs`,
which rechecks the gate after the dial.

### BackendHealth

`node` is the `Node` of one backend, `own[e]` what the evidence of endpoint epoch
`e` alone amounts to (observation only).  Requests and the prober are actors.
`observe_epoch` and `ensure_epoch_locked` reset a node field by field under `endpoint_lock` and stores the
epoch last (`ResetStep`, one atomic store per step), while requests read the flags
without the lock (`CheckField`, one load per step).  `Respond` and `RecordProbe` apply
evidence under the lock after comparing epochs.  `policy` is the route's health
policy, chosen initially: passive cooldown, or active checks that begin healthy or
in the checking state.

### ResponseCache

A stored response is the version of the origin's content it was made from;
`token` is the pair (configuration generation, local purges) every request captures
at its lookup.  Lookups hold the read half of the invalidation lock (`Locked`), purges
and generation changes the write half; the disk tier opens lazily and drops its
rows when the recorded generation is another (`RowsOnOpen`).  `floor` is the origin's
version at the last invalidation (observation only).

### ClientLimits

Time is a clock that ticks; an instant is sampled before the lock it is used under,
so a record may be advanced by an older instant.  `era` and `evidence` count, for the
properties only, the failing responses that fell into one life of a client's
record.  The bans of one process come first, then the table shared in Redis, with one
action per Lua script; an answer may be lost after the script ran (`SharedAbandon`),
which leaks its reservation until the row expires.  The rates at the end have one rule
of each kind so that a request takes two locks in a row.

### RemoteKeys

`key()` is split at its awaits: `LookupKey`, `RaceFetch` (the singleflight flag),
`Recheck`, `BeginFetch`, `ReadIssuer` (the provider's answer), `PublishKeys`.  `Verify`
is the check after the signature that the key is still the cached one.  The monitor
task refreshes for sessions that outlive their first verification.

### PolicyPool

`slot` and `process` are the pool; a caller holds a slot's lock from `EnterSlot` until it
returns, kills the process when a call does not end with a complete answer
(`Terminate`, `CancelCall`), and a new process is spawned by the next caller.
`StopSlot` is one iteration of `shutdown`.

### AdminAccounts, ReceiptRelease

Every operation of `admin_users.rs` is one immediate SQLite transaction and so one
action, except a login: `LoginReads`, then a password hash outside any transaction,
then `LoginInserts` at an instant read before its transaction had its turn.
`unexplained` holds the accounts with a change that a policy filtered or a pruning
removed (observation only).

A release of a receipt is three commits in two stores: the local intent
(`PrepareIntent`), the store's evidence (`ReleaseExecutes`), the local acknowledgement
(`Acknowledge`).  Statements in `sentCas` and `sentRel` execute late or never; two callers
release the same operation; an administrator prunes on a page read earlier
(`decision`).

### KubernetesController, HostOwnership

`stage` is where `Controller::run` is: `list`, `publish`, `watch` or `pause`.  Watchers
advance `stream` and fill the bounded `channel` whatever the stage; `WatchersJoined` is
the restart of the loop, in which the channel is lost and a watcher blocked on a full
channel has already counted its event.  An object exists or not, and the snapshot
built from a cache is named by the cache.  Freshness stands for the instants the code
compares: `Silence(k)` is the passing of a staleness deadline together with the
reassessment it wakes.  That assumes that the clock read after a deadline's wake-up
is later than the deadline; at exact equality `defect` still says fresh while
`deadline` no longer arms, and the reassessment would wait for the next message.
`owed` remembers which kinds lost an event since their last list (observation only).

`HostOwnership` takes the Ingresses in the order `authorize_hosts` sorts them by; the
operators `Oldest`, `Owns`, `Conflict`, `Dropped`, `Authorized` are its passes over the
claims.

### UpdateInstall

The directory is `disk`, its contents as of the last fsync, and `unsynced`, the operations
since, each the contents of the names it changed.  A machine failure keeps any subset
of the unsynced operations, each as a whole (`CrashStates`): that is weaker than a file
system with an ordered journal, and it is what makes the fsync between linking and
swapping matter.  A failed fsync leaves its operations unsynced.  Each step of
`UpdateManager::activate` is an action (`Link`, `Retain`, `Swap`, `Activated`), so a kill, a
machine failure or a fault falls between any two of them; the guards that remove the
staged file and the rollback link on an early return are `Cleared`.  `Discard` and
`Restore` hold one operation and its fsync: a crash between them leaves what a crash
before or after leaves.  A binary is its version; `proven`, `before` and `faulted` only
observe.  `verify_envelope` compares a release with the version the supervisor takes itself to be, not with
the installed file: with two supervisors on one path an older release can be
installed over a newer one, by a supervisor that runs a still older one.

### AcmeValidations

The first half is one HTTP-01 token.  `turns` is its mutation lock, the holder first and then, in order, those who
wait (tokio's mutex is fair).  Installing the entry and joining the queue are two
steps, as are removing it and joining.  `flight` is the holder's mutation; a
caller that gives up or is dropped leaves `Background` in its place, which holds the lock
until the store has answered.  `Fails` is a failure in any of its forms: not executed,
executed with the answer lost, or given up by the store's own timeout and still to
execute (`given`).  `reported`, `lapsed`, `late` and `excused` only observe.  The token belongs to
one process; a restart, after which its records run out, is not modelled.

The second half is `AcmeEngine::issue` with DNS-01 proofs and the cleanup ledger of the
provider; the zone is external and may execute a request whose answer was lost.

### HttpPipeline

One request through `handle`, `handle_unfinalized` and `handle_inner`; `rq.pc` is its
stage and an early return answers and drops what the request held.  `inForce` counts the
generations of every part a publication or an authority can replace; a lease or fence
is the generation `rq.snap` remembers, and each recheck of the code compares the two.
A header field is represented by its origin (`Fields`): client, gateway, policy.
A native route is observed or `strict`: an observed one carries the gate of its
observation to the write (`CarriesGate`), a strict one is fenced before the dispatch
(`FenceDispatch`) and then leaves on the ordinary client, where nothing rechecks the
snapshot; `DispatchSound` claims the snapshot at the write of the former only.  Which
features a route has and what arrives is chosen initially from `Profiles` and
`Arrivals`.  `DispatchSound`, `ResponseSound` and `TunnelsDrained` are stated on what was
sent, what the client gets and what survives a shutdown.

### RequestInspection, BodyRecords

`RequestInspection` has the rules of `request_blocks.rs` over abstract parameters, the two
ways a body is collected with the permits and the quota they take, the rewrite by Lua or
a transform with the second inspection, and the policy fence before the request leaves.
A transform that changed the content type or encoding is refused before a staged body
is judged again (`StagedRetyped`).
The blocking half of a spool write may outlive its request; its lease counts until it
ends.  Its second half, the multipart parser, feeds one body in arbitrary pieces and compares with the same
parser fed byte by byte, and with the lines a lenient upstream would split at.
`BodyRecords` cuts lines and events from arbitrary frames and compares with the lines of
the whole body.  It leaves out the removal of a byte order mark, the limit of 1,024
lines per event and how `data` lines are rendered again.

### BearerSessions

Verification on a blocking thread (`VerificationSlots`), then a session that is checked
before every frame.  Two clocks: `mono` only advances, `wall` may be set back by an
operator.  A route is published again with another or the same document; a lease holds
the identity of the runtime, not its content.

### AcmeCertificates

The first half is the standalone issuer over one account file and output directory: the
directory operations of `write_generation` are steps, a crash may fall between them.
The second is `acme_runtime.rs` in several processes: the run loop and the one attempt
beside it, both of which publish (`publish_loaded`'s store into the resolver and its
record of what is loaded are separate steps).  Certificates age from fresh to the
renewal window to expired.

### TcpListeners, TcpStreams, UdpRelay, TrafficHistory

`TcpListeners`: prepare binds what is missing; commit exchanges the datagram listeners,
publishes, then starts and cancels accept loops, one step each.  `TcpStreams`: a
connection's admission, choice, dial and the rechecks after the dial, against probes that
reset a node field by field.  `UdpRelay`: the loop and its session tasks; the loop learns
of an ended session only when it joins it.  `TrafficHistory`: a guard takes an id when it
begins and decides at its drop, by the policy of that moment and outside the lock,
whether it is recorded; readers page with a cursor.  Age is the freedom to forget any
number of oldest entries where the code prunes.

### MaterialReload

Three watchers of a certificate file and its key, and the slot of the country database.
The two files are written one by one; a read takes metadata before and after.  The
gateway's pair and the sets of a snapshot keep what they have when a reload fails,
workload material is withdrawn.

### AccessRules, RouteScopes

Pure decisions, evaluated for every input of bounded sets (a request picks one
comparison in `GateNext` and `ScopesNext`).  The reference definitions are semantic: the
paths two scopes share, the names a pattern means, the decision of each rule alone.
`RouteScopes` also has the indexed choice of a TCP route by server name (exact names,
simple wildcards, general patterns, expressions, per priority) against a plain search
over the patterns, on every pair of routes that `Config::validate` accepts.
`CheckResource` has the authentication a guard adds (`AuthenticationGuard`) and the 404 of
a disabled path-scoped transform (`TransformWithheld`).

### NativeDispatch, AuthorityLease, GuardClient

The three clients of external authorities.  The authorities are modelled by the
revisions they publish; every answer is given at the revision held when the question
arrives and may be used later.  Signatures, digests and scopes match or refuse the call.
Time is a clock of whole ticks; a lifetime is compared where the code compares it.
A guard client that is cancelled loses the signals still queued (`StopWorker`): they are
counted as neither sent nor dropped, which `signals.lost` records.

### AdminApi

A caller is one request: admission by a budget, authentication, its endpoint, the
body sent until the client has read it.  Endpoints that behave alike share an operator
(`ReadOwn`, `Examine`, `AccountOperation`, `ObserveState` and `Disclose`) and are separate
actions.  Detached tasks continue after their caller left and keep a permit; an edit is
one of them: `StartEdit` hands it to a task, `AcceptEdit` checks the revision under the
writer's lock, `CommitEdit` applies it, and `AwaitEdit` is the caller, if it is still
there.  The pages of TCP connections check the role again on both sides of the read
(`TcpPage`).  When the
account store fails during authentication, the 503 keeps the administrator's permit
while it is sent, also for a caller that was never authenticated; `BudgetsSeparate` is
stated with that exception.

### ConfigStore

Below `ConfigPublication`: rows, stamps and receipts of the SQL stores, with writers of
four kinds (plain, identified, a program version that knows no stamps, a seed), statements
that are sent once more (`Unanswered`) or execute late, and operators
who restore or wipe the database.  A load is several statements (`LoadRow`, `UpgradeEpoch` of
a row from before epochs, `Reread`, the proof), between which the row may change; the reads
after an unknown outcome are such loads.  A row the older version wrote keeps the stamp it
found unless the trigger withdraws it, which is what `StampCurrent` is about.  An insert that was answered while the read behind it
fails is reported as unavailable or invalid although the row exists; `OutcomeTruthful`
names this exception.

### DockerDiscovery, SnapshotBuild

`DockerDiscovery`: editors replace the connection under a lock and a file, a handoff
freezes it, a refresh inspects containers of the connection it started with, a request
resolves.  A save may fail after its rename; the file then has what the memory does not
(`stray`) and the next start reads it.  An endpoint keeps its epoch only under the same connection and while the same
identified process answers at the same address.
`SnapshotBuild`: an object is the slot and the build it was made for; a document is a
record of sections.  Which objects a build takes over is compared with what it may take
over: the same configuration, the same CA file content, the same variable.  Rules of path
limits and bans and the nodes of a TCP pool are taken over one by one (`RuleReused`,
`TcpNodeKept`); a permission authority that cannot be prepared is left out or refuses the
build, as its mode says (`AuthorityPrepared`).  It leaves out
`require_revision` of the permission authority and the capacity of the registry of
retired members, which `AuthorityLease` and `MemberRetirement` have.

## Runs

Bounds are named constants.  Counters exist only to end the exploration
(`MaxOps`, `MaxGates`, `MaxGens`, `MaxDocs`, `MaxSignals`) and `MaxDisruptions`
limits how many faults of the kinds in `Disruptions` one behaviour contains;
everything between faults is unbounded interleaving.

| run | question | bounds |
|---|---|---|
| `fleet_faults` | two PostgreSQL writers with lost answers, late and rejected statements, crashes, failed journal writes, documents that turn the cache on and off; restarts and updates that fail in every phase; ACME issuers and gateways that share an account and a bundle | 2 instances, 2 operations, 2 faults; 3 generations, 2 documents, 1 fault; issuers and bundles: 2 processes, 2 certificates, 2 domain sets, 2 stops or 1 trouble |
| `pub_lifecycle` | the protocol on Redis, with freeze, export, resume, replacement, withdrawal, crashes and stalled polls | 2 instances, 2 bodies, 2 operations, 2 faults of 10 kinds |
| `pub_restore` | restored backups, wiped stores and failed reads under writes in flight; the refinement of `Authority` | 2 instances, 2 bodies, 2 epochs, 2 operations, 2 restores, wipes or failed reads |
| `pub_converges` | liveness: instances end ready on the durable document | 1 operation, 2 faults |
| `pub_rollback` | (violation) a rolled-back instance recovers without a restart | 3 operations, 1 restore |
| `handoff_live` | a frozen worker resumes; shutdown ends; processes do not pile up | 4 generations, 3 signals, 2 faults, one draining generation allowed |
| `handoff_late_export` | (violation) a late export is taken for the next one | 2 generations, 1 late export |
| `request_path` | each request-path component under concurrent requests at its limits | 2 requests; cache: 1 target, 1 fill permit, 1 content change, 1 generation, 1 purge, 1 crash; bans: 2 clients in a table of 1, threshold 2; rates: burst 2; keys: 2 versions; pool: 2 slots, 3 processes; tokens: 5 route documents, 4 tokens, 1 verification slot, 3 publications; pipeline: 7 route profiles, 7 kinds of arrival, 2 members, 1 retry, 1 change of what is in force; inspection: 2 rules, 1 inspector, 2 spool slots, quota 3; multipart: pieces of 2, 2 parts; records: bodies of 6 bytes, frames of 3, buffer 3 |
| `instance` | what an instance keeps beside its requests | members: 2 members, 2 transports, 3 gates, 2 connections, registry of 2; health: 2 requests and the prober, 2 endpoints, 2 results, thresholds 1 and 2, one kind of failure; accounts: 2 names, 1 login, 2 sessions, audit of 2, 4 records; releases: 2 callers, 2 operations, ledger of 1, 2 faults; Kubernetes: 2 resources of 1 object at most, channel of 1, 3 changes, 1 freeze; hosts: 3 Ingresses, 2 namespaces, 4 patterns; updates: 2 supervisors, 3 releases, 4 temporary names, 1 fault, 1 outage; challenges: 3 installations, 2 removers, 2 attempts, 1 fault; orders: 2 orders, 2 providers, 4 records, ledger of 2, 2 attempts |
| `gateway` | the gateways and the surfaces around them | listeners: 2 addresses, 2 commits, 1 stream; streams: 2 streams, 2 members, 2 endpoints; UDP: 3 clients, 2 sessions, 3 flows, queue of 2, 4 bytes; history: 2 guards, ring of 2, pages of 1, 3 ids; material: 3 writes, 2 usable and 1 unusable version; country database: clock of 3 instants; rules: ranges of 3 kinds, 2 header members; scopes: paths of 4 bytes, labels of 3; server names: 7 patterns, 7 names, 2 priorities; native calls: 2 calls, 3 modes, 1 route slot; leases: 1 stream, 2 permissions, 2 revisions, age and deadline of 1 tick, 2 ticks; guard: 2 queries, 4 setups, pool of 1, cache of 1, sockets of 1 tick; administration: 2 callers, 1 permit per budget, 2 revisions, 1 change from outside; store: 2 writers of 4 kinds, 2 operations, 2 epochs, 3 receipts; Docker: 2 editors, 2 daemons, 2 starts; snapshots: 5 documents, 3 builds |
| `kube_authority` | (violation) authority is reported while an object rejected at capacity was never relisted | as in `instance` |
| `health_fence` | (violation) a request reads the flags of an endpoint another request is resetting | 1 request, the prober, 2 endpoints |

Two instances and two operations are the smallest configuration in which one
writer can win while the other's answer is lost and its late statement is still
on the wire; a third operation is only needed where a property speaks of a store
written past a stale revision (`pub_rollback`).  The properties of
`fleet_faults` and `pub_restore` on publication and handoff are proved for every bound
(see Proofs); these runs check the same definitions where a mistake in them would show.
The code lets two generations
drain; `handoff_live` checks the same bound with one (`MaxDraining`).  Three generations allow a failed candidate to be followed by a
successful one.  Three gates allow a member to be drained and returned; a registry
of two makes it run full.

In `request_path` every limit (fill permits, table room, bucket, window, slots) is
smaller than what two requests can demand, so the full, the waiting and the evicting
cases all occur; the clocks run long enough for a window, a ban, a key or a cooldown
to end and a second one to begin.  In `instance` two endpoints and two results are
enough for evidence of the first endpoint to arrive during and after the reset to
the second; two users and two sessions make every session limit bind; a cache of
one object per kind with two objects in the API server makes it reject; three
Ingresses let a wildcard meet an older and a younger host name at once.  Three
releases let a supervisor fall two versions behind the other; one fault is enough for every
early return of the activation, and an outage may follow it.  Three installations let a
token be replaced twice while the first is still in flight.

In `gateway` every semaphore, pool and ring is of size one or two, so that waiting,
refusing, evicting and the gap a reader must be told of occur; a second
commit lets a listener go and another take its address (the theorems have any number); two endpoints let a stream dial one
and find the other; three builds let an object be taken over twice and then dropped.  An
instance starts at revision 1 of a document whose second revision an edit, the other
caller's edit or another instance may write, so that stale, winning and losing edits all
occur.  Receipts for three commits leave room for one between two pages of an export;
the clock of the leases reaches age plus deadline.

What the properties say, by run:

* `fleet_faults`, `pub_*`: `ActiveWasCommitted` (an instance serves only documents that
  were durable under the epoch it follows), `JournalTruthful` (an outcome in the journal is
  what happened to the store's row), `NoLostUpdate` (a write is built on the document it
  replaces, a revision names one document, the cache generation never falls),
  `ActiveMovesForward`, `InstancesHonest` (the exported snapshot stays the published one,
  readiness is justified), `ImplementsAuthority` (refinement of `Authority`), `Converges`.
* `fleet_faults`, `handoff_*`: `ServiceKept` (some generation accepts; the executable on
  disk is the one that runs, unless a rollback failed), `SingleWriter`, `ExactSnapshot`, `BoundedGenerations`,
  `ReplacementsEnd` (a freeze is lifted, a shutdown ends).
* `fleet_faults`: `CertificatesKept` (`IssuerSound`, `BundlesSound`).
* `request_path`: `CacheCoherent` (nothing older than an invalidation is served or kept;
  fills are coalesced), `LimitsExact` (bans and rates), `KeysDisciplined` (withdrawn keys,
  single fetch, watched sessions), `SessionsBounded` (a token admits under the rules and
  for the time it was verified for), `PoolSound` (every caller gets its own worker's answer,
  no process outlives its use), `PipelineSound` (what reaches an origin and what a response
  leaves behind), `BodiesInspected` (`InspectionSound`, `PartsExact`, `RecordsExact`).
* `instance`: `MembersExact` (drained means no work, serving means open, retirement is
  final), `OwnHealthOnly`, `AccountsSound`, `ReleasesKept`,
  `AuthorityTruthful`, `HostsOwned`, `InstallTruthful`,
  `ValidationsAccounted` (`ChallengesSound`, `OrdersAccounted`).
* `gateway`: `ListenersSound`, `RelaySound`, `LeaseSound`, `StreamsExact` (`StreamsSound`,
  `HistoryAccounted`), `MaterialCoherent` (`MaterialSound`, `GeoSound`), `RulesExact`
  (`DecisionsSound`, `ScopesExact`), `GuardExact` (`DispatchSound`, `GuardSound`), `AdminExact`
  (`AdminSound`), `StoreExact` (`StoreTruthful`), `DiscoveryExact` (`DiscoverySound`),
  `SnapshotsExact` (`SnapshotsSound`).

The name in parentheses is the component's own property, stated and explained in its
module; the name before it restricts it to the behaviours of that component, or, for
`ValidationsAccounted` and `MaterialCoherent`, is the conjunction its module defines.

Every run sets `CHECK_DEADLOCK FALSE`: with a bounded number of operations the
programs legitimately come to rest.

### Four disagreements between code and its documentation

`pub_rollback`: `docs/SCALE_OUT.md` says running instances stay unready after a
restored backup until they are restarted.  `reconcile_stored` remembers nothing of
the rollback; once another instance has written the restored store past the stale
instance's revision, the next poll takes the row for an ordinary newer document
and the instance is ready again.  In the same situation an un-restarted instance
whose revision happens to equal the store's can compare-and-swap over a document
it never saw, which is why `NoLostUpdate` is checked on behaviours without a restore.

`handoff_late_export`: `docs/UPDATES.md` says the candidate receives the exact
runtime configuration of the frozen worker.  Exports carry no identity: one that
arrives after the 15-second deadline stays in the channel and is accepted as the
answer to the next restart, while the worker, told to resume, may have published
a newer document.

`health_fence`: the comment at `src/balance.rs:495` says health and admission must both
apply to the exact endpoint generation, and that the second epoch read fences a
concurrent replacement.  `ensure_epoch_locked` clears the flags first and stores the
new epoch last.  A request that holds the old epoch therefore reads that epoch
twice with the flags of the reset in between: an endpoint found unhealthy passes
all four checks and the request is sent to it.  The other direction is fenced (a
new endpoint is never used on the flags of the old one), and evidence is never
misattributed; both are part of `OwnHealthOnly`.

`kube_authority`: the comment at `src/kubernetes.rs:189` says authority is `false` while
a kind's cache is incomplete and `true` once every kind is fresh and complete again.
The set of incomplete kinds is part of the cache.  When a watch version expires,
the cache is discarded with it; the pause before the next list assesses an empty
set while the kinds still count as fresh, and reports `true` before any list has
succeeded.  A list that keeps failing at the same object limit leaves the replica
ready until its kinds go stale.

Noted without a run: the comment of the cache generation (`src/cache.rs`) says any
value other than the current one is adopted; the code adopts only greater ones, as
`docs/CACHE.md` says.

Also without a run: `docs/ACME.md` says that no later publication or withdrawal of a
token can interleave with an abandoned write.  That holds for a write `mutate` itself
abandons.  The PostgreSQL and Redis stores end a statement with an error after 5 and 6
seconds of their own, below the 30 seconds of `mutate`, which takes the error for the
end of the write and releases the lock; the statement may still execute.  `AcmeValidations`
contains this (`GivenUpExecutes`), and `ChallengesSound` is stated for states that no such
statement has touched since the last acknowledged mutation.

## Fairness

`ConfigPublication!FairSpec`.  The poll loop ticks for ever and `writes` is a fair
(FIFO) mutex, so a poll that is repeatedly possible happens: `SF` on `Poll`.  Once
begun, a transaction or reconciliation is a task that the runtime keeps polling:
`WF` on its steps.  A statement the store received is executed: `WF` on `Execute`.
No fairness is assumed of operators, clients, faults or restarts.

`SupervisorHandoff!HandoffFairSpec`.  The supervisor's loop and its phase deadlines: `WF` on
`Supervise`.  A worker's lifecycle loop waits in `freeze_updates` for the fair writer
lock, which writers may take again and again before it: `SF` on `Lead`, `WF` on the end
of a started write.

## Proofs

All theorems hold for every value of the constants that satisfies the assumptions of
the module they are about.

### What is served: `ConfigPublicationProofs`

* `TypeCorrect`: `Spec => []TypeOK`;
* `ServesCommitted`: `Spec => []ActiveWasCommitted` - an instance only ever serves a
  document that was durable under the epoch it follows.

The assumptions are those of `ConfigPublication` on its constants (the backend is one
of the two, bounds are naturals, `None` is none of the values it stands beside, `Off` is
not a number).

`ActiveWasCommitted` is not inductive: whether publishing is safe depends on what a
transaction knows.  The inductive invariant `IInv` adds

* `TaskInv`: what each value of `pc` and `cont` says about `obs`, `txn` and `life` (a
  transaction in `cas` or `publish` owns a journalled operation; a judged row exists);
* `JournalInv`: journal entries are exactly the numbered operations, statements on the
  wire and stamps belong to them;
* `EvidenceInv`: every row that can be read - the store, the backup, an answer, an
  observation, an export - is in `history`, and a transaction in `publish` has its
  candidate in `history` under its epoch;
* `ServingInv`: `ActiveWasCommitted` with what freezing and seeding processes know.

Each action gets one step per conjunct it can disturb; frame lemmas cover the
conjuncts whose variables it leaves alone.  The only interesting steps are
`CasChanged` and `ResolveApplied` (an applied answer, or a row that carries the
candidate and its stamp, is evidence) and `Adopt` (an observed row is evidence).

### Journal, writes and refinement: `ConfigAuthorityProofs`

* `JournalIsTruthful`: `Spec => []JournalTruthful`;
* `InstancesAreHonest`: `Spec => []InstancesHonest`;
* `NoUpdateIsLost`: `Spec => NoLostUpdate`;
* `AuthorityImplemented`: `Spec => ImplementsAuthority`, the refinement of `Authority`;
* `DocumentsMoveForward`: `Spec => ActiveMovesForward`, read off the refinement.

They rest on `IInv` and on a second inductive invariant, `SInv`, of which TLC checked
every conjunct on the `pub_*` runs before it was proved:

* `OutcomeInv` is why a journalled outcome is final.  `OpInv`: an accepted operation names
  the successor of a document that was durable, and does not lower its fence; `TxnInv`: a
  transaction past its acceptance owns its operation and was prepared on what is served;
  `CertainInv`: while no attempt went unanswered, only the current one can be on the
  wire, and an applied one was answered as such; `ConflictInv`: a conflict is concluded only
  of an operation that was not applied and has no statement on the wire; `StampInv`: a stamp
  in the row or the backup, and an answer that says so, belong to an applied operation;
* `HistoryInv`: epochs are drawn once; without a restore a revision of an epoch names one
  document and the store holds the newest;
* `AdoptInv`: a row about to be adopted is newer than what is served;
* `FrozenInv`, `ReadyJustified`: what freezing and confirming leave behind.

The refinement maps `past` to `history`, `current` to the row without its stamp and
`view` to what running instances serve; each action is shown to be one abstract action
or a stutter (`LifecycleRefines`, `ReconcileRefines`, `WriteRefines`, `ExecuteRefines`,
`OperatorRefines`).

### The supervisor: `SupervisorHandoffProofs`

* `HandoffTypeCorrect`: `HandoffSpec => []HandoffTypeOK`;
* `HandoffKeepsService`: `HandoffSpec => []ServiceKept`;
* `HandoffBounded`: `HandoffSpec => []BoundedGenerations`;
* `HandoffSingleWriter`, `HandoffExactSnapshot`: `SingleWriter` and `ExactSnapshot`, under
  the hypothesis `"slow" \notin Faults`.

The hypothesis is necessary: with a worker that answers after its deadline,
`handoff_late_export` exhibits the violation of `ExactSnapshot`.  The first three theorems
need no hypothesis on the faults.  The inductive invariant `Inv` says which generations
exist and who owns them (`OwnerInv`, `UnbornInv`, `RoomInv`), what each phase of the
supervisor implies for the active and the candidate generation (`LifeInv`, `StageInv`,
`ServeInv`), what may be in a channel (`OfferInv`) and what is installed on disk
(`DiskInv`, up to a failed rollback).  `WriterInv` adds what the channels may hold while a worker is frozen: no
export that the supervisor is not waiting for, no `Resume` left behind a newer `Freeze`.

### Hostnames: `InstanceProofs`

`OwnershipHolds`: `HostsSpec => HostsOwned`, for any
namespaces, hostnames and set of ages (integers).  The decision is a function of one
set of Ingresses, so the invariant is only the type of `ingresses`
(`IngressesTyped`); the content is in lemmas about that function.  A pattern has
one oldest claimant (`OldestUnique`); of a wildcard and a covered host name of
different owners one is dropped (`OneIsDropped`), hence `Exclusive`; the claims of
the oldest Ingress are owned and not dropped (`OldestAuthorized`); and adding a
younger Ingress changes the oldest claimant of no pattern that had one
(`OldestKept`), so that a withdrawal in the larger set would have been one in the
smaller (`YoungerHarmless`).

### Members: `InstanceProofs`

* `MembersAccounted`: `MembersSpec => [](DrainAccounted /\ ServingIffOpen)`;
* `MembersAreExact`: `MembersSpec => MembersExact`, which adds that no step reopens a
  retired gate or gives it a lease.

For any members, endpoints, connections, gates and capacity; connections are finitely
many (`ConnsAssumption`), bounds are naturals and there is a transport to configure.  The
inductive invariant `MembersInv` adds to what the theorems say

* `PhaseInv`: what preparation, closing and publication owe: a prepared candidate has
  reserved exactly the gates its publication retires (`Plan`), a closing one still has a
  part of them to close;
* `GateInv`: published and candidate gates are in use, fresh ones are not published,
  and both snapshots admit exactly what their documents serve;
* `ConnInv`: a connection is on a gate that was published, so a fresh gate has no lease;
* `RegistryInv`: what is recorded is retired, and live records, reservations and gates
  still to close fit the capacity together.  The last is why the registry never overflows
  although `commit` returns its reservation before it records: the gates still to close
  keep the room.

### Health: `InstanceProofs`

`HealthIsOwn`: `HealthSpec => []OwnHealthOnly`, for any number of requests, endpoints and
results and any kinds of failure, under `HealthBounds`.  `HealthInv` says for every actor
what it may rely on (`ActorOK`) and for the node (`NodeInv`)

* that only the holder of `endpoint_lock` resets, towards a later epoch, and that each
  field it has stored is that of a new endpoint (`Place` is the order of the stores);
* that an endpoint the node has not reached has no evidence, so that the last store of a
  reset makes node and endpoint agree again;
* that a node in checking shows `pending` whenever its endpoint is, also during a reset;
* that a reader past the `pending` flag either saw its own endpoint qualified or has been
  overtaken by a later epoch, which its last read of the epoch then finds out.

The last is the argument of the code's second epoch read.  It covers `pending`, which a
reset only sets; `health_fence` shows that it does not cover the flags a reset clears.

### Receipts: `InstanceProofs`

`ReleasesKeptAlways`: `ReleaseSpec => ReleasesKept`, for any number of callers, operations
and faults and any room of journal, receipts and ledger.  The ledger alone does not say
whose a release identity is: a late statement may still put it there.  `ReleaseInv` adds

* `JournalOwn`: a release identity belongs to one operation for good; the journal holds the
  pair while it holds the operation, the ledger from then on, and no identity that was not
  issued occurs;
* `CallersOwn`: every caller past its preparation, and every release statement still on its
  way, carries such a pair, so whichever of them executes, and in whatever order, releases
  the receipt its identity stands for;
* `DecisionSaw`: as long as the history has the revision of a decision, whatever is eligible
  now was eligible when the page was read.

### Accounts: `InstanceProofs`

`AccountsSoundAlways`: `AccountsSpec => []AccountsSound`, for any names, logins, audit
policies and limits (the bounds are naturals; a user and the audit have room for one).
A login is two transactions with the password hash between them, and only the second
takes a session.  `AccountsInv` adds

* `LoginsFenced`: a login past its check knows the account under its present epoch, then
  also under its present role, or under an earlier epoch; ids are not used again, so it
  never means another account of the same name;
* `SessionsHonest`, `SessionsFew`: what the property says of sessions, with the finiteness
  that counting needs.  Enabling an account revokes nothing, which is sound because a
  disabled one has no session left;
* `AuditTypes`, `AuditCounted`: the prune boundary stays below the next id and the stored
  count is exact, so a record just written is the latest about its account (`AllTraced`).

### Updates: `InstanceProofs`

`InstallTruthfulAlways`: `InstallSpec => InstallTruthful`, for any supervisors, releases,
temporary names and numbers of faults and outages.  What a crash leaves is the last synced
directory under any subset of the operations since; `LargestExists` (a nonempty set of
numbers up to some bound has a largest) and `CrashOneMore` reduce that to one operation at
a time.  `InstallInv` adds

* `UpdatesLocked`: only the lock's holder is between an update's begin and its end;
* `WholeRelease`: in every crash state the install path names a whole release;
* `UpdateInv` of the holder: which names are its own (`NamesInv`), what they hold at each
  step and at which steps nothing is unsynced (`FilesInv`), and what it has changed of the
  directory it found (`TraceInv`), which is why a rejected update can leave it as it was;
* `ProvenKept`: some name that the running update does not remove holds the last proven
  release in every crash state that does not have it installed.  While the binary is being
  replaced it is there in every crash state: that is what the sync between link and swap
  buys, and without it the rename could survive a crash that the link did not.

### The Kubernetes controller: `InstanceProofs`

`AuthorityTruthfulAlways`: `KubernetesSpec => []AuthorityTruthful`, for any kinds, objects,
object and channel capacities; no assumption on the constants is needed.  The cache of a
kind lags behind its watcher by what waits in the channel, so `KubeInv` counts that:

* `OneAtATime`: consecutive versions of a kind differ in one object, so a watch event
  determines the next version from the last;
* `ChannelInv`: a change at some position of the channel is the one from version `v` to
  `v + 1`, where `v` is what its watcher has read less the changes of the kind from that
  position on; `CacheInv`: the cache is the version before the first of them.  The counting
  lemmas (`WaitingSent`, `WaitingShifts`, `WaitingFirst`) say how sending and taking a
  message change these numbers;
* `LoopInv`: a loop that pauses or lists has no cache, or one it knows to be incomplete.
  This is what makes it sound to go on with the old cache after a failed list, although the
  restart dropped the channel and may have skipped events;
* `WordInv`: whatever `assess` reports is the verdict of the moment, so an apply by an
  unhealthy controller does not leave the runtime ready, and a waiting loop that did not
  fail has published its cache.

### Lua workers: `RequestPathProofs`

`PoolIsSound`: `PoolSpec => []PoolSound`, for any number of slots, callers and processes,
under `PoolAssumption`.  `PoolInv` is the type of the state and

* `LockInv`: a caller past `EnterSlot` holds the lock of its slot;
* `OwnInv`: a process rests in at most one slot or is talked to by at most one caller,
  never both, and a live one is not forgotten;
* `PipeInv`: the pipes of a process are empty, or carry the request or the answer of the
  caller that waits for it;
* `CloseInv`: a slot that shutdown has passed has no process and gets none;
* `OwnAnswer`: an answer a caller accepts was computed for its own request.

### Requests: `RequestPathProofs`

`RequestsSound`: `PipelineSpec => []PipelineSound`, for every route and every request.  The
invariant speaks of sets of stages: past which stage of the handler a check has passed
(`PassedInv`), a permit is held (`HeldInv`), the body has the form the request blocks
accepted, whatever the policy rewrote (`FormInv`), a member is pinned (`PinInv`) and the
header fields are the gateway's (`FieldsInv`).  `SendsInv` carries that over to what was
sent, which is at most one request because a retry is only taken before the first byte.
Only an observed native route has the snapshot it was observed under at the write: its
gate is a guard of `Transmit`, and the invariant says nothing of a strict one there.
`TunnelInv`: a shutdown that has waited admits no tunnel.

### The response cache: `RequestPathProofs`

`CacheCoherence`: `CacheSpec => CacheCoherent`, for any number of requests, keys, fill
permits, contents, purges and crashes.  A request's token is the invalidation generation it
saw; what makes the property inductive is that tokens only grow (`TokenOrdered`), that a
request under the read lock has the token of now (`LockHeld`), and that whatever is stored
under the current generation, in memory or on disk, or is carried by a request whose token
is current, was captured after the last completed invalidation (`CarriesFresh`, and the same
of entries).  A request whose token is older may carry anything: it is never stored.
`FillsInv`: a key's fill permit is held by the requests that fill it, and by nobody else.

### Remote keys and tokens: `RequestPathProofs`

`KeysDiscipline`: `KeysSpec => KeysDisciplined`, for any number of verifiers, versions and
any lifetimes.  `KeySetBounded`: the set in use expires one lifetime after its fetch was
*started*, and the version it brought was not withdrawn before that start; the provider's
later withdrawals need no message.  `FlagOwned`: the fetch flag has one owner, also while a
cancelled fetch is unwound; `CooldownKept`: a fetch reserves the cooldown before it starts.

`SessionsBoundedAlways`: `BearerSpec => []SessionsBounded`, for any routes, tokens and clocks.
`SessionInv`: the rules a session was verified under and the published ones are equal only
when no publication replaced the route in between (the code compares the `Arc`), and the
deadline was fixed on the monotonic clock when the wall clock was read.

### Datagrams, listeners and leases: `GatewayProofs`

`RelaySoundAlways`: `RelaySpec => []RelaySound`, for any number of clients, flows, sessions and
permits.  `LiveInv`: a live session is the flow of its client while the listener runs, and
none is left when it ended; `SequenceInv`: sequences are given out in order, so a late join
meets a table entry that is newer and leaves it; `BindingInv`: the client being bound has no
flow and the table has room for it.  The two semaphores are conserved quantities; the proof
counts how each step changes the set of live sessions and of queued datagrams.

`ListenersSoundAlways`: `ListenersSpec => []ListenersSound`, for any addresses, roles (with
`"tcp"` among them, and none of the names a refusal has), documents and commits.
`LoopsKeepRole`: the address of a running loop has the role it was started for, or no role
any more; `LoopsInstalled`: the installed listeners are the loops not cancelled;
`PlanCurrent`: what a preparation found still holds when it commits, because only the holder
of the publication lock changes it or because a shutdown refuses the commit;
`StopsInOrder`: datagram listeners end before accept loops, these before streams.

`LeaseSoundAlways`: `LeaseSpec => []LeaseSound`, for any streams, finite nonempty set of
permissions, revisions, ages and delays.  Answers are late, so the invariant dates them:
`ProbeDated` and `StreamsDated` say that the revision an exchange brings back was the latest
at some moment not before the exchange began, `SuccessDated` that the last success of the
watch is within one deadline of a moment at which the known revision was the latest, and a
renewal expires at most its ttl after a moment at which the identity was confirmed.  The
answers of a batch are one per question (an injection between sets of one size is onto), so
that equal revisions mean one revision for every permission.

### Material from files: `GatewayProofs`

`MaterialCoherentAlways`: `MaterialSpec /\ GeoSpec => []MaterialCoherent`, from
`MaterialSoundAlways` and `GeoSoundAlways`; the watchers of a certificate and of the country
database share no state.  For any versions, of which at least one is usable, and any number
of writes, publications and ticks.  The two files are replaced one at a time and read one at
a time, so `MaterialInv` dates what a pass has read:

* `PassCurrent`: as long as the metadata a pass started from stands, what it has read is
  what the files hold; when it changed, the pass may have read anything and is repeated;
* `CompleteKnown`: the files agree only on versions that were complete;
* `MemoryDated`, `SetInv`: a set is remembered as attempted only when it was installed, if
  it could be, so a standing observation has been acted on.  Without the attempts the
  watcher's early return on unchanged metadata could not be told from a missed change;
* `KeptUsable`, `WorkloadInv`: a watcher that keeps what it has holds usable material in
  every slot, the workload's holds what was verified or nothing.

`GeoInv` is `FloorAbove`: whatever was found stale lies below the floor, which only rises; a
loader that began before the lapse installs a database the floor refuses.

### Validations: `AcmeValidationsProofs`

`ValidationsAccountedAlways`: `ChallengesSpec /\ OrdersSpec => []ValidationsAccounted`, from
`ChallengesSoundAlways` and `OrdersAccountedAlways`; tokens and orders share no state.

For tokens: any number of installations, removers, publication attempts, abandoned
statements and faults.  `ChallengesInv` adds

* `FlightHeld`: whoever has a mutation in the store holds the mutation lock, also when its
  caller has gone and the mutation runs on in the background (`BackgroundAhead`: then it
  is at the head of the queue);
* `CurrentSafe`: the current owner is not cancelled and, once it was published, nothing is
  in flight against its record; so no late withdrawal removes a token that answers;
* `RemovalOwed`: a record in the store, or on its way, after its removal has a removal under
  way, unless a mutation failed or was skipped since (`excused`) or a given-up one executed
  late (`late`).

The order in which the lock is granted is not needed.

For orders: any finite set of values (none is called `"foreign"`), any numbers of records, orders
and cleanup attempts, and any capacity.  `OrdersInv` adds

* `ZoneInv`: records are created in order, the first is somebody else's, and a provider that
  refuses duplicates has each value once, which is why finding a record by its value finds
  the right one;
* `RoomKept`: a presentation has its place in the ledger reserved before the provider is
  touched, so the ledger has room for its outcome, whether a receipt or an uncertainty;
* `HeldOwned`, `AllCared`, `DeferredOwned`: every record of ours is held by the order, due for
  cleanup, uncertain, or was given up on, created late or forgotten (`orderExcused`).

### Certificates: `AcmeCertificatesProofs`

`CertificatesAreKept`: `AcmeSpec => []CertificatesKept`, for any number of issuers, gateway
processes, certificates, account keys, crashes, spoiled files and changes of settings, under
`AcmeIssuerAssumption` and `AcmeBundlesAssumption`.  Issuer and gateway share no state, so
the invariant has two halves.  `IssuerInv` is the type of the state and

* `AttemptLocked`: an attempt holds the account lock from its first step to its last;
* `GenerationInv`: what the pointer names, or an attempt is about to point to, is complete,
  and an attempt on its way to an order found nothing current (time cannot undo that);
* `AccountInv`: credentials on disk are of a registered key.  While an attempt has a
  registration to persist, that one is the only one heard of and the file has no
  credentials: without this, a crash after an external registration could not be told
  from a second account.

`BundlesInv` says of every process (`ProcessInv`)

* `RenewalLocked`: an attempt holds the lock, and an ended process has none, so only one
  process at a time changes the bundle or the certificates (lemma `OthersKept`);
* `AttemptKnows`: what the attempt and the watcher beside it rely on.  From its read to
  its decision the bundle is the one it read or was spoiled, so the expiry it decides by is
  that of the bundle on disk, also when the watcher was the one to record it;
* `HoldsReal`: what is read or served was written, what is retained was issued;

and `Accounted`: every certificate was written, is retained or was given up on.  The issued
certificate overwrites nothing retained because an order is only placed when nothing is.

## Only model-checked

* Liveness under fairness (`Converges`, `ReplacementsEnd`) is outside the prover.
* The properties without a theorem: `LimitsExact` and `BodiesInspected` of `request_path`,
  and of `gateway` all but `ListenersSound`, `RelaySound`, `LeaseSound` and `MaterialCoherent`.
  For the pure algorithms among them (`PartsExact`, `RecordsExact`, `ScopesExact`,
  `DecisionsSound`) a general proof would be an induction over the input, which the prover
  cannot do; the choice of a TCP member (`StreamsSound`) is a recursive sum of weights.

## What the models leave out

* The journal's capacity (10,000 operations) is `MaxOps` in `ConfigPublication` and
  `JournalRoom` in `ReceiptRelease`; the number of authorities a store admits is not
  modelled.
* Passwords are values and their hashing a step; the work limits of hashing, schema
  migrations and the paging of accounts are not modelled.
* Ingress status updates, certificate selection and the translation of Ingress
  rules to routes are not in `KubernetesController`.
* PostgreSQL's two recovery reads after an unchanged update are one read in
  `ConfigPublication`; `ConfigStore` has them apart.
* The seed's revision is counted as 0.
* Routes that fail closed because a variable is missing on this node do not affect
  readiness.
* File mode, controllers and the purge endpoint use the same `Manager` paths and are
  not separate actions of `ConfigPublication`.
* The supervisor's export is a snapshot, a set of sockets and an end mark instead of
  a dozen descriptor roles; signals sent to a worker directly are not modelled.
* Selection among HTTP members (weights, affinity, retry order) is any eligible member
  in `HttpPipeline`; the feedback of the native path, which records without an epoch, is
  not in `BackendHealth`.
* The cache's keys, eligibility rules and byte capacity are not in `ResponseCache`:
  any entry may vanish at any time, which covers eviction and expiry.
* Signatures, digests, version preflight and the release origin are choices of success or
  failure in `UpdateInstall`; the updater's status file is not modelled.
* The limit of 4,096 tokens and the bound on lookups are not in `AcmeValidations`.
* The field-by-field validation of the document, its parsing and its defaults are not
  modelled; `SnapshotBuild` starts from documents that were accepted.

### Not modelled

* `src/store.rs`, the local state file: one writer's temporary file, rename and directory
  sync.  The same pattern, with crashes between the operations, is in `UpdateInstall` and
  `AcmeCertificates`.
* `src/dsr.rs`: one-shot kernel configuration.  `src/bin/hangang-network-bridge.rs`: a byte
  relay.  `src/ui.rs`, `src/api_spec.rs`, the console and gateway binaries: static assets and
  forwarding.  `src/metrics.rs`: counters no decision depends on.
* `src/cache_policy.rs`, `src/ingress.rs`, `src/transform.rs`, `src/trusted_proxy.rs`,
  `src/response_security.rs`, `src/path_allowlists.rs`: translations of one request or object
  without state; a model would repeat the code.
* TLS, HTTP, DNS and ACME parsing, cryptography and codecs are libraries or byte formats.

## Plan

In order; each item is a module with its runs, properties and mutants.

1. `ConfigPublication`, `Authority`, their first theorems (done).
2. `SupervisorHandoff`, `MemberRetirement`, `BackendHealth` and the modules of the
   request path (done).
3. `AdminAccounts`, `ReceiptRelease`, `KubernetesController`, `HostOwnership` with its
   theorem; `UpdateInstall`, the ACME modules (done).
4. `TcpListeners`, `TcpStreams`, `UdpRelay`, `TrafficHistory` (done).
5. `HttpPipeline`, request inspection, `BearerSessions`, `AccessRules`, `RouteScopes`
   (done).
6. `NativeDispatch`, `AuthorityLease`, `GuardClient`, `AdminApi`, `ConfigStore`,
   `DockerDiscovery`, `SnapshotBuild`, `MaterialReload` (done).
7. Theorems of the handoff, the authority, member retirement, backend health, the
   policy pool, the ACME certificates, the request path, the cache, keys and tokens,
   receipts, accounts, updates, the Kubernetes controller, listeners, datagrams, leases, material from files and
   ACME validations (done); next `StoreTruthful` of `ConfigStore` (but for `ExportExact`,
   an induction over the pages) and `DiscoverySound` of `DockerDiscovery`.
8. Selection among HTTP members with weights and affinity; the local state file.
