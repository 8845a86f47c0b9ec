---------------------------- MODULE DockerDiscovery ----------------------------
(***************************************************************************)
(* Docker endpoint discovery (docker_connections.rs, docker.rs,            *)
(* discovery.rs): one revisioned daemon connection that administrators     *)
(* replace while a refresh inspects containers and requests resolve        *)
(* `docker://` backends, and that a handoff freezes and a successor reopens.*)
(*                                                                         *)
(* A container is the process it runs now; paths, PEM files and HTTP are   *)
(* abstracted to whether a connection can be built and answers.            *)
(***************************************************************************)
EXTENDS Naturals, FiniteSets, Functions

CONSTANTS
    Editors,         \* administrator requests
    UnixDaemons, HttpsDaemons,
    CliSocket,       \* the daemon of --docker-socket, or "none"
    Identified,      \* the daemons whose inspection names id and start time
    DockerBackends,  \* backends of the routes: [docker, container, network, port]
    NetAddresses,
    WorkSlots, MaxDockerRevision, MaxStarts, MaxBackendEpochs

ASSUME DockerConstants ==
    /\ {WorkSlots, MaxDockerRevision, MaxStarts, MaxBackendEpochs} \subseteq Nat
    /\ CliSocket \in UnixDaemons \union {"none"}

Daemons == UnixDaemons \union HttpsDaemons

VARIABLES
    sidecar,      \* the state file: [readable, revision, config], and whether an edit
                  \* answered as failed left it there (stray, a ghost)
    connection,   \* State, Current and the freeze flag
    lockedBy,     \* who holds State's mutex: an editor, or "none"
    edits,        \* each administrator request
    enabled,      \* the Docker backends of the enabled routes
    containers,   \* per daemon and backend: [process, address]; process 0 is stopped
    starts,       \* processes started
    refreshing,   \* the refresh task: [at, generation, resolver, pending, next]
    resolved,     \* ResolvedSnapshot
    nextBackendEpoch,
    catalogReader, \* one request resolving a backend
    outdated,     \* ghost: backends whose value predates the latest refresh
    epochNames    \* ghost: the processes each epoch was given to

dockerVars == <<sidecar, connection, lockedBy, edits, enabled, containers, starts, refreshing,
                resolved, nextBackendEpoch, catalogReader, outdated, epochNames>>

connectionVars == <<sidecar, connection, lockedBy, edits>>
discoveryVars == <<refreshing, resolved, nextBackendEpoch, outdated, epochNames>>

-----------------------------------------------------------------------------
(* The connection *)

(* The configuration in force: the stored override, or the CLI socket. *)
Effective(override) ==
    IF override # "none" THEN override
    ELSE IF CliSocket # "none" THEN CliSocket ELSE "disabled"

(* read_pem: the CA, the client certificate, and the key, which must be private *)
PemFiles == [{"ca", "certificate", "key"} -> {"read", "refused"}]

(* DockerResolver::https refuses an origin or certificates it cannot parse. *)
HttpsClient(daemon, files) ==
    IF "refused" \in Range(files) THEN {"failed"} ELSE {daemon, "failed"}

(* build: the clients a configuration may become *)
Built(config) ==
    CASE config = "disabled" -> {"none"}
      [] config \in UnixDaemons -> {config}
      [] config \in HttpsDaemons -> UNION {HttpsClient(config, files) : files \in PemFiles}

(* load_state *)
LoadState ==
    IF sidecar.readable THEN [revision |-> sidecar.revision, override |-> sidecar.config]
    ELSE [revision |-> 0, override |-> "disabled"]

(* open_with_capacity: a connection that cannot be built leaves Docker off. *)
ConnectionOpened ==
    {[revision |-> LoadState.revision, override |-> LoadState.override, generation |-> 0,
      resolver |-> IF built = "failed" THEN "none" ELSE built, frozen |-> "off"] :
        built \in Built(Effective(LoadState.override))}

IdleEdit == [at |-> "idle"]
Resting == [at |-> "idle"]
EmptySnapshot(generation) == [generation |-> generation, values |-> <<>>, epochs |-> <<>>]

(* work.try_acquire_owned: a request that finds no permit is answered Busy. *)
PermitFree == Cardinality({e \in Editors : edits[e].at # "idle"}) < WorkSlots

(* put_inner, delete_inner, test_candidate_inner: permit, then a blocking build. *)
EditBegin(e, operation) ==
    /\ edits[e].at = "idle" /\ PermitFree
    /\ \E config \in IF operation = "delete" THEN {"none"} ELSE Daemons \union {"disabled"} :
          edits' = [edits EXCEPT ![e] = [at |-> "building", operation |-> operation,
                        config |-> config, expected |-> connection.revision]]
    /\ UNCHANGED <<sidecar, connection, lockedBy, enabled, containers, starts, catalogReader>>
    /\ UNCHANGED discoveryVars

EditBuilt(e) ==
    /\ edits[e].at = "building"
    /\ \E built \in Built(Effective(edits[e].config)) :
          edits' = [edits EXCEPT ![e] =
              IF built = "failed" THEN IdleEdit
              ELSE [at |-> IF edits[e].operation = "test" THEN "authorizing" ELSE "locking",
                    operation |-> edits[e].operation, config |-> edits[e].config,
                    expected |-> edits[e].expected, resolver |-> built]]
    /\ UNCHANGED <<sidecar, connection, lockedBy, enabled, containers, starts, catalogReader>>
    /\ UNCHANGED discoveryVars

(* A test of a disabled connection fails; another is authorised again, then pinged. *)
TestStep(e) ==
    /\ edits[e].at \in {"authorizing", "pinging"}
    /\ \E at \in IF edits[e].at = "authorizing" /\ edits[e].resolver # "none"
                 THEN {"pinging", "idle"} ELSE {"idle"} :
          edits' = [edits EXCEPT ![e] = IF at = "idle" THEN IdleEdit ELSE [@ EXCEPT !.at = at]]
    /\ UNCHANGED <<sidecar, connection, lockedBy, enabled, containers, starts, catalogReader>>
    /\ UNCHANGED discoveryVars

(* next_revision *)
RevisionExhausted == connection.revision >= MaxDockerRevision

EditProceeds(e) ==
    /\ connection.frozen = "off"
    /\ connection.revision = edits[e].expected
    /\ ~RevisionExhausted

(* The mutex is taken: frozen, a stale revision and exhaustion end the edit. *)
EditLocks(e) ==
    /\ edits[e].at = "locking" /\ lockedBy = "none"
    /\ IF EditProceeds(e)
       THEN /\ lockedBy' = e
            /\ edits' = [edits EXCEPT ![e].at = "saving"]
       ELSE /\ edits' = [edits EXCEPT ![e] = IdleEdit]
            /\ UNCHANGED lockedBy
    /\ UNCHANGED <<sidecar, connection, enabled, containers, starts, catalogReader>>
    /\ UNCHANGED discoveryVars

(* save_authorized, save_state: the rename is what makes the new state durable.
   The account transaction around it may still fail to commit: the edit is
   refused, and the file keeps what it wrote. *)
SaveRenames(e, failed) ==
    sidecar' = [readable |-> TRUE, revision |-> connection.revision + 1,
                config |-> edits[e].config, stray |-> failed]
EditSaved(e) ==
    /\ edits[e].at = "saving"
    /\ \/ SaveRenames(e, FALSE) /\ edits' = [edits EXCEPT ![e].at = "saved"] /\ UNCHANGED lockedBy
       \/ /\ SaveRenames(e, TRUE) \/ UNCHANGED sidecar
          /\ edits' = [edits EXCEPT ![e] = IdleEdit]
          /\ lockedBy' = "none"
    /\ UNCHANGED <<connection, enabled, containers, starts, catalogReader>>
    /\ UNCHANGED discoveryVars

(* The rest of the two writers, after the blocking save. *)
EditPublishes(e) ==
    /\ edits[e].at = "saved"
    /\ connection' = [connection EXCEPT !.revision = @ + 1, !.override = edits[e].config,
                          !.generation = @ + 1, !.resolver = edits[e].resolver]
    /\ lockedBy' = "none"
    /\ edits' = [edits EXCEPT ![e] = IdleEdit]
    /\ UNCHANGED <<sidecar, enabled, containers, starts, catalogReader>>
    /\ UNCHANGED discoveryVars

(* freeze: the flag first, then the mutex, which a writer in flight still holds. *)
FreezeEdits ==
    /\ \/ /\ connection.frozen = "off"
          /\ connection' = [connection EXCEPT !.frozen = "waiting"]
       \/ /\ connection.frozen = "waiting" /\ lockedBy = "none"
          /\ connection' = [connection EXCEPT !.frozen = "done"]
    /\ UNCHANGED <<sidecar, lockedBy, edits, enabled, containers, starts, catalogReader>>
    /\ UNCHANGED discoveryVars

(* resume *)
ResumeEdits ==
    /\ connection.frozen = "done"
    /\ connection' = [connection EXCEPT !.frozen = "off"]
    /\ UNCHANGED <<sidecar, lockedBy, edits, enabled, containers, starts, catalogReader>>
    /\ UNCHANGED discoveryVars

(* The state file is damaged, or its permissions are, from outside. *)
SidecarDamaged ==
    /\ sidecar.readable
    /\ sidecar' = [readable |-> FALSE, revision |-> 0, config |-> "none",
                   stray |-> FALSE]
    /\ UNCHANGED <<connection, lockedBy, edits, enabled, containers, starts, catalogReader>>
    /\ UNCHANGED discoveryVars

(* writer_lock: a process that ended released the lock; a successor inherits it
   once this one is frozen.  Everything but the file starts again. *)
Reopen ==
    /\ connection' \in ConnectionOpened
    /\ lockedBy' = "none" /\ edits' = [e \in Editors |-> IdleEdit]
    /\ refreshing' = Resting /\ resolved' = EmptySnapshot(0) /\ nextBackendEpoch' = 1
    /\ catalogReader' = Resting /\ outdated' = {} /\ epochNames' = <<>>
    /\ sidecar' = [sidecar EXCEPT !.stray = FALSE]
    /\ UNCHANGED <<enabled, containers, starts>>

-----------------------------------------------------------------------------
(* Containers, and what the daemon answers about them *)

(* validate_name and the canonical port of parse_reference *)
ValidName(name) == name # "invalid"
ParseReference(backend) ==
    /\ backend.docker
    /\ ValidName(backend.container) /\ ValidName(backend.network)
    /\ backend.port \in 1..65535

ContainerStarts(d, b) ==
    /\ starts < MaxStarts
    /\ \E address \in NetAddresses :
          containers' = [containers EXCEPT ![d][b] = [process |-> starts + 1, address |-> address]]
    /\ starts' = starts + 1
    /\ UNCHANGED <<connectionVars, enabled, catalogReader>> /\ UNCHANGED discoveryVars

ContainerStops(d, b) ==
    /\ containers[d][b].process # 0
    /\ containers' = [containers EXCEPT ![d][b] = [process |-> 0, address |-> 0]]
    /\ UNCHANGED <<connectionVars, enabled, starts, catalogReader>> /\ UNCHANGED discoveryVars

(* A published configuration: its Docker references have been validated. *)
EnableBackends ==
    /\ \E set \in SUBSET {b \in DockerBackends : ParseReference(b)} :
          set # enabled /\ enabled' = set
    /\ UNCHANGED <<connectionVars, containers, starts, catalogReader>> /\ UNCHANGED discoveryVars

(* resolve_inner: a running container with an address on the network; its
   identity is id and start time when the daemon names both. *)
Inspected(d, b) ==
    LET c == containers[d][b]
    IN  IF c.process = 0 \/ c.address = 0 THEN {}
        ELSE {[address |-> c.address, identity |-> IF d \in Identified THEN c.process ELSE 0,
               process |-> c.process, daemon |-> d]}

(* Equality of Resolved: process and daemon are the model's own. *)
Same(v, w) == v.address = w.address /\ v.identity = w.identity

-----------------------------------------------------------------------------
(* Discovery *)

\* Mutant: a periodic refresh that finds the same address keeps the epoch.
EpochKeptByAddress(generation, b, value) ==
    /\ resolved.generation = generation
    /\ b \in DOMAIN resolved.values
    /\ resolved.values[b].address = value.address

(* publish: when a value keeps the epoch of the value it replaces *)
EpochKept(generation, b, value) ==
    /\ resolved.generation = generation
    /\ value.identity # 0
    /\ b \in DOMAIN resolved.values
    /\ Same(resolved.values[b], value)

(* publish *)
PublishResolved(generation, next) ==
    IF resolved.generation > generation
    THEN UNCHANGED <<resolved, nextBackendEpoch, outdated, epochNames>>
    ELSE LET new == {b \in DOMAIN next : ~EpochKept(generation, b, next[b])}
             epochs == CHOOSE f \in Injection(new,
                                              nextBackendEpoch..(nextBackendEpoch + Cardinality(new) - 1)) :
                          TRUE
             all == [b \in DOMAIN next |-> IF b \in new THEN epochs[b] ELSE resolved.epochs[b]]
             Given(e) == {next[b].process : b \in {c \in DOMAIN next : all[c] = e}}
         IN  /\ nextBackendEpoch + Cardinality(new) <= MaxBackendEpochs + 1
             /\ resolved' = [generation |-> generation, values |-> next, epochs |-> all]
             /\ nextBackendEpoch' = nextBackendEpoch + Cardinality(new)
             /\ outdated' = {}
             /\ epochNames' = [e \in 1..(nextBackendEpoch' - 1) |->
                    Given(e) \union IF e \in DOMAIN epochNames THEN epochNames[e] ELSE {}]

(* refresh captures generation and resolver together; nothing to inspect, and
   Docker off, both publish an empty map. *)
RefreshBegins ==
    LET idle == enabled = {} \/ connection.resolver = "none"
    IN  /\ refreshing.at = "idle"
        /\ IF idle
           THEN PublishResolved(connection.generation, <<>>) /\ UNCHANGED refreshing
           ELSE /\ refreshing' = [at |-> "inspecting", generation |-> connection.generation,
                       resolver |-> connection.resolver, pending |-> enabled, next |-> <<>>]
                /\ outdated' = DOMAIN resolved.values
                /\ UNCHANGED <<resolved, nextBackendEpoch, epochNames>>
        /\ UNCHANGED <<connectionVars, enabled, containers, starts, catalogReader>>

(* inspect: an answer, or a failure that leaves the backend out *)
InspectBackend(b) ==
    /\ refreshing.at = "inspecting" /\ b \in refreshing.pending
    /\ \/ \E value \in Inspected(refreshing.resolver, b) :
             refreshing' = [refreshing EXCEPT !.pending = @ \ {b},
                                !.next = [x \in DOMAIN @ \union {b} |->
                                             IF x = b THEN value ELSE @[x]]]
       \/ refreshing' = [refreshing EXCEPT !.pending = @ \ {b}]
    /\ UNCHANGED <<connectionVars, enabled, containers, starts, catalogReader>>
    /\ UNCHANGED <<resolved, nextBackendEpoch, outdated, epochNames>>

(* The batch is complete: a connection replaced meanwhile empties the map. *)
RefreshCompletes ==
    /\ refreshing.at = "inspecting" /\ refreshing.pending = {}
    /\ PublishResolved(refreshing.generation,
           IF connection.generation = refreshing.generation THEN refreshing.next ELSE <<>>)
    /\ refreshing' = Resting
    /\ UNCHANGED <<connectionVars, enabled, containers, starts, catalogReader>>

(* REFRESH_DEADLINE *)
RefreshExpires ==
    /\ refreshing.at = "inspecting"
    /\ PublishResolved(refreshing.generation, <<>>)
    /\ refreshing' = Resting
    /\ UNCHANGED <<connectionVars, enabled, containers, starts, catalogReader>>

(* resolve_with_epoch: generation, snapshot, generation again *)
ResolveBegins(b) ==
    /\ catalogReader.at = "idle"
    /\ catalogReader' = IF b.docker
                 THEN [at |-> "generation", backend |-> b, generation |-> connection.generation]
                 ELSE [at |-> "answered", backend |-> b, value |-> Resting, epoch |-> 0,
                       resolver |-> "none"]
    /\ UNCHANGED <<connectionVars, enabled, containers, starts>> /\ UNCHANGED discoveryVars

ResolveLoads ==
    /\ catalogReader.at = "generation"
    /\ catalogReader' = IF resolved.generation # catalogReader.generation
                    \/ catalogReader.backend \notin DOMAIN resolved.values
                 THEN Resting
                 ELSE [at |-> "loaded", backend |-> catalogReader.backend,
                       generation |-> catalogReader.generation,
                       value |-> resolved.values[catalogReader.backend],
                       epoch |-> resolved.epochs[catalogReader.backend]]
    /\ UNCHANGED <<connectionVars, enabled, containers, starts>> /\ UNCHANGED discoveryVars

ResolveRechecks ==
    /\ catalogReader.at = "loaded"
    /\ catalogReader' = IF connection.generation # catalogReader.generation THEN Resting
                 ELSE [at |-> "answered", backend |-> catalogReader.backend, value |-> catalogReader.value,
                       epoch |-> catalogReader.epoch, resolver |-> connection.resolver]
    /\ UNCHANGED <<connectionVars, enabled, containers, starts>> /\ UNCHANGED discoveryVars

ResolveEnds ==
    /\ catalogReader.at = "answered"
    /\ catalogReader' = Resting
    /\ UNCHANGED <<connectionVars, enabled, containers, starts>> /\ UNCHANGED discoveryVars

-----------------------------------------------------------------------------
DockerInit ==
    /\ sidecar = [readable |-> TRUE, revision |-> 0, config |-> "none", stray |-> FALSE]
    /\ connection \in ConnectionOpened
    /\ lockedBy = "none" /\ edits = [e \in Editors |-> IdleEdit]
    /\ enabled = {}
    /\ containers = [d \in Daemons |-> [b \in {c \in DockerBackends : c.docker} |->
                                           [process |-> 0, address |-> 0]]]
    /\ starts = 0
    /\ refreshing = Resting /\ resolved = EmptySnapshot(0) /\ nextBackendEpoch = 1
    /\ catalogReader = Resting /\ outdated = {} /\ epochNames = <<>>

EditStep(e) ==
    EditBuilt(e) \/ EditLocks(e) \/ EditSaved(e) \/ EditPublishes(e)

(* The connection by itself: edits racing each other, a freeze and restarts. *)
ConnectionNext ==
    \/ \E e \in Editors :
          \/ \E operation \in {"put", "delete", "test"} : EditBegin(e, operation)
          \/ EditStep(e) \/ TestStep(e)
    \/ FreezeEdits \/ ResumeEdits \/ SidecarDamaged \/ Reopen

(* Discovery while one edit at a time replaces the connection. *)
DiscoveryNext ==
    \/ \E e \in Editors :
          \/ /\ \A f \in Editors : edits[f].at = "idle"
             /\ EditBegin(e, "put")
          \/ EditStep(e)
    \/ \E d \in Daemons, b \in {c \in DockerBackends : c.docker} :
          ContainerStarts(d, b) \/ ContainerStops(d, b)
    \/ EnableBackends \/ RefreshBegins \/ RefreshCompletes \/ RefreshExpires
    \/ \E b \in DockerBackends : InspectBackend(b) \/ ResolveBegins(b)
    \/ ResolveLoads \/ ResolveRechecks \/ ResolveEnds

-----------------------------------------------------------------------------
(* A handed-over connection is the connection on disk: once a freeze has
   returned nobody is writing, and what a successor opens is what this process
   uses, however many edits raced for the mutex.  At any time the file is at
   most one edit ahead: the one being published, or the last one to be refused
   after its rename. *)
FileFollows ==
    /\ sidecar.readable =>
          IF sidecar.stray \/ \E e \in Editors : edits[e].at = "saved"
          THEN sidecar.revision = connection.revision + 1
          ELSE sidecar.revision = connection.revision /\ sidecar.config = connection.override
    /\ connection.frozen = "done" =>
          \A e \in Editors : edits[e].at \notin {"saving", "saved"}

(* An answer comes from the daemon that was current when the generation was
   read again; an epoch names one container process for as long as the process
   runs; and no refresh, whether it completes, fails, loses its daemon or hits
   the deadline, leaves an address from an earlier refresh behind. *)
AnswersCurrent ==
    /\ (catalogReader.at = "answered" /\ catalogReader.epoch # 0) =>
        catalogReader.value.daemon = catalogReader.resolver
    /\ \A e \in DOMAIN epochNames : Cardinality(epochNames[e]) <= 1
    /\ refreshing.at = "idle" => outdated = {}
    /\ resolved.generation <= connection.generation

(* Discovery never mixes daemons, processes or refreshes, and its connection
   survives concurrent edits, a freeze and a restart. *)
DiscoverySound == FileFollows /\ AnswersCurrent
=============================================================================
