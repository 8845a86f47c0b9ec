----------------------------- MODULE MCGateway ------------------------------
(***************************************************************************)
(* Small instances of what a process of the gateway does for streams and   *)
(* datagrams, with its documents, rules and material, and for its          *)
(* administrators. They share no state with one another: `subject` names   *)
(* the component whose behaviours an initial state leads to, so that one   *)
(* run explores each of them by itself; the variables of the others are    *)
(* off, with values on which their properties say nothing, or keep their   *)
(* initial values.                                                         *)
(***************************************************************************)
EXTENDS TcpListeners, UdpRelay, TrafficHistory, TcpStreams, MaterialReload, AccessRules,
        RouteScopes, NativeDispatch, AuthorityLease, GuardClient, AdminApi, ConfigStore,
        DockerDiscovery, SnapshotBuild, TLC

VARIABLE subject

gatewayVars == <<listenVars, relayVars, historyVars, streamVars, materialVars, geoVars,
                 judgementVars, scopeVars, nativeVars, leaseVars, guardVars, adminApiVars,
                 configStoreVars, dockerVars, buildVars, subject>>

\* The state of a component that is not the subject.
Off == 0
ListenersOff ==
  /\ published = Off /\ listenLock = TRUE /\ listeners = Off /\ loop = Off /\ cancelled = Off
  /\ bornAs = Off /\ plan = Off /\ gate = Off /\ handler = Off /\ stopStage = "no"
  /\ udpEpoch = Off /\ udpRunning = Off /\ streams = Off /\ exported = NoExport /\ servedAs = {}
RelayOff ==
  /\ flows = [c \in Clients |-> 0] /\ relay = "ended" /\ binding = Off /\ sequence = Off
  /\ roundRobin = Off /\ sessions = [q \in 1..MaxFlows |-> Unused] /\ capacity = MaxTotal
  /\ memory = MaxMemory /\ relayGate = Off /\ relayCancel = Off
HistoryOff ==
  /\ policyRevision = Off /\ guards = Off /\ activeIds = Off /\ lastConnection = Off
  /\ untracked = Off /\ omitted = Off /\ begun = Off /\ heads = Off /\ ring = Off /\ reader = Off
StreamsOff ==
  /\ stream = Off /\ routeCount = Off /\ handshakes = Off /\ activity = Off /\ leases = Off
  /\ memberOpen = Off /\ endpoint = Off /\ resolves = Off /\ node = Off /\ probe = Off
  /\ slot = Off /\ rrCounter = Off /\ qualified = Off
GateOff ==
  /\ judgement = Off
ScopesOff ==
  /\ comparison = Off
NativeOff ==
  /\ nativeClock = Off /\ nativeGeneration = Off /\ owners = Off /\ identity = Off
  /\ grantsOf = Off /\ withdrawn = Off /\ floors = Off /\ calls = Off
LeaseOff ==
  /\ leaseClock = Off /\ grants = Off /\ granted = Off /\ known = Off /\ runtime = Off
  /\ leaseProbe = Off /\ leaseStreams = [s \in LeaseStreams |-> [at |-> "new"]] /\ confirmed = Off
  /\ renewals = Off
GuardOff ==
  /\ guardSetup = Off /\ guardClock = Off /\ service = Off /\ guardCache = Off /\ guardFloor = Off
  /\ queries = Off /\ guardPool = Off /\ guardStop = Off /\ snapshot = Off /\ signals = Off
AdminApiOff ==
  /\ standing = Off /\ observer = Off /\ remote = Off /\ policy = Off /\ policyFloor = Off
  /\ revision = Off /\ shared = Off /\ applied = Off /\ call = Off /\ task = Off /\ turns = Off
StoreOff ==
  /\ row = Off /\ receipts = Off /\ sequenced = Off /\ highWater = Off /\ stored = Off
  /\ backup = Off /\ epochs = Off /\ durable = Off /\ writer = Off /\ export = Off
DockerOff ==
  /\ sidecar = Off /\ connection = Off /\ lockedBy = Off /\ edits = Off /\ enabled = Off
  /\ containers = Off /\ starts = Off /\ refreshing = Off /\ resolved = Off
  /\ nextBackendEpoch = Off /\ catalogReader = Off /\ outdated = Off /\ epochNames = Off
BuildOff ==
  /\ serving = Off /\ candidate = Off /\ activating = Off /\ builds = Off /\ caFile = Off
  /\ variable = Off /\ retiredObjects = Off /\ generations = Off /\ unavailable = Off
  /\ gone = Off /\ before = Off

GatewayInit ==
  /\ subject \in {"listeners", "udp", "tcpTraffic", "httpTraffic", "streams", "material", "geoip",
                  "rules", "scopes", "native", "leases", "guard", "admin", "store", "ledger",
                  "connections", "discovery", "snapshots"}
  /\ IF subject = "listeners" THEN ListenersInit ELSE ListenersOff
  /\ IF subject = "udp" THEN RelayInit ELSE RelayOff
  /\ IF subject \in {"tcpTraffic", "httpTraffic"} THEN HistoryInit ELSE HistoryOff
  /\ IF subject = "streams" THEN StreamsInit ELSE StreamsOff
  /\ MaterialInit
  /\ subject = "material" \/ kind = "set"
  /\ GeoInit
  /\ IF subject = "rules" THEN GateInit ELSE GateOff
  /\ IF subject = "scopes" THEN ScopesInit ELSE ScopesOff
  /\ IF subject = "native" THEN NativeInit ELSE NativeOff
  /\ IF subject = "leases" THEN LeaseInit ELSE LeaseOff
  /\ IF subject = "guard" THEN GuardInit ELSE GuardOff
  /\ IF subject = "admin" THEN AdminApiInit ELSE AdminApiOff
  /\ IF subject \in {"store", "ledger"} THEN StoreInit ELSE StoreOff
  /\ IF subject \in {"connections", "discovery"} THEN DockerInit ELSE DockerOff
  /\ IF subject = "snapshots" THEN BuildInit ELSE BuildOff

GatewayNext ==
  /\ UNCHANGED subject
  /\ \/ /\ subject = "listeners"
        /\ UNCHANGED <<relayVars, historyVars, streamVars, materialVars, geoVars, judgementVars,
                        scopeVars, nativeVars, leaseVars, guardVars, adminApiVars,
                        configStoreVars, dockerVars, buildVars>>
        /\ ListenersNext
     \/ /\ subject = "udp"
        /\ UNCHANGED <<listenVars, historyVars, streamVars, materialVars, geoVars, judgementVars,
                        scopeVars, nativeVars, leaseVars, guardVars, adminApiVars,
                        configStoreVars, dockerVars, buildVars>>
        /\ RelayNext
     \/ /\ subject = "tcpTraffic"
        /\ UNCHANGED <<listenVars, relayVars, streamVars, materialVars, geoVars, judgementVars,
                        scopeVars, nativeVars, leaseVars, guardVars, adminApiVars,
                        configStoreVars, dockerVars, buildVars>>
        /\ TcpHistoryNext
     \/ /\ subject = "httpTraffic"
        /\ UNCHANGED <<listenVars, relayVars, streamVars, materialVars, geoVars, judgementVars,
                        scopeVars, nativeVars, leaseVars, guardVars, adminApiVars,
                        configStoreVars, dockerVars, buildVars>>
        /\ HttpHistoryNext
     \/ /\ subject = "streams"
        /\ UNCHANGED <<listenVars, relayVars, historyVars, materialVars, geoVars, judgementVars,
                        scopeVars, nativeVars, leaseVars, guardVars, adminApiVars,
                        configStoreVars, dockerVars, buildVars>>
        /\ StreamsNext
     \/ /\ subject = "material"
        /\ UNCHANGED <<listenVars, relayVars, historyVars, streamVars, geoVars, judgementVars,
                        scopeVars, nativeVars, leaseVars, guardVars, adminApiVars,
                        configStoreVars, dockerVars, buildVars>>
        /\ MaterialNext
     \/ /\ subject = "geoip"
        /\ UNCHANGED <<listenVars, relayVars, historyVars, streamVars, materialVars,
                        judgementVars, scopeVars, nativeVars, leaseVars, guardVars, adminApiVars,
                        configStoreVars, dockerVars, buildVars>>
        /\ GeoNext
     \/ /\ subject = "rules"
        /\ UNCHANGED <<listenVars, relayVars, historyVars, streamVars, materialVars, geoVars,
                        scopeVars, nativeVars, leaseVars, guardVars, adminApiVars,
                        configStoreVars, dockerVars, buildVars>>
        /\ GateNext
     \/ /\ subject = "scopes"
        /\ UNCHANGED <<listenVars, relayVars, historyVars, streamVars, materialVars, geoVars,
                        judgementVars, nativeVars, leaseVars, guardVars, adminApiVars,
                        configStoreVars, dockerVars, buildVars>>
        /\ ScopesNext
     \/ /\ subject = "native"
        /\ UNCHANGED <<listenVars, relayVars, historyVars, streamVars, materialVars, geoVars,
                        judgementVars, scopeVars, leaseVars, guardVars, adminApiVars,
                        configStoreVars, dockerVars, buildVars>>
        /\ NativeNext
     \/ /\ subject = "leases"
        /\ UNCHANGED <<listenVars, relayVars, historyVars, streamVars, materialVars, geoVars,
                        judgementVars, scopeVars, nativeVars, guardVars, adminApiVars,
                        configStoreVars, dockerVars, buildVars>>
        /\ LeaseNext
     \/ /\ subject = "guard"
        /\ UNCHANGED <<listenVars, relayVars, historyVars, streamVars, materialVars, geoVars,
                        judgementVars, scopeVars, nativeVars, leaseVars, adminApiVars,
                        configStoreVars, dockerVars, buildVars>>
        /\ GuardNext
     \/ /\ subject = "admin"
        /\ UNCHANGED <<listenVars, relayVars, historyVars, streamVars, materialVars, geoVars,
                        judgementVars, scopeVars, nativeVars, leaseVars, guardVars,
                        configStoreVars, dockerVars, buildVars>>
        /\ AdminApiNext
     \/ /\ subject = "store"
        /\ UNCHANGED <<listenVars, relayVars, historyVars, streamVars, materialVars, geoVars,
                        judgementVars, scopeVars, nativeVars, leaseVars, guardVars, adminApiVars,
                        dockerVars, buildVars>>
        /\ StoreNext
     \/ /\ subject = "ledger"
        /\ UNCHANGED <<listenVars, relayVars, historyVars, streamVars, materialVars, geoVars,
                        judgementVars, scopeVars, nativeVars, leaseVars, guardVars, adminApiVars,
                        dockerVars, buildVars>>
        /\ LedgerNext
     \/ /\ subject = "connections"
        /\ UNCHANGED <<listenVars, relayVars, historyVars, streamVars, materialVars, geoVars,
                        judgementVars, scopeVars, nativeVars, leaseVars, guardVars, adminApiVars,
                        configStoreVars, buildVars>>
        /\ ConnectionNext
     \/ /\ subject = "discovery"
        /\ UNCHANGED <<listenVars, relayVars, historyVars, streamVars, materialVars, geoVars,
                        judgementVars, scopeVars, nativeVars, leaseVars, guardVars, adminApiVars,
                        configStoreVars, buildVars>>
        /\ DiscoveryNext
     \/ /\ subject = "snapshots"
        /\ UNCHANGED <<listenVars, relayVars, historyVars, streamVars, materialVars, geoVars,
                        judgementVars, scopeVars, nativeVars, leaseVars, guardVars, adminApiVars,
                        configStoreVars, dockerVars>>
        /\ BuildNext

GatewaySpec == GatewayInit /\ [][GatewayNext]_gatewayVars

-----------------------------------------------------------------------------
(* Properties *)

\* A stream is forwarded to a member that was admitted and healthy for it and
\* returns every slot it took, and every connection or request head is in the
\* history once or counted as left out (tcp.rs, tcp_history.rs, traffic.rs; see
\* StreamsSound and HistoryAccounted).
StreamsExact ==
  /\ subject = "streams" => StreamsSound
  /\ subject \in {"tcpTraffic", "httpTraffic"} => HistoryAccounted

\* Client rules decide as their reference definitions do, and the route scopes
\* judged distinct never claim one request (see DecisionsSound, ScopesExact).
RulesExact ==
  /\ subject = "rules" => DecisionsSound
  /\ subject = "scopes" => ScopesExact

\* Native calls run on an identity and a grant that were in force when they
\* mattered, and the guard client acts on no revision older than one it knew and
\* shuts its pool for good (native_observed.rs, guard.rs; see DispatchSound and
\* GuardSound).
GuardExact ==
  /\ subject = "native" => DispatchSound
  /\ subject = "guard" => GuardSound

\* The administration surface tells each caller what it may know and applies
\* what it acknowledged (admin.rs; see AdminSound).
AdminExact == subject = "admin" => AdminSound

\* What the configuration store reports of a write, a retry and a restored
\* backup is what the rows say (config_store.rs; see StoreTruthful).
StoreExact == subject \in {"store", "ledger"} => StoreTruthful

\* Discovered endpoints belong to the container and the Docker connection they
\* are used for (discovery.rs, docker_connections.rs; see DiscoverySound).
DiscoveryExact == subject \in {"connections", "discovery"} => DiscoverySound

\* A snapshot reuses of its predecessor exactly what its document leaves
\* unchanged (config.rs; see SnapshotsSound).
SnapshotsExact == subject = "snapshots" => SnapshotsSound

-----------------------------------------------------------------------------
(* Constants of the instances *)

StreamWeights == <<2, 1>>

Ranges  == {<<"*">>, <<"en">>, <<"en", "us">>}
Origins == {[scheme |-> "http", host |-> "a", port |-> 80], [scheme |-> "https", host |-> "a", port |-> 8443]}

Scope(mode, prefix, case) == [mode |-> mode, prefix |-> prefix, case |-> case]
ScopePaths == {Scope("prefix", <<>>, "default"), Scope("prefix", <<"/", "a">>, "default"),
               Scope("segment", <<"/", "A">>, "default"), Scope("exact", <<"/", "a">>, "sensitive")}
HostA == Name(<<<<"a">>>>)
HostsOf(host, hosts, regex) == [host |-> host, hosts |-> hosts, regex |-> regex]
ScopeHosts ==
  {HostsOf(NoHost, {}, {}), HostsOf(HostA, {}, {}), HostsOf(Name(<<<<"A">>, <<>>>>), {}, {}),
   HostsOf(NoHost, {Name(<<<<"?">>>>), Address(1, TRUE)}, {}), HostsOf(NoHost, {}, {Name(<<<<"b">>>>)})}
AskedHosts == {HostA, Name(<<<<"A">>>>), Name(<<<<"a">>, <<>>>>), Name(<<<<"b">>>>), Address(1, FALSE)}
Dotted(first, second) == Name(<<first, second>>)
SniPatterns == {Dotted(<<"a">>, <<"b">>), Dotted(<<"A">>, <<"b">>), Dotted(<<"*">>, <<"B">>),
                Dotted(<<"?">>, <<"b">>), Dotted(<<"*">>, <<"*">>), Dotted(<<"a", "*">>, <<"b">>),
                Name(<<<<"*">>>>)}
SniNames    == {Dotted(<<"a">>, <<"b">>), Dotted(<<"A">>, <<"B">>), Dotted(<<"b">>, <<"b">>),
                Dotted(<<"a", "b">>, <<"b">>), Dotted(<<"a">>, <<"a">>), Name(<<<<"b">>>>),
                Name(<<<<"a">>, <<"a">>, <<"b">>>>)}

SetupOf(transport, deny, cache) == [transport |-> transport, deny |-> deny, cache |-> cache]
Setups == {SetupOf("tcp", FALSE, 0), SetupOf("grpc", FALSE, 1),
           SetupOf("http", TRUE, 1), SetupOf("snapshot", TRUE, 0)}

AskedOf(k, r) == [kind |-> k, cred |-> r]
\* Every endpoint under every credential beside a plain reader, and every edit
\* beside another edit.
AskedPairs ==
  {[a |-> AskedOf(k, r), b |-> AskedOf("status", "session")] :
     k \in Kinds, r \in {"none", "session", "system"}}
  \cup {[a |-> AskedOf(k, r), b |-> AskedOf("create", "session")] :
     k \in Edits, r \in {"session"}}
OneEach          == [b \in Budgets |-> 1]
AdminPools       == <<2, 0, 2>>

Containers == {[docker |-> TRUE, container |-> "c", network |-> "n", port |-> 80],
               [docker |-> FALSE, container |-> "h", network |-> "n", port |-> 80]}

MemberAt(a, s) == [address |-> a, serving |-> s]
BackendsOf(named, order, members) == [named |-> named, order |-> order, members |-> members]
Both     == BackendsOf(TRUE, 1, [m1 |-> MemberAt(1, TRUE), m2 |-> MemberAt(2, TRUE)])
Draining == BackendsOf(TRUE, 2, [m1 |-> MemberAt(1, TRUE), m2 |-> MemberAt(2, FALSE)])
Plain(a) == BackendsOf(FALSE, 1, [p1 |-> MemberAt(a, TRUE)])
ResourceOf(id, enforce, scope) == [id |-> id, enforce |-> enforce, scope |-> scope]
Unprotected == ResourceOf("none", FALSE, 0)
HttpRoute1 == [enabled |-> TRUE, backends |-> Both, balance |-> [rule |-> 1, health |-> 1],
               upstream |-> "customCa", jwt |-> 1, workload |-> 1, auth |-> 0, access |-> "protected",
               resource |-> ResourceOf("x", TRUE, 1)]
HttpRoute2 == [HttpRoute1 EXCEPT !.backends = Plain(1), !.balance.health = 0, !.upstream = "plain",
                 !.workload = 0, !.auth = 1, !.access = "legacy", !.resource = Unprotected]
TcpRoute1  == [enabled |-> TRUE, listen |-> 1, tls |-> 1, health |-> 1, upstream |-> "customCa",
               backends |-> Both]
TcpRoute2  == [TcpRoute1 EXCEPT !.listen = 2, !.health = 0, !.upstream = "plain", !.backends = Plain(1)]
Document1 ==
  [geo |-> 1, redis |-> 1, certs |-> 1, authority |-> 0, limits |-> <<1, 2>>, bans |-> <<1>>,
   cache |-> [on |-> TRUE, policy |-> 1, generation |-> 1],
   http |-> [r1 |-> HttpRoute1, r2 |-> HttpRoute2], tcp |-> [t1 |-> TcpRoute1, t2 |-> TcpRoute2],
   workloads |-> [w1 |-> [enabled |-> TRUE, listen |-> 3, tls |-> 1]],
   publics |-> [l1 |-> [enabled |-> TRUE, listen |-> 4, certs |-> 1]]]
BuiltDocuments ==
  {Document1,
   [Document1 EXCEPT !.cache.generation = 2, !.geo = 2, !.http.r1.backends = Draining,
      !.tcp.t1.backends = Draining, !.http.r2.jwt = 2, !.publics.l1.certs = 2,
      !.limits = <<2>>, !.authority = 1],
   [Document1 EXCEPT !.http.r1.enabled = FALSE, !.tcp.t1.enabled = FALSE,
      !.workloads.w1.enabled = FALSE, !.cache.on = FALSE, !.http.r1.resource.enforce = FALSE,
      !.redis = 0, !.http.r2.backends = Plain(2), !.bans = <<2, 1>>],
   [Document1 EXCEPT !.tcp.t1.tls = 0, !.http.r1.access = "legacy", !.http.r1.resource = Unprotected,
      !.http.r1.balance = [rule |-> 2, health |-> 2], !.authority = 2, !.http.r2.auth = 2,
      !.workloads.w1.tls = 2],
   [Document1 EXCEPT !.workloads.w1.listen = 1,
      !.tcp = [t2 |-> [TcpRoute2 EXCEPT !.tls = 2, !.backends = Plain(2)]],
      !.http = [r1 |-> HttpRoute1], !.cache.policy = 2, !.certs = 2, !.publics.l1.listen = 5]}

\* Clients, guards, streams, calls, permissions, queries, writers and editors
\* are the same model values, and no component's behaviour depends on which of
\* them is which.
Symmetry == Permutations(Streams)
=============================================================================
