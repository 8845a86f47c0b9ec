----------------------------- MODULE TcpStreams -----------------------------
(***************************************************************************)
(* Raw TCP connections of one route (src/src/tcp.rs from spawn_accept_loop's *)
(* task to proxy_connection) beside the active health of its members        *)
(* (src/src/tcp_health.rs, run_tcp_probe), discovery replacing an endpoint  *)
(* by another generation, an administrator closing members, and workload    *)
(* TLS material being rotated.  A connection chooses a member, dials, and   *)
(* then checks everything again before a byte leaves; health is read        *)
(* without the lock its writers hold.                                       *)
(***************************************************************************)
EXTENDS Naturals, FiniteSets, Sequences

CONSTANTS Streams,          \* connections
          Weights,          \* members' weights, in order
          Dynamic,          \* members whose endpoint discovery resolves
          MaxEpoch,         \* bound on endpoint generations
          MaxMaterial,      \* bound on TLS material generations
          RouteLimit,       \* TcpRoute::max_connections
          HandshakeLimit    \* workload_handshake_admission

ASSUME StreamsAssumption ==
  /\ MaxEpoch \in Nat /\ MaxMaterial \in Nat /\ RouteLimit \in Nat \ {0} /\ HandshakeLimit \in Nat \ {0}
  /\ \A i \in 1..Len(Weights) : Weights[i] \in Nat \ {0}

VARIABLES
  stream,         \* per connection: [pos, member, epoch, material, leased]
  routeCount,     \* the route's admission counter
  handshakes,     \* handshake permits taken
  activity,       \* per member: StreamCounter
  leases,         \* per member: admission leases outstanding
  memberOpen,     \* per member: its admission gate
  endpoint,       \* per member: the generation discovery resolves to; 0 for a static address
  resolves,       \* per member: whether discovery resolves it at all
  node,           \* per member: health node [streak, epoch, pending, unhealthy, available, halfway]
  probe,          \* per member: the probe's dial under way, as the epoch it resolved
  slot,           \* current generation of the inbound TLS material; 0 when missing
  rrCounter,      \* weighted round robin position
  qualified       \* per member: epochs a probe of that very generation qualified (history)

streamVars == <<stream, routeCount, handshakes, activity, leases, memberOpen, endpoint, resolves,
                node, probe, slot, rrCounter, qualified>>

Members == 1..Len(Weights)
NoEpoch == MaxEpoch + 1
Waiting == [pos |-> "new", member |-> 0, epoch |-> 0, material |-> 0, leased |-> FALSE]

StreamsInit ==
  /\ stream = [s \in Streams |-> Waiting]
  /\ routeCount = 0 /\ handshakes = 0
  /\ activity = [m \in Members |-> 0] /\ leases = [m \in Members |-> 0]
  /\ memberOpen = [m \in Members |-> TRUE]
  /\ endpoint = [m \in Members |-> IF m \in Dynamic THEN 1 ELSE 0]
  /\ resolves = [m \in Members |-> TRUE]
  /\ node = [m \in Members |-> [streak |-> 0, epoch |-> 0, pending |-> TRUE, unhealthy |-> FALSE,
                                available |-> FALSE, halfway |-> FALSE]]
  /\ probe = [m \in Members |-> NoEpoch]
  /\ slot = 1 /\ rrCounter = 0
  /\ qualified = [m \in Members |-> {}]

Move(s, pos) == stream' = [stream EXCEPT ![s].pos = pos]

-----------------------------------------------------------------------------
(* Health nodes. The policy asks for one success and one failure, and starts in *)
(* checking: a generation serves only once probed.                             *)

\* publish: the flags a reader sees.
Publish(n) == [n EXCEPT !.available = ~n.unhealthy /\ ~n.pending]

\* ensure_epoch for a newer generation: a writer under the lock resets the streaks and
\* publishes the flags, and only then stores the epoch readers compare.
EnsureEpochFlags(n, epoch) ==
  Publish([n EXCEPT !.streak = epoch, !.pending = TRUE, !.unhealthy = FALSE, !.halfway = TRUE])

EnsureEpochStore(n) == Publish([n EXCEPT !.epoch = n.streak, !.halfway = FALSE])

StoreEpoch(m) ==
  /\ node[m].halfway /\ node' = [node EXCEPT ![m] = EnsureEpochStore(@)]
  /\ UNCHANGED <<stream, routeCount, handshakes, activity, leases, memberOpen, endpoint, resolves,
                 probe, slot, rrCounter, qualified>>

\* observe_epoch: true at once for the published epoch, false for an older one; a newer
\* one is entered under the lock, and the caller has it when it is stored.
Observed(m, epoch) == node[m].epoch = epoch

StartObserving(m, epoch) ==
  /\ node[m].epoch < epoch /\ ~node[m].halfway
  /\ node' = [node EXCEPT ![m] = EnsureEpochFlags(@, epoch)]

AvailableFor(m, epoch) == node[m].epoch = epoch /\ node[m].available

\* record_success_for and record_failure_for: a result of an older generation is ignored.
Recorded(n, epoch, ok) ==
  IF epoch # n.streak THEN n
  ELSE Publish(IF ok THEN [n EXCEPT !.unhealthy = FALSE, !.pending = FALSE]
                     ELSE [n EXCEPT !.unhealthy = TRUE])

\* A probe resolves, enters the generation, and dials it.
ProbeDial(m) ==
  /\ probe[m] = NoEpoch /\ resolves[m] /\ Observed(m, endpoint[m])
  /\ probe' = [probe EXCEPT ![m] = endpoint[m]]
  /\ UNCHANGED <<stream, routeCount, handshakes, activity, leases, memberOpen, endpoint, resolves,
                 node, slot, rrCounter, qualified>>

ProbeObserves(m) ==
  /\ probe[m] = NoEpoch /\ resolves[m] /\ StartObserving(m, endpoint[m])
  /\ UNCHANGED <<stream, routeCount, handshakes, activity, leases, memberOpen, endpoint, resolves,
                 probe, slot, rrCounter, qualified>>

\* The result counts only if the backend still resolves to what was dialled.
ProbeResult(m, ok) ==
  /\ probe[m] # NoEpoch /\ ~node[m].halfway
  /\ probe' = [probe EXCEPT ![m] = NoEpoch]
  /\ LET current == resolves[m] /\ endpoint[m] = probe[m]
     IN  /\ node' = IF current THEN [node EXCEPT ![m] = Recorded(@, probe[m], ok)] ELSE node
         /\ qualified' = IF current /\ ok THEN [qualified EXCEPT ![m] = @ \cup {probe[m]}]
                                          ELSE qualified
  /\ UNCHANGED <<stream, routeCount, handshakes, activity, leases, memberOpen, endpoint, resolves,
                 slot, rrCounter>>

\* A failed resolution counts against the generation last observed.
ProbeUnresolved(m) ==
  /\ probe[m] = NoEpoch /\ ~resolves[m] /\ ~node[m].halfway /\ ~node[m].unhealthy
  /\ node' = [node EXCEPT ![m] = Publish([@ EXCEPT !.unhealthy = TRUE])]
  /\ UNCHANGED <<stream, routeCount, handshakes, activity, leases, memberOpen, endpoint, resolves,
                 probe, slot, rrCounter, qualified>>

-----------------------------------------------------------------------------
(* What happens around the connections. *)

EndpointReplaced(m) ==
  /\ m \in Dynamic /\ endpoint[m] < MaxEpoch
  /\ endpoint' = [endpoint EXCEPT ![m] = @ + 1] /\ resolves' = [resolves EXCEPT ![m] = TRUE]
  /\ UNCHANGED <<stream, routeCount, handshakes, activity, leases, memberOpen, node, probe, slot,
                 rrCounter, qualified>>

EndpointLost(m) ==
  /\ m \in Dynamic /\ resolves[m] /\ resolves' = [resolves EXCEPT ![m] = FALSE]
  /\ UNCHANGED <<stream, routeCount, handshakes, activity, leases, memberOpen, endpoint, node,
                 probe, slot, rrCounter, qualified>>

MemberCloses(m) ==
  /\ memberOpen[m] /\ memberOpen' = [memberOpen EXCEPT ![m] = FALSE]
  /\ UNCHANGED <<stream, routeCount, handshakes, activity, leases, endpoint, resolves, node,
                 probe, slot, rrCounter, qualified>>

MaterialRotates ==
  /\ slot > 0 /\ slot < MaxMaterial /\ slot' = slot + 1
  /\ UNCHANGED <<stream, routeCount, handshakes, activity, leases, memberOpen, endpoint, resolves,
                 node, probe, rrCounter, qualified>>

-----------------------------------------------------------------------------
(* A connection. *)

\* Mutant: a connection that ends inside its handshake keeps the handshake permit.
EndKeepingHandshake(s) ==
  LET c == stream[s]
  IN  /\ stream' = [stream EXCEPT ![s] = [Waiting EXCEPT !.pos = "over"]]
      /\ routeCount' = IF c.pos \in {"new", "routed"} THEN routeCount ELSE routeCount - 1
      /\ handshakes' = handshakes
      /\ leases' = IF c.leased THEN [leases EXCEPT ![c.member] = @ - 1] ELSE leases
      /\ activity' = IF c.pos = "forwarding" THEN [activity EXCEPT ![c.member] = @ - 1] ELSE activity

\* Its task returns: whatever it held by then is released by the drops.
End(s) ==
  LET c == stream[s]
  IN  /\ stream' = [stream EXCEPT ![s] = [Waiting EXCEPT !.pos = "over"]]
      /\ routeCount' = IF c.pos \in {"new", "routed"} THEN routeCount ELSE routeCount - 1
      /\ handshakes' = IF c.pos = "handshake" THEN handshakes - 1 ELSE handshakes
      /\ leases' = IF c.leased THEN [leases EXCEPT ![c.member] = @ - 1] ELSE leases
      /\ activity' = IF c.pos = "forwarding" THEN [activity EXCEPT ![c.member] = @ - 1] ELSE activity

Around == <<memberOpen, endpoint, resolves, node, probe, slot, qualified>>

\* A refusal, error, timeout, shutdown, revoked identity, idle expiry or end of stream.
Stops(s) ==
  /\ stream[s].pos \notin {"new", "over"}
  /\ End(s) /\ UNCHANGED <<Around, rrCounter>>

\* ClientHello inspection selects a route whose lists admit the peer; a listener with a
\* single legacy route needs none.  All refusals leave with an outcome.
Inspect(s) ==
  /\ stream[s].pos = "new" /\ Move(s, "routed")
  /\ UNCHANGED <<Around, rrCounter, routeCount, handshakes, activity, leases>>

AcquireRoute(s) ==
  /\ stream[s].pos = "routed" /\ routeCount < RouteLimit
  /\ routeCount' = routeCount + 1 /\ Move(s, "admitted")
  /\ UNCHANGED <<Around, rrCounter, handshakes, activity, leases>>

\* Inbound TLS: the slot's current material, and a handshake permit.
BeginHandshake(s) ==
  /\ stream[s].pos = "admitted" /\ slot > 0 /\ handshakes < HandshakeLimit
  /\ handshakes' = handshakes + 1
  /\ stream' = [stream EXCEPT ![s].pos = "handshake", ![s].material = slot]
  /\ UNCHANGED <<Around, rrCounter, routeCount, activity, leases>>

\* WorkloadLease::current: the material is still the one the peer was authorized with.
LeaseCurrent(s) == stream[s].material = slot

FinishHandshake(s) ==
  /\ stream[s].pos = "handshake" /\ LeaseCurrent(s)
  /\ handshakes' = handshakes - 1 /\ Move(s, "authenticated")
  /\ UNCHANGED <<Around, rrCounter, routeCount, activity, leases>>

TotalWeight == LET W[i \in 0..Len(Weights)] == IF i = 0 THEN 0 ELSE W[i-1] + Weights[i] IN W[Len(Weights)]

\* The member a weighted slot falls on.
SlotMember(k) ==
  CHOOSE m \in Members :
    LET W[i \in 0..Len(Weights)] == IF i = 0 THEN 0 ELSE W[i-1] + Weights[i]
    IN  W[m-1] <= k /\ k < W[m]

Eligible(m) == memberOpen[m] /\ resolves[m] /\ AvailableFor(m, endpoint[m])

\* next_backend_index: the slot's member or the next eligible one after it.  The position
\* advances even if no member is eligible and the connection is refused.  Members without
\* ids all weigh one, and then the slot is the position modulo their number.
Select(s) ==
  LET start == SlotMember(rrCounter)
      at(i) == ((start - 1 + i) % Len(Weights)) + 1
      tries == {i \in 0..Len(Weights)-1 : Eligible(at(i))}
  IN  /\ stream[s].pos = "authenticated"
      /\ rrCounter' = (rrCounter + 1) % TotalWeight
      /\ \/ tries = {} /\ End(s)
         \/ /\ tries # {}
            /\ LET m == at(CHOOSE i \in tries : \A j \in tries : i <= j)
               IN  stream' = [stream EXCEPT ![s].pos = "selected", ![s].member = m]
            /\ UNCHANGED <<routeCount, handshakes, activity, leases>>
      /\ UNCHANGED Around

\* Selection enters a newer generation of a member it looks at.
SelectObserves(s, m) ==
  /\ stream[s].pos = "authenticated" /\ memberOpen[m] /\ resolves[m]
  /\ StartObserving(m, endpoint[m])
  /\ UNCHANGED <<stream, routeCount, handshakes, activity, leases, memberOpen, endpoint, resolves,
                 probe, slot, rrCounter, qualified>>

\* The gate's lease owns the pending dial and the stream; then the target is resolved and
\* must be a qualified generation.
LeaseMember(s) ==
  LET m == stream[s].member
  IN  /\ stream[s].pos = "selected" /\ memberOpen[m] /\ resolves[m]
      /\ Observed(m, endpoint[m]) /\ AvailableFor(m, endpoint[m])
      /\ leases' = [leases EXCEPT ![m] = @ + 1]
      /\ stream' = [stream EXCEPT ![s].pos = "dialing", ![s].leased = TRUE, ![s].epoch = endpoint[m]]
      /\ UNCHANGED <<Around, rrCounter, routeCount, handshakes, activity>>

\* connect_with_tls returned, and the identity is still current.
Dialed(s) ==
  /\ stream[s].pos = "dialing" /\ LeaseCurrent(s) /\ Move(s, "dialed")
  /\ UNCHANGED <<Around, rrCounter, routeCount, handshakes, activity, leases>>

\* The target is still what the backend resolves to.
RecheckEndpoint(s) ==
  LET m == stream[s].member
  IN  /\ stream[s].pos = "dialed" /\ resolves[m] /\ endpoint[m] = stream[s].epoch
      /\ Move(s, "epoch_read")
      /\ UNCHANGED <<Around, rrCounter, routeCount, handshakes, activity, leases>>

\* available_for: the epoch, the flags, and the epoch again, each a separate load.
ReadEpoch(s) ==
  LET m == stream[s].member
  IN  /\ stream[s].pos = "epoch_read" /\ node[m].epoch = stream[s].epoch /\ Move(s, "flags_read")
      /\ UNCHANGED <<Around, rrCounter, routeCount, handshakes, activity, leases>>

ReadFlags(s) ==
  LET m == stream[s].member
  IN  /\ stream[s].pos = "flags_read" /\ node[m].available /\ Move(s, "epoch_again")
      /\ UNCHANGED <<Around, rrCounter, routeCount, handshakes, activity, leases>>

\* Then the member's gate, and a place in its activity: bytes may flow.
BeginForwarding(s) ==
  LET m == stream[s].member
  IN  /\ stream[s].pos = "epoch_again" /\ node[m].epoch = stream[s].epoch /\ memberOpen[m]
      /\ activity' = [activity EXCEPT ![m] = @ + 1]
      /\ Move(s, "forwarding")
      /\ UNCHANGED <<Around, rrCounter, routeCount, handshakes, leases>>

StreamsNext ==
  \/ \E s \in Streams :
       \/ Inspect(s) \/ AcquireRoute(s) \/ BeginHandshake(s) \/ FinishHandshake(s)
       \/ Select(s) \/ LeaseMember(s) \/ Dialed(s) \/ RecheckEndpoint(s)
       \/ ReadEpoch(s) \/ ReadFlags(s) \/ BeginForwarding(s) \/ Stops(s)
       \/ \E m \in Members : SelectObserves(s, m)
  \/ \E m \in Members :
       \/ StoreEpoch(m) \/ ProbeDial(m) \/ ProbeObserves(m) \/ ProbeUnresolved(m)
       \/ EndpointReplaced(m) \/ EndpointLost(m) \/ MemberCloses(m)
       \/ \E ok \in BOOLEAN : ProbeResult(m, ok)
  \/ MaterialRotates

-----------------------------------------------------------------------------
(* Properties. *)

At(positions) == {s \in Streams : stream[s].pos \in positions}

\* With endpoints replaced, members closed and material rotated while connections dial
\* (proxy_connection, TcpHealth::available_for, ensure_epoch): bytes are forwarded only to
\* an endpoint generation that a probe of that same generation qualified, never on the
\* strength of its predecessor's health; and every permit, lease and activity count is
\* exactly what the connections under way hold, whichever step they end at, so that a
\* drain that sees no lease sees no stream.
StreamsSound ==
  /\ \A s \in At({"forwarding"}) : stream[s].epoch \in qualified[stream[s].member]
  /\ \A m \in Members :
       /\ activity[m] = Cardinality({s \in At({"forwarding"}) : stream[s].member = m})
       /\ leases[m] = Cardinality({s \in Streams : stream[s].leased /\ stream[s].member = m})
       /\ leases[m] = 0 => activity[m] = 0
  /\ handshakes = Cardinality(At({"handshake"})) /\ handshakes <= HandshakeLimit
  /\ routeCount = Cardinality(Streams \ At({"new", "routed", "over"}))
=============================================================================
