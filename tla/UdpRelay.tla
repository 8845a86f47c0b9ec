------------------------------ MODULE UdpRelay ------------------------------
(***************************************************************************)
(* One datagram listener of src/src/udp.rs: listener_loop, which owns the   *)
(* client -> flow table, and the session tasks it spawns (session_loop).    *)
(* The loop awaits while it binds an upstream socket, sessions end on their *)
(* own (idle, an I/O error, a closed gate), and the loop learns of it only  *)
(* when it joins the task, possibly after the client already has another    *)
(* flow.  Permits of two process-wide semaphores, sessions and buffered     *)
(* bytes, travel with sessions and packets.  Time is a session's freedom to *)
(* run into its idle deadline at any moment.                                *)
(***************************************************************************)
EXTENDS Naturals, FiniteSets

CONSTANTS Clients,         \* client socket addresses
          Backends,        \* the route's backends, 0..Backends-1
          MaxSessions,     \* Route::max_sessions
          MaxTotal,        \* MAX_TOTAL_SESSIONS
          MaxMemory,       \* MAX_BUFFERED_BYTES, in datagrams
          MaxQueue,        \* MAX_QUEUE
          MaxFlows         \* bound on sessions created

ASSUME RelayAssumption ==
  /\ {Backends, MaxSessions, MaxTotal, MaxMemory, MaxQueue, MaxFlows} \subseteq Nat \ {0}
  /\ IsFiniteSet(Clients)

VARIABLES
  flows,        \* per client: sequence of its flow, 0 when the table has none
  relay,        \* the listener task: "running", "binding" (awaiting connect) or "ended"
  binding,      \* the client being bound
  sequence,     \* flows created
  roundRobin,
  sessions,     \* per sequence: [client, state, queued, backend]; state "unused", "live",
                \*   "ended" (task over, not joined) or "joined"
  capacity,     \* free session permits
  memory,       \* free datagram permits
  relayGate,    \* the manager's gate
  relayCancel   \* the listener's cancellation token

relayVars == <<flows, relay, binding, sequence, roundRobin, sessions, capacity, memory,
               relayGate, relayCancel>>

Unused == [client |-> "none", state |-> "unused", queued |-> 0, backend |-> 0]

RelayInit ==
  /\ flows = [c \in Clients |-> 0] /\ relay = "running" /\ binding = "none"
  /\ sequence = 0 /\ roundRobin = 0
  /\ sessions = [q \in 1..MaxFlows |-> Unused]
  /\ capacity = MaxTotal /\ memory = MaxMemory
  /\ relayGate = TRUE /\ relayCancel = FALSE

Live       == {q \in 1..MaxFlows : sessions[q].state = "live"}

\* Datagrams queued for live sessions.
Pending  == {p \in (1..MaxFlows) \X (1..MaxQueue) : p[1] \in Live /\ p[2] <= sessions[p[1]].queued}
Buffered == Cardinality(Pending)

FlowCount(table) == Cardinality({c \in Clients : table[c] # 0})

\* A flow whose session task is over has a closed sender.
SenderClosed(q) == q # 0 /\ sessions[q].state # "live"

-----------------------------------------------------------------------------
(* listener_loop *)

\* A datagram for a client with a working flow is queued, if a buffer permit and
\* a slot are free; otherwise it is dropped.
ReceiveKnown(c) ==
  /\ relay = "running" /\ ~relayCancel /\ relayGate
  /\ flows[c] # 0 /\ ~SenderClosed(flows[c])
  /\ memory > 0 /\ sessions[flows[c]].queued < MaxQueue
  /\ sessions' = [sessions EXCEPT ![flows[c]].queued = @ + 1]
  /\ memory' = memory - 1
  /\ UNCHANGED <<flows, relay, binding, sequence, roundRobin, capacity, relayGate, relayCancel>>

\* A datagram of a client without one: a closed flow is forgotten, limits are
\* checked, permits for the session and its buffer are taken, and the upstream
\* socket is being bound.
ReceiveNew(c) ==
  LET kept == [flows EXCEPT ![c] = 0]
  IN  /\ relay = "running" /\ ~relayCancel /\ relayGate
      /\ flows[c] = 0 \/ SenderClosed(flows[c])
      /\ flows' = kept
      /\ IF FlowCount(kept) < MaxSessions /\ capacity > 0 /\ memory > 0
           THEN /\ relay' = "binding" /\ binding' = c
                /\ capacity' = capacity - 1 /\ memory' = memory - 1
           ELSE UNCHANGED <<relay, binding, capacity, memory>>
      /\ UNCHANGED <<sequence, roundRobin, sessions, relayGate, relayCancel>>

\* The socket is bound, and neither the gate nor the token changed meanwhile: the
\* flow gets the next sequence and its task starts with the datagram queued.
Bound ==
  LET q == sequence + 1
  IN  /\ relay = "binding" /\ ~relayCancel /\ relayGate /\ sequence < MaxFlows
      /\ sequence' = q /\ roundRobin' = roundRobin + 1
      /\ flows' = [flows EXCEPT ![binding] = q]
      /\ sessions' = [sessions EXCEPT ![q] =
           [client |-> binding, state |-> "live", queued |-> IF memory > 0 THEN 1 ELSE 0,
            backend |-> roundRobin % Backends]]
      /\ memory' = IF memory > 0 THEN memory - 1 ELSE memory
      /\ relay' = "running" /\ binding' = "none"
      /\ UNCHANGED <<capacity, relayGate, relayCancel>>

\* bind_connected failed, or the gate or the token changed under it: the permits
\* go back with the dropped datagram.
BindAbandoned ==
  /\ relay = "binding"
  /\ relay' = "running" /\ binding' = "none"
  /\ capacity' = capacity + 1 /\ memory' = memory + 1
  /\ UNCHANGED <<flows, sequence, roundRobin, sessions, relayGate, relayCancel>>

\* Mutant: an ended session removes its client's flow although a newer session owns it.
JoinedFlowsByClient(q) ==
  [c \in Clients |-> IF c = sessions[q].client \/ SenderClosed(flows[c]) THEN 0 ELSE flows[c]]

\* join_next: the flow goes if it is still the one that ended, and so does every
\* flow whose sender is closed.
JoinedFlows(q) ==
  [c \in Clients |-> IF (c = sessions[q].client /\ flows[c] = q) \/ SenderClosed(flows[c])
                       THEN 0 ELSE flows[c]]

Join(q) ==
  /\ relay = "running" /\ ~relayCancel /\ sessions[q].state = "ended"
  /\ flows' = JoinedFlows(q)
  /\ sessions' = [sessions EXCEPT ![q].state = "joined"]
  /\ UNCHANGED <<relay, binding, sequence, roundRobin, capacity, memory, relayGate, relayCancel>>

\* Cancelled, or the socket failed: every session task is aborted and joined, and
\* what they held comes back.
ListenerEnds ==
  /\ relay = "running"
  /\ relay' = "ended" /\ relayCancel' = TRUE
  /\ capacity' = capacity + Cardinality(Live)
  /\ memory' = memory + Cardinality(Live) + Buffered
  /\ sessions' = [q \in 1..MaxFlows |->
       IF q \in Live THEN [sessions[q] EXCEPT !.state = "joined", !.queued = 0] ELSE sessions[q]]
  /\ UNCHANGED <<flows, binding, sequence, roundRobin, relayGate>>

-----------------------------------------------------------------------------
(* session_loop *)

\* What a session's task drops when it returns: its session permit, its buffer
\* and the packets still queued for it.
Released(q) ==
  /\ sessions' = [sessions EXCEPT ![q].state = "ended", ![q].queued = 0]
  /\ capacity' = capacity + 1
  /\ memory' = memory + 1 + sessions[q].queued

\* A queued datagram is sent upstream and its permit returns.
Forward(q) ==
  /\ q \in Live /\ sessions[q].queued > 0 /\ relayGate /\ ~relayCancel
  /\ sessions' = [sessions EXCEPT ![q].queued = @ - 1]
  /\ memory' = memory + 1
  /\ UNCHANGED <<flows, relay, binding, sequence, roundRobin, capacity, relayGate, relayCancel>>

\* The idle deadline, a send or receive error, a closed gate met by a packet, or
\* the token.  A reply from upstream only moves the deadline.
SessionEnds(q) ==
  /\ q \in Live
  /\ Released(q)
  /\ UNCHANGED <<flows, relay, binding, sequence, roundRobin, relayGate, relayCancel>>

-----------------------------------------------------------------------------
(* The manager's hand on a listener. *)

\* stop_listener: a commit that changes or removes the route, or a shutdown.
CancelListener ==
  /\ ~relayCancel /\ relayCancel' = TRUE
  /\ UNCHANGED <<flows, relay, binding, sequence, roundRobin, sessions, capacity, memory, relayGate>>

SetGate(open) ==
  /\ relayGate # open /\ relayGate' = open
  /\ UNCHANGED <<flows, relay, binding, sequence, roundRobin, sessions, capacity, memory, relayCancel>>

RelayNext ==
  \/ \E c \in Clients : ReceiveKnown(c) \/ ReceiveNew(c)
  \/ Bound \/ BindAbandoned \/ ListenerEnds \/ CancelListener
  \/ \E q \in 1..MaxFlows : Join(q) \/ Forward(q) \/ SessionEnds(q)
  \/ \E open \in BOOLEAN : SetGate(open)

RelaySpec == RelayInit /\ [][RelayNext]_relayVars

-----------------------------------------------------------------------------
(* Properties. *)

Held == Cardinality(Live) + IF relay = "binding" THEN 1 ELSE 0

\* Sessions end in any order against the loop's joins and a client's next datagram
\* (listener_loop, session_loop): while the listener runs, a live session is the one its
\* client's flow names, so a client never has two and never loses the one it has to
\* a late join; the table stays within max_sessions; and the two process-wide
\* semaphores lend exactly what live sessions, the socket being bound and queued
\* datagrams hold, so they are whole again when the listener has ended.
RelaySound ==
  /\ relay # "ended" => \A q \in Live : flows[sessions[q].client] = q
  /\ FlowCount(flows) <= MaxSessions
  /\ capacity + Held = MaxTotal
  /\ memory + Held + Buffered = MaxMemory
  /\ relay = "ended" => capacity = MaxTotal /\ memory = MaxMemory
=============================================================================
