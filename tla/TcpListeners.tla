---------------------------- MODULE TcpListeners ----------------------------
(***************************************************************************)
(* TcpManager (src/src/tcp.rs) and the manager half of src/src/udp.rs: the  *)
(* listening sockets of one process.  A publication prepares (binds what is *)
(* missing, in Prepare), then commits under the listener lock: the datagram *)
(* listeners are exchanged, the snapshot is published, and only then are    *)
(* accept loops started and cancelled.  Accept loops read the published     *)
(* snapshot without that lock, so a connection accepted under one snapshot  *)
(* is routed under whichever is published when the loop looks.              *)
(*                                                                          *)
(* A document gives every address at most one role: Config::validate and    *)
(* the overlap checks of prepare refuse anything else.  A refused or failed *)
(* preparation drops its sockets and changes nothing, so it is a stuttering *)
(* step here.                                                               *)
(***************************************************************************)
EXTENDS Naturals, FiniteSets

CONSTANTS Addrs,          \* listen addresses
          Roles,          \* what a listener serves: raw TCP, workload HTTP, public HTTP(S)
          MaxStreams,     \* the connection permits
          MaxCommits      \* bound on publications

ASSUME ListenersAssumption ==
  /\ "tcp" \in Roles /\ Roles \cap {"none", "no_route", "ip_denied", "rejected"} = {}
  /\ MaxStreams \in Nat \ {0} /\ MaxCommits \in Nat

VARIABLES
  published,      \* the active snapshot's document: a role per address, and its UDP routes
  listenLock,     \* TRUE from publish() to the end of the listener mutation
  listeners,      \* State::listeners
  loop,           \* per address: the accept loop's position
  cancelled,      \* per address: the loop's cancellation token
  bornAs,         \* per address: the role published when its loop was started (history)
  plan,           \* the Prepared transaction of the publication under way
  gate,           \* the accept gate
  handler,        \* whether the HTTP handler is installed
  stopStage,      \* "no", "udp", "tcp", "drained": how far a shutdown is
  udpEpoch,       \* commits of the datagram manager
  udpRunning,     \* its installed listeners
  streams,        \* connection tasks holding a permit
  exported,       \* what export_listeners last returned, with the document of that moment
  servedAs        \* <<role the listener was started for, role the connection got>> (history)

listenVars == <<published, listenLock, listeners, loop, cancelled, bornAs, plan, gate, handler,
                stopStage, udpEpoch, udpRunning, streams, exported, servedAs>>

NoPlan   == [stage |-> "none"]
NoExport == [none |-> TRUE]

\* A document: one role (or none) per address, and whether it has UDP routes.
Documents == [role : [Addrs -> Roles \cup {"none"}], udp : SUBSET {"udp"}]

\* Socket addresses an enabled route or listener of the document asks for.
DesiredListens(config) == {a \in Addrs : config.role[a] # "none"}

ListenerRole(config, a) == config.role[a]

ListenersInit ==
  /\ published \in Documents /\ listenLock = FALSE
  /\ listeners = {} /\ loop = [a \in Addrs |-> "none"]
  /\ cancelled = [a \in Addrs |-> FALSE] /\ bornAs = [a \in Addrs |-> "none"]
  /\ plan = NoPlan /\ gate = FALSE /\ handler = FALSE /\ stopStage = "no"
  /\ udpEpoch = 0 /\ udpRunning = {} /\ streams = 0
  /\ exported = NoExport /\ servedAs = {}

-----------------------------------------------------------------------------
(* Preparing and committing a publication. *)

\* An address both the old and the new document listen on keeps its role; a
\* socket that is still bound by a loop on its way out cannot be bound again.
PreparationAccepted(config) ==
  /\ \A a \in listeners \cap DesiredListens(config) :
       ListenerRole(published, a) = ListenerRole(config, a)
  /\ \A a \in DesiredListens(config) \ listeners : loop[a] = "none"

\* prepare of the datagram manager pins its epoch.
UdpPrepare == [routes |-> {}, epoch |-> udpEpoch]

Prepare(config) ==
  /\ plan = NoPlan /\ ~listenLock /\ stopStage = "no" /\ udpEpoch < MaxCommits
  /\ udpEpoch = 0 => config = published     \* the first publication is the loaded document
  /\ PreparationAccepted(config)
  /\ plan' = [stage |-> "prepared", config |-> config,
              added |-> DesiredListens(config) \ listeners,
              udp |-> [UdpPrepare EXCEPT !.routes = config.udp]]
  /\ UNCHANGED <<published, listenLock, listeners, loop, cancelled, bornAs, gate, handler,
                 stopStage, udpEpoch, udpRunning, streams, exported, servedAs>>

\* A replacement generation takes the sockets its predecessor exported: exactly
\* the configured ones, and no UDP route.
PrepareWithInherited(inherited) ==
  /\ plan = NoPlan /\ ~listenLock /\ stopStage = "no" /\ udpEpoch = 0
  /\ listeners = {} /\ published.udp = {}
  /\ inherited = DesiredListens(published)
  /\ plan' = [stage |-> "prepared", config |-> published, added |-> inherited, udp |-> UdpPrepare]
  /\ UNCHANGED <<published, listenLock, listeners, loop, cancelled, bornAs, gate, handler,
                 stopStage, udpEpoch, udpRunning, streams, exported, servedAs>>

\* Mutant: a datagram commit is not refused after the shutdown.
UdpCommittableAnyTime == udpEpoch = plan.udp.epoch

\* commit of the datagram manager: refused after its shutdown or for a stale candidate.
UdpCommittable == stopStage = "no" /\ udpEpoch = plan.udp.epoch

UdpCommit == udpEpoch' = udpEpoch + 1 /\ udpRunning' = plan.udp.routes

\* The lock is taken, the UDP listeners are exchanged and the snapshot is published.
CommitPublish ==
  /\ plan.stage = "prepared" /\ ~listenLock
  /\ stopStage \in {"no", "udp"} /\ UdpCommittable
  /\ UdpCommit
  /\ published' = plan.config /\ listenLock' = TRUE
  /\ plan' = [plan EXCEPT !.stage = "published"]
  /\ UNCHANGED <<listeners, loop, cancelled, bornAs, gate, handler, stopStage, streams,
                 exported, servedAs>>

\* Shutting down: the candidate is dropped and its sockets close.
CommitRefused ==
  /\ plan.stage = "prepared" /\ ~listenLock
  /\ stopStage \in {"tcp", "drained"} \/ ~UdpCommittable
  /\ plan' = NoPlan
  /\ UNCHANGED <<published, listenLock, listeners, loop, cancelled, bornAs, gate, handler,
                 stopStage, udpEpoch, udpRunning, streams, exported, servedAs>>

\* Accept loops of the added sockets start, those no longer desired are cancelled.
CommitInstall ==
  /\ plan.stage = "published"
  /\ LET desired == DesiredListens(plan.config)
         added   == plan.added \ listeners
         removed == listeners \ desired
     IN  /\ loop' = [a \in Addrs |-> IF a \in added THEN "waiting" ELSE loop[a]]
         /\ bornAs' = [a \in Addrs |-> IF a \in added THEN ListenerRole(published, a)
                                                      ELSE bornAs[a]]
         /\ cancelled' = [a \in Addrs |-> IF a \in added THEN FALSE
                                          ELSE cancelled[a] \/ a \in removed]
         /\ listeners' = (listeners \cup added) \ removed
         /\ plan' = [stage |-> "reaping", stopped |-> removed]
  /\ listenLock' = FALSE
  /\ UNCHANGED <<published, gate, handler, stopStage, udpEpoch, udpRunning, streams, exported,
                 servedAs>>

\* The cancelled loops are awaited before the publication returns.
CommitReaped ==
  /\ plan.stage = "reaping" /\ \A a \in plan.stopped : loop[a] = "none"
  /\ plan' = NoPlan
  /\ UNCHANGED <<published, listenLock, listeners, loop, cancelled, bornAs, gate, handler,
                 stopStage, udpEpoch, udpRunning, streams, exported, servedAs>>

-----------------------------------------------------------------------------
(* Gate, handler, export and shutdown. *)

SetWorkloadHttp ==
  /\ ~gate /\ ~handler /\ handler' = TRUE
  /\ UNCHANGED <<published, listenLock, listeners, loop, cancelled, bornAs, plan, gate,
                 stopStage, udpEpoch, udpRunning, streams, exported, servedAs>>

OpenGate ==
  /\ ~gate /\ stopStage = "no" /\ udpEpoch > 0 /\ gate' = TRUE
  /\ UNCHANGED <<published, listenLock, listeners, loop, cancelled, bornAs, plan, handler,
                 stopStage, udpEpoch, udpRunning, streams, exported, servedAs>>

\* Duplicates the listening descriptors, under the lock.
ExportListeners ==
  /\ ~listenLock /\ stopStage \in {"no", "udp"} /\ udpEpoch > 0
  /\ published.udp = {}
  /\ exported' = [addrs |-> listeners, config |-> published]
  /\ UNCHANGED <<published, listenLock, listeners, loop, cancelled, bornAs, plan, gate, handler,
                 stopStage, udpEpoch, udpRunning, streams, servedAs>>

\* shutdown of the datagram manager, before stop_accepting waits for the lock.
UdpShutdown ==
  /\ stopStage = "no" /\ udpEpoch > 0 /\ stopStage' = "udp" /\ udpRunning' = {}
  /\ UNCHANGED <<published, listenLock, listeners, loop, cancelled, bornAs, plan, gate, handler,
                 udpEpoch, streams, exported, servedAs>>

StopAccepting ==
  /\ stopStage = "udp" /\ ~listenLock /\ stopStage' = "tcp"
  /\ cancelled' = [a \in Addrs |-> cancelled[a] \/ a \in listeners]
  /\ listeners' = {}
  /\ UNCHANGED <<published, listenLock, loop, bornAs, plan, gate, handler, udpEpoch, udpRunning,
                 streams, exported, servedAs>>

\* shutdown: the loops are awaited, streams drain for the grace and are then
\* cancelled, and the tracker is waited empty.
ShutdownDrained ==
  /\ stopStage = "tcp" /\ \A a \in Addrs : cancelled[a] => loop[a] = "none"
  /\ stopStage' = "drained" /\ streams' = 0
  /\ UNCHANGED <<published, listenLock, listeners, loop, cancelled, bornAs, plan, gate, handler,
                 udpEpoch, udpRunning, exported, servedAs>>

-----------------------------------------------------------------------------
(* One accept loop. *)

\* Past the gate; select! polls the token before the socket, so a cancelled loop
\* accepts nothing more.  A transport that cannot be set up is counted and dropped.
Accept(a) ==
  /\ loop[a] = "waiting" /\ gate /\ ~cancelled[a]
  /\ loop' = [loop EXCEPT ![a] = "holding"]
  /\ UNCHANGED <<published, listenLock, listeners, cancelled, bornAs, plan, gate, handler,
                 stopStage, udpEpoch, udpRunning, streams, exported, servedAs>>

\* What the snapshot of this instant makes of the connection: an HTTP listener
\* needs the handler, raw TCP a route of this address that does not deny the peer.
Dispatch(a, denied) ==
  LET role == ListenerRole(published, a)
  IN  CASE role = "none" -> "no_route"
        [] role = "tcp"  -> IF denied THEN "ip_denied" ELSE role
        [] OTHER         -> IF handler THEN role ELSE "rejected"

\* The connection gets a permit and a task, or is closed and counted.
Route(a, denied) ==
  /\ loop[a] = "holding"
  /\ loop' = [loop EXCEPT ![a] = "waiting"]
  /\ IF Dispatch(a, denied) \in Roles /\ streams < MaxStreams
       THEN /\ streams' = streams + 1
            /\ servedAs' = servedAs \cup {<<bornAs[a], Dispatch(a, denied)>>}
       ELSE UNCHANGED <<streams, servedAs>>
  /\ UNCHANGED <<published, listenLock, listeners, cancelled, bornAs, plan, gate, handler,
                 stopStage, udpEpoch, udpRunning, exported>>

LoopEnds(a) ==
  /\ loop[a] = "waiting" /\ cancelled[a]
  /\ loop' = [loop EXCEPT ![a] = "none"]
  /\ UNCHANGED <<published, listenLock, listeners, cancelled, bornAs, plan, gate, handler,
                 stopStage, udpEpoch, udpRunning, streams, exported, servedAs>>

StreamEnds ==
  /\ streams > 0 /\ streams' = streams - 1
  /\ UNCHANGED <<published, listenLock, listeners, loop, cancelled, bornAs, plan, gate, handler,
                 stopStage, udpEpoch, udpRunning, exported, servedAs>>

ListenersNext ==
  \/ \E config \in Documents : Prepare(config)
  \/ \E inherited \in SUBSET Addrs : PrepareWithInherited(inherited)
  \/ CommitPublish \/ CommitRefused \/ CommitInstall \/ CommitReaped
  \/ SetWorkloadHttp \/ OpenGate \/ ExportListeners
  \/ UdpShutdown \/ StopAccepting \/ ShutdownDrained
  \/ \E a \in Addrs : Accept(a) \/ LoopEnds(a) \/ \E denied \in BOOLEAN : Route(a, denied)
  \/ StreamEnds

ListenersSpec == ListenersInit /\ [][ListenersNext]_listenVars

-----------------------------------------------------------------------------
(* Properties. *)

\* Whatever publications run while loops hold accepted connections (prepare and
\* commit_with_publication against spawn_accept_loop): a connection is served in the
\* role its listener was bound for; what export_listeners hands to a replacement is
\* exactly the set its document asks for, which prepare_with_inherited insists on;
\* outside the lock the installed listeners are the published document's; and once a
\* shutdown is through, no loop, datagram listener or stream is left, although
\* a publication may have been between its two halves when it began.
ListenersSound ==
  /\ \A s \in servedAs : s[1] = s[2]
  /\ exported # NoExport => exported.addrs = DesiredListens(exported.config)
  /\ (~listenLock /\ udpEpoch > 0 /\ stopStage \in {"no", "udp"})
       => listeners = DesiredListens(published)
  /\ stopStage = "drained" =>
       /\ \A a \in Addrs : loop[a] = "none"
       /\ udpRunning = {} /\ streams = 0
=============================================================================
