---------------------------- MODULE HttpPipeline ----------------------------
(***************************************************************************)
(* Proxy::handle, handle_unfinalized and handle_inner of src/src/proxy.rs:  *)
(* one request from its arrival to the end of its response body or tunnel,  *)
(* while configurations are published, external authorities move and the    *)
(* gateway shuts down underneath it.  One action per stage of the handler;  *)
(* a stage that returns early answers the client and drops what it held.    *)
(*                                                                          *)
(* What the handler compares later is modelled by generation numbers: a     *)
(* "part" is something a publication or an authority can replace, a lease   *)
(* or a fence remembers the generation it was taken under.                  *)
(***************************************************************************)
EXTENDS Naturals, FiniteSets

CONSTANTS Profiles,     \* the routes considered, each a set of Features
          Arrivals,     \* the requests considered, each a set of Traits
          HttpMembers,  \* members of the route's pool
          Retries,      \* the route's retries
          MaxMoves      \* bound on publications and authority changes

Features == {"jwt", "basic", "auth", "workload", "pumgye", "remote", "expiring", "native",
             "strict", "service", "lua", "transform", "responseTransform", "blocks", "cache", "bans",
             "docker", "json"}
Traits   == {"public", "workload", "body", "websocket", "health", "onlyIfCached", "spoofed"}

\* What can be replaced under a request: the snapshot as a whole, the request
\* blocks, the public listener, the JWT route or its session, the workload
\* listener or route, the remote authority's lease and machine evidence.
Parts == {"any", "blocks", "listener", "jwt", "workload", "remote", "expiry"}
Published == {"blocks", "listener", "jwt", "workload"}

ASSUME PipelineAssumption ==
  /\ Profiles \subseteq SUBSET Features /\ Arrivals \subseteq SUBSET Traits
  /\ HttpMembers # {} /\ Retries \in Nat /\ MaxMoves \in Nat

VARIABLES
  inForce,     \* generation of every part
  moves,       \* publications and authority changes so far
  route,       \* the features of the route the request matches
  traits,      \* what the request is
  rq,          \* the request's own state, see Arrived
  tunnel,      \* "none", "token", "spawned", "ended": the WebSocket tunnel
  tunnelsClosed, \* TaskTracker::close was called
  stop         \* "no", "closing", "cancelled", "drained": Proxy::shutdown

pipeVars == <<inForce, moves, route, traits, rq, tunnel, tunnelsClosed, stop>>

\* Fields of the request whose origin matters to someone downstream.
Fields == {"identity", "fwdIdentity", "authorization", "forwarded", "plain"}

NoMember == 0

\* The request as the listener hands it over.  "spoofed" requests carry the
\* gateway's own identity and forwarding fields.  `form` counts rewrites of
\* the request, `inspected` the form the request blocks accepted last.
Arrived ==
  [pc |-> "arrived", snap |-> inForce, evidence |-> inForce["listener"],
   lease |-> <<>>, fences |-> <<>>, held |-> {}, passed |-> {},
   fields |-> [f \in Fields |-> IF f \in {"authorization", "plain"} \/ "spoofed" \in traits
                                THEN "client" ELSE "absent"],
   established |-> {}, consumed |-> FALSE, allowed |-> FALSE,
   form |-> 0, inspected |-> 0, member |-> NoMember, pinned |-> NoMember,
   attempts |-> 0, sends |-> {}, answer |-> "none", observation |-> "none",
   secured |-> 0, guarded |-> FALSE]

PipelineInit ==
  /\ inForce = [p \in Parts |-> 0] /\ moves = 0
  /\ route \in Profiles /\ traits \in Arrivals
  /\ "workload" \in traits <=> "workload" \in route
  /\ rq = Arrived
  /\ tunnel = "none" /\ tunnelsClosed = FALSE /\ stop = "no"

\* A lease or fence is the function from the parts it watches to generations.
Watching(held, part, generation) ==
  [p \in DOMAIN held \cup {part} |-> IF p = part THEN generation ELSE held[p]]

PartsInForce(held) == \A p \in DOMAIN held : inForce[p] = held[p]

\* AuthRouteLease::retirement
RequestCurrent == PartsInForce(rq.lease)

RequestAt(stage) == rq.pc = stage
AdvanceTo(next) == rq' = next

\* An early return of handle_inner: the locals are dropped, the permit of
\* handle_unfinalized stays with the response.
Answered(from, reply) ==
  [from EXCEPT !.pc = "answered", !.answer = reply, !.held = @ \cap {"request"}]

\* An early return of handle_unfinalized: nothing is finalised or charged.
Refused(reply) == [rq EXCEPT !.pc = "refused", !.answer = reply, !.held = {}]

OnlyRequest == UNCHANGED <<inForce, moves, route, traits, tunnel, tunnelsClosed, stop>>

\* retired_auth_response: the request ends when its lease does.
Retire(stage) ==
  /\ RequestAt(stage) /\ ~RequestCurrent
  /\ AdvanceTo(Answered(rq, "retired"))
  /\ OnlyRequest

-----------------------------------------------------------------------------
(* The header passes. *)

\* Identity outputs of every route are removed from the client's request.
StripReserved(fields) == [fields EXCEPT !["identity"] = "absent", !["fwdIdentity"] = "absent"]

StripForwarding(fields) ==
  [fields EXCEPT !["forwarded"] = "absent", !["fwdIdentity"] = "absent"]

SetForwarding(fields) == [fields EXCEPT !["forwarded"] = "gateway"]

\* reassert_identity_headers: reserved names go, established values come back.
Reassert(fields, established) ==
  [f \in Fields |-> IF f \in established THEN "established"
                    ELSE IF f \in {"identity", "fwdIdentity"} THEN "absent" ELSE fields[f]]

\* apply_policy_headers: a mutation of a protected or sensitive name is an error.
PolicyMayChange == Fields \ {"identity", "fwdIdentity", "authorization", "forwarded"}

-----------------------------------------------------------------------------
(* handle_unfinalized: from arrival to the request permit. *)

\* handle: one snapshot for the whole request, and the response security context.
Handle ==
  /\ RequestAt("arrived")
  /\ AdvanceTo([rq EXCEPT !.pc = "screening", !.snap = inForce])
  /\ OnlyRequest

\* A retired public listener, the reserved identity headers and the ban precheck.
Screen ==
  /\ RequestAt("screening")
  /\ \/ /\ "public" \in traits /\ rq.evidence # rq.snap["listener"]
        /\ AdvanceTo(Refused("503"))
     \/ /\ "public" \in traits => rq.evidence = rq.snap["listener"]
        /\ \/ AdvanceTo([rq EXCEPT !.pc = "admission", !.fields = StripReserved(@)])
           \/ "bans" \in route /\ AdvanceTo(Refused("banned"))
  /\ OnlyRequest

\* The health probe is answered without a permit.
HealthProbe ==
  /\ RequestAt("admission") /\ "health" \in traits
  /\ AdvanceTo(Refused(IF stop = "cancelled" \/ stop = "drained" THEN "503" ELSE "200"))
  /\ OnlyRequest

AdmitRequest ==
  /\ RequestAt("admission") /\ "health" \notin traits
  /\ \/ AdvanceTo([rq EXCEPT !.pc = "normalising", !.held = {"request"}])
     \/ AdvanceTo(Refused("503"))
  /\ OnlyRequest

-----------------------------------------------------------------------------
(* handle_inner: before the route is known. *)

\* Dot segments, Content-Length, hop-by-hop nominations, cookies, duplicates.
Normalise ==
  /\ RequestAt("normalising")
  /\ \/ AdvanceTo([rq EXCEPT !.pc = "edge",
                  !.fields = IF "workload" \in traits THEN StripForwarding(@) ELSE @])
     \/ AdvanceTo(Answered(rq, "400"))
  /\ OnlyRequest

\* The effective client, and the admission of an external guard.
ResolveEdge ==
  /\ RequestAt("edge")
  /\ \/ AdvanceTo([rq EXCEPT !.pc = "bans"])
     \/ AdvanceTo(Answered(rq, "400"))
     \/ AdvanceTo(Answered(rq, "denied"))
  /\ OnlyRequest

\* Bans are checked again and the request's outcome will be observed.
ObserveFailures ==
  /\ RequestAt("bans")
  /\ \/ AdvanceTo([rq EXCEPT !.pc = "policies",
                  !.observation = IF "bans" \in route THEN "captured" ELSE "none"])
     \/ "bans" \in route /\ AdvanceTo(Answered(rq, "banned"))
  /\ OnlyRequest

\* CSRF, path blocks and allowlists.
PathPolicies ==
  /\ RequestAt("policies")
  /\ \/ AdvanceTo([rq EXCEPT !.pc = "rates"])
     \/ AdvanceTo(Answered(rq, "denied"))
  /\ OnlyRequest

\* The rate limits, then a pending HTTP-01 challenge is answered here.
CheckRates ==
  /\ RequestAt("rates")
  /\ \/ AdvanceTo([rq EXCEPT !.pc = "inspecting"])
     \/ AdvanceTo(Answered(rq, "429"))
     \/ AdvanceTo(Answered(rq, "challenge"))
  /\ OnlyRequest

\* request_blocks::check, which may buffer the body.
InspectRequest ==
  /\ RequestAt("inspecting")
  /\ \/ AdvanceTo([rq EXCEPT !.pc = "fencing", !.inspected = rq.form,
          !.fences = LET blocks == IF "blocks" \in route
                                   THEN Watching(@, "blocks", rq.snap["blocks"]) ELSE @
                     IN  IF "public" \in traits
                         THEN Watching(blocks, "listener", rq.evidence) ELSE blocks])
     \/ "blocks" \in route /\ AdvanceTo(Answered(rq, "blocked"))
  /\ OnlyRequest

\* The inspection waited: what it admitted under must still be what is active.
FenceAdmission ==
  /\ RequestAt("fencing")
  /\ IF PartsInForce(rq.fences) THEN AdvanceTo([rq EXCEPT !.pc = "matching"])
                           ELSE AdvanceTo(Answered(rq, "503"))
  /\ OnlyRequest

-----------------------------------------------------------------------------
(* handle_inner: the route's admission. *)

\* Resource guards and route matching; a JSON predicate buffers the body under
\* a permit the restored body keeps.
MatchRoute ==
  /\ RequestAt("matching")
  /\ \/ AdvanceTo([rq EXCEPT !.pc = "workload",
                  !.held = IF "json" \in route THEN @ \cup {"inspection"} ELSE @])
     \/ \E reply \in {"404", "denied", "413", "503"} : AdvanceTo(Answered(rq, reply))
  /\ OnlyRequest

\* A workload listener's identity is bound to the generation that admitted it;
\* native and locally decided routes also bind the snapshot.
WorkloadGate ==
  /\ RequestAt("workload")
  /\ LET workload == IF "workload" \in route
                     THEN Watching(<<>>, "workload", rq.snap["workload"]) ELSE <<>>
         leased   == IF "native" \in route \/ "pumgye" \in route
                     THEN Watching(workload, "any", rq.snap["any"]) ELSE workload
     IN  \/ AdvanceTo([rq EXCEPT !.pc = "route", !.lease = leased,
                      !.passed = IF "workload" \in route THEN @ \cup {"workload"} ELSE @])
         \/ "workload" \in route /\ AdvanceTo(Answered(rq, "403"))
  /\ OnlyRequest

\* Canonical and TLS redirects, the route's permit, networks, countries, languages.
AdmitRoute ==
  /\ RequestAt("route")
  /\ \/ AdvanceTo([rq EXCEPT !.pc = "cache", !.held = @ \cup {"route"}])
     \/ \E reply \in {"redirect", "503", "403"} : AdvanceTo(Answered(rq, reply))
  /\ OnlyRequest

\* Routes with a gateway authenticator are the ones with access mode protected.
Protected == route \cap {"jwt", "basic", "auth", "workload"} # {}

\* Only unprotected routes look into the cache; a hit keeps the route's permit.
CacheLookup ==
  /\ RequestAt("cache")
  /\ IF "onlyIfCached" \in traits /\ ~Protected
     THEN AdvanceTo(Answered(rq, "504"))
     ELSE \/ AdvanceTo([rq EXCEPT !.pc = "jwt", !.allowed = "pumgye" \notin route,
               !.established = IF "workload" \in route THEN {"identity"} ELSE @,
               !.fields = IF "workload" \in route
                          THEN [@ EXCEPT !["identity"] = "established"] ELSE @])
          \/ /\ "cache" \in route /\ ~Protected
             /\ AdvanceTo([rq EXCEPT !.pc = "answered", !.answer = "hit",
                                   !.held = @ \cap {"request", "route"}])
  /\ OnlyRequest

-----------------------------------------------------------------------------
(* handle_inner: authentication. *)

\* Bearer verification, and the lease on the session and the route's policy.
JwtGate ==
  /\ RequestAt("jwt")
  /\ IF "jwt" \notin route THEN AdvanceTo([rq EXCEPT !.pc = "basic"])
     ELSE \/ AdvanceTo([rq EXCEPT !.pc = "basic", !.passed = @ \cup {"jwt"},
               !.established = @ \cup {"identity"},
               !.fields = [@ EXCEPT !["identity"] = "established"],
               !.lease = Watching(@, "jwt", rq.snap["jwt"])])
          \/ \E reply \in {"401", "403", "503"} : AdvanceTo(Answered(rq, reply))
  /\ OnlyRequest

BasicGate ==
  /\ RequestAt("basic")
  /\ IF "basic" \notin route THEN AdvanceTo([rq EXCEPT !.pc = "guarding"])
     ELSE \/ AdvanceTo([rq EXCEPT !.pc = "guarding", !.passed = @ \cup {"basic"},
               !.established = @ \cup {"identity"},
               !.fields = [@ EXCEPT !["identity"] = "established",
                                    !["authorization"] = "absent"]])
          \/ AdvanceTo(Answered(rq, "401"))
  /\ OnlyRequest

\* The client's body is bound to the lease before anything buffers it.
GuardBody ==
  /\ RequestAt("guarding")
  /\ AdvanceTo([rq EXCEPT !.pc = "authorizing", !.guarded = rq.lease # <<>>])
  /\ OnlyRequest

\* authorize: the service is asked with headers the gateway generated; a native
\* route accepts only the identity class it is bound to, and a machine identity
\* only with an expiry and a scope.
AuthVerify ==
  /\ RequestAt("authorizing") /\ "auth" \in route /\ RequestCurrent
  /\ \/ AdvanceTo([rq EXCEPT !.pc = "verified"])
     \/ AdvanceTo(Answered(rq, "503"))
  /\ OnlyRequest

\* authorize: allowed, denied, or the service's own response to be passed on.
AuthConclude ==
  /\ RequestAt("verified") /\ RequestCurrent
  /\ \/ AdvanceTo([rq EXCEPT !.pc = "binding"])
     \/ \E reply \in {"401", "403", "503", "forwarded"} : AdvanceTo(Answered(rq, reply))
  /\ OnlyRequest

\* A machine identity expires with its evidence, needs an enforced permission
\* gate for its scope, and its credential is consumed here.
BindMachine ==
  /\ RequestAt("binding")
  /\ \/ AdvanceTo([rq EXCEPT !.pc = "deciding", !.passed = @ \cup {"auth"},
          !.lease = IF "expiring" \in route
                    THEN Watching(@, "expiry", inForce["expiry"]) ELSE @,
          !.guarded = @ \/ "expiring" \in route,
          !.consumed = "service" \in route,
          !.fields = IF "service" \in route
                     THEN [@ EXCEPT !["authorization"] = "absent"] ELSE @])
     \/ "service" \in route /\ "pumgye" \notin route /\ AdvanceTo(Answered(rq, "403"))
  /\ OnlyRequest

\* The resource permission: decided locally, by a remote authority whose lease
\* the request then watches, or not at all.
ResourceDecision ==
  /\ RequestAt("deciding")
  /\ IF "pumgye" \notin route THEN AdvanceTo([rq EXCEPT !.pc = "installing"])
     ELSE \/ AdvanceTo([rq EXCEPT !.pc = "installing", !.allowed = TRUE,
               !.lease = IF "remote" \in route
                         THEN Watching(@, "remote", inForce["remote"]) ELSE @])
          \/ AdvanceTo([rq EXCEPT !.pc = "installing", !.allowed = FALSE])
          \/ "remote" \in route /\ AdvanceTo(Answered(rq, "503"))
  /\ OnlyRequest

\* The identity the service named replaces whatever the request carries.
InstallIdentity ==
  /\ RequestAt("installing")
  /\ AdvanceTo([rq EXCEPT !.pc = "permission",
               !.established = @ \cup {"identity", "fwdIdentity"},
               !.fields = [@ EXCEPT !["identity"] = "established",
                                    !["fwdIdentity"] = "established"]])
  /\ OnlyRequest

NoExternalAuth ==
  /\ RequestAt("authorizing") /\ "auth" \notin route
  /\ AdvanceTo([rq EXCEPT !.pc = "permission"])
  /\ OnlyRequest

\* The permission, then a healthy member.
SelectMember ==
  /\ RequestAt("permission")
  /\ IF ~rq.allowed THEN AdvanceTo(Answered(rq, "403"))
     ELSE \/ \E m \in HttpMembers :
               AdvanceTo([rq EXCEPT !.pc = IF "lua" \in route THEN "policy" ELSE "ready",
                                  !.member = m])
          \/ AdvanceTo(Answered(rq, "503"))
  /\ OnlyRequest

-----------------------------------------------------------------------------
(* handle_inner: policy, transforms and the second inspection. *)

\* The policy's decision: keep, pin a member of the captured route, rewrite
\* fields it may rewrite, or refuse.
PolicyDecision ==
  /\ RequestAt("policy") /\ RequestCurrent
  /\ \/ \E pin \in HttpMembers \cup {NoMember}, changed \in SUBSET PolicyMayChange :
          AdvanceTo([rq EXCEPT !.pc = "ready",
            !.member = IF pin = NoMember THEN @ ELSE pin, !.pinned = pin,
            !.form = @ + 1,
            !.fields = [f \in Fields |-> IF f \in changed THEN "policy" ELSE @[f]]])
     \/ \E reply \in {"rejected", "503"} : AdvanceTo(Answered(rq, reply))
  /\ OnlyRequest

\* The last lease check before bodies are touched; cache-only requests end here.
Preconditions ==
  /\ RequestAt("ready") /\ RequestCurrent
  /\ LET transforms == {"transform", "responseTransform"} \cap route # {}
     IN  IF "onlyIfCached" \in traits THEN AdvanceTo(Answered(rq, "504"))
         ELSE \/ /\ transforms => "websocket" \notin traits
                 /\ AdvanceTo([rq EXCEPT !.pc = "transforming",
                      !.held = IF transforms THEN @ \cup {"transform"} ELSE @])
              \/ transforms /\ \E reply \in {"400", "412", "416", "503"} :
                                 AdvanceTo(Answered(rq, reply))
  /\ OnlyRequest

\* The request transform rewrites headers and the body; identity wins.
TransformRequest ==
  /\ RequestAt("transforming") /\ RequestCurrent
  /\ IF "transform" \notin route THEN AdvanceTo([rq EXCEPT !.pc = "reinspecting"])
     ELSE \/ AdvanceTo([rq EXCEPT !.pc = "reinspecting", !.form = @ + 1, !.guarded = FALSE,
               !.fields = Reassert([@ EXCEPT !["plain"] = "transform",
                                             !["identity"] = "transform"], rq.established)])
          \/ AdvanceTo(Answered(rq, "422"))
  /\ OnlyRequest

\* A request that policy or transform rewrote is inspected again.
Reinspect ==
  /\ RequestAt("reinspecting")
  /\ IF "blocks" \in route /\ route \cap {"lua", "transform"} # {}
     THEN \/ AdvanceTo([rq EXCEPT !.pc = "leasing", !.inspected = rq.form])
          \/ AdvanceTo(Answered(rq, "blocked"))
     ELSE AdvanceTo([rq EXCEPT !.pc = "leasing"])
  /\ OnlyRequest

\* The selected member must be available and admit the request.
LeaseBackend ==
  /\ RequestAt("leasing")
  /\ \/ AdvanceTo([rq EXCEPT !.pc = "rewriting", !.held = @ \cup {"backend"}])
     \/ AdvanceTo(Answered(rq, "503"))
  /\ OnlyRequest

\* The final header passes, in the handler's order.
RewriteHeaders ==
  /\ RequestAt("rewriting")
  /\ LET forwarded == SetForwarding(StripForwarding(rq.fields))
         asserted  == Reassert(forwarded, rq.established)
     IN  AdvanceTo([rq EXCEPT !.pc = "attempting",
           !.fields = IF rq.consumed THEN [asserted EXCEPT !["authorization"] = "absent"]
                                     ELSE asserted])
  /\ OnlyRequest

-----------------------------------------------------------------------------
(* handle_inner: the attempts. *)

\* Only a bodyless request that nothing rewrote or pinned may be replayed.
Retryable ==
  /\ traits \cap {"websocket", "body"} = {}
  /\ rq.pinned = NoMember /\ "transform" \notin route

MaxAttempts == IF Retryable THEN 1 + Retries ELSE 1

\* A native route prepares, observes and seals the request for this attempt.
PrepareAttempt ==
  /\ RequestAt("attempting") /\ RequestCurrent
  /\ \/ AdvanceTo([rq EXCEPT !.pc = "dispatching", !.attempts = @ + 1,
          !.passed = IF "native" \in route THEN @ \cup {"native"} ELSE @,
          !.fields = IF "native" \in route THEN [@ EXCEPT !["authorization"] = "native"]
                                           ELSE @,
          !.guarded = @ \/ ("transform" \in route /\ rq.lease # <<>>)])
     \/ "native" \in route /\ \E reply \in {"413", "403", "503"} : AdvanceTo(Answered(rq, reply))
  /\ OnlyRequest

\* DispatchObservation::remaining_dispatch: an observed native route carries its
\* gate to the writes, a strict one leaves on the ordinary client without it.
CarriesGate == "native" \in route /\ "strict" \notin route

SnapshotActive == inForce["any"] = rq.snap["any"]

\* The fences, the Docker endpoint and the native observation, once more; an
\* observed dispatch may have expired or find no transport of its own.
FenceDispatch ==
  /\ RequestAt("dispatching")
  /\ IF PartsInForce(rq.fences) /\ ("native" \in route => SnapshotActive)
     THEN \/ AdvanceTo([rq EXCEPT !.pc = "sending"])
          \/ ("docker" \in route \/ CarriesGate) /\ AdvanceTo(Answered(rq, "503"))
     ELSE AdvanceTo(Answered(rq, "503"))
  /\ OnlyRequest

\* The send starts in the same poll as a check of the lease.
StartSend ==
  /\ RequestAt("sending")
  /\ IF RequestCurrent THEN AdvanceTo([rq EXCEPT !.pc = "connecting"])
                     ELSE AdvanceTo(Answered(rq, "retired"))
  /\ OnlyRequest

\* What one transmission to an origin looked like.
Transmission ==
  [member |-> rq.member, attempt |-> rq.attempts, fields |-> rq.fields,
   passed |-> rq.passed, inspected |-> rq.inspected = rq.form,
   current |-> SnapshotActive]

\* The connection is made and the request written; with a gate, only while the
\* gate holds.
Transmit ==
  /\ RequestAt("connecting")
  /\ CarriesGate => SnapshotActive
  /\ AdvanceTo([rq EXCEPT !.pc = "awaiting", !.sends = @ \cup {Transmission}])
  /\ OnlyRequest

\* No connection: another attempt, to a freshly selected member, or the answer;
\* a connection still being made at the header timeout is never retried.
ConnectFailed ==
  /\ RequestAt("connecting")
  /\ \/ /\ Retryable /\ rq.attempts < MaxAttempts /\ RequestCurrent
        /\ \E m \in HttpMembers : AdvanceTo([rq EXCEPT !.pc = "attempting", !.member = m])
     \/ \E reply \in {"502", "504"} :
          AdvanceTo(Answered(rq, IF RequestCurrent THEN reply ELSE "retired"))
  /\ OnlyRequest

\* The connection broke or the origin stayed silent after it was written to.
ExchangeFailed ==
  /\ RequestAt("awaiting")
  /\ \E reply \in {"502", "504"} :
       AdvanceTo(Answered(rq, IF RequestCurrent THEN reply ELSE "retired"))
  /\ OnlyRequest

\* auth_retired wins the race with the exchange.
RetiredInFlight ==
  /\ rq.pc \in {"connecting", "awaiting"} /\ ~RequestCurrent
  /\ AdvanceTo(Answered(rq, "retired"))
  /\ OnlyRequest

\* The response head arrives under a lease that still holds.
ResponseHead ==
  /\ RequestAt("awaiting") /\ RequestCurrent
  /\ \/ AdvanceTo([rq EXCEPT !.pc = IF "websocket" \in traits THEN "upgrading"
                                                            ELSE "shaping"])
     \/ AdvanceTo(Answered(rq, "502"))
  /\ OnlyRequest

-----------------------------------------------------------------------------
(* The tunnel. *)

\* The token is taken before the tracker is asked whether it is closed.
RegisterTunnel ==
  /\ RequestAt("upgrading") /\ RequestCurrent
  /\ rq' = [rq EXCEPT !.pc = "registered"] /\ tunnel' = "token"
  /\ UNCHANGED <<inForce, moves, route, traits, tunnelsClosed, stop>>

\* Draining: the token is dropped with the answer; otherwise the task keeps it.
SpawnTunnel ==
  /\ RequestAt("registered")
  /\ IF tunnelsClosed
     THEN rq' = Answered(rq, "draining") /\ tunnel' = "ended"
     ELSE rq' = [rq EXCEPT !.pc = "shaping"] /\ tunnel' = "spawned"
  /\ UNCHANGED <<inForce, moves, route, traits, tunnelsClosed, stop>>

\* Cancellation, a retired lease, idleness or either peer ends the tunnel.
TunnelEnds ==
  /\ tunnel = "spawned"
  /\ tunnel' = "ended"
  /\ UNCHANGED <<inForce, moves, route, traits, rq, tunnelsClosed, stop>>

\* shutdown closes the tracker, waits for the tokens, then cancels.
CloseTunnels ==
  /\ stop = "no" /\ stop' = "closing" /\ tunnelsClosed' = TRUE
  /\ UNCHANGED <<inForce, moves, route, traits, rq, tunnel>>

ShutdownWaited ==
  /\ stop \in {"closing", "cancelled"} /\ tunnel \notin {"token", "spawned"}
  /\ stop' = "drained"
  /\ UNCHANGED <<inForce, moves, route, traits, rq, tunnel, tunnelsClosed>>

ShutdownCancels ==
  /\ stop = "closing" /\ stop' = "cancelled"
  /\ UNCHANGED <<inForce, moves, route, traits, rq, tunnel, tunnelsClosed>>

-----------------------------------------------------------------------------
(* The response. *)

\* Conditional and whole-body response transforms.
ShapeResponse ==
  /\ RequestAt("shaping")
  /\ \/ AdvanceTo([rq EXCEPT !.pc = "attaching"])
     \/ /\ "responseTransform" \in route
        /\ AdvanceTo(Answered(rq, IF RequestCurrent THEN "502" ELSE "retired"))
  /\ OnlyRequest

\* The member's lease, the route's permit and the lease's guard go with the
\* response; the transform's budget and the inspection permit end with their bodies.
AttachLeases ==
  /\ RequestAt("attaching")
  /\ AdvanceTo([rq EXCEPT !.pc = "answered", !.answer = "origin",
                        !.held = @ \cap {"request", "route", "backend"},
                        !.guarded = rq.lease # <<>>])
  /\ OnlyRequest

\* Mutant: only a response of the origin is observed, an early answer is not.
FinaliseUnobserved ==
  /\ RequestAt("answered")
  /\ AdvanceTo([rq EXCEPT !.pc = "streaming", !.secured = 1,
                 !.observation = IF @ = "captured" /\ rq.answer = "origin" THEN "recorded" ELSE @])
  /\ OnlyRequest

\* Back in handle_unfinalized: the response policies are applied, the outcome is
\* observed, and a shared store that fails replaces the response.
Finalise ==
  /\ RequestAt("answered")
  /\ \/ AdvanceTo([rq EXCEPT !.pc = "streaming", !.secured = 1,
                  !.observation = IF @ = "captured" THEN "recorded" ELSE @])
     \/ /\ rq.observation = "captured"
        /\ AdvanceTo([rq EXCEPT !.pc = "streaming", !.secured = 1, !.observation = "recorded",
                     !.answer = "503", !.held = @ \cap {"request"}, !.guarded = FALSE])
  /\ OnlyRequest

\* handle applies them to what handle_unfinalized returned early.
FinaliseRefusal ==
  /\ RequestAt("refused")
  /\ AdvanceTo([rq EXCEPT !.pc = "streaming", !.secured = @ + 1])
  /\ OnlyRequest

\* The last frame is delivered, or the guard ends the body with the lease, or
\* the client goes away: the permits are released with the body.
BodyEnds ==
  /\ RequestAt("streaming")
  /\ AdvanceTo([rq EXCEPT !.pc = "done", !.held = {}])
  /\ OnlyRequest

\* One more frame: a guarded body delivers none after its lease ended.
DeliverFrame ==
  /\ RequestAt("streaming") /\ rq.answer \in {"origin", "streamed"}
  /\ rq.guarded => RequestCurrent
  /\ AdvanceTo([rq EXCEPT !.answer = "streamed"])
  /\ OnlyRequest

-----------------------------------------------------------------------------
(* What moves underneath the request. *)

PublishParts(changed) ==
  /\ moves < MaxMoves /\ moves' = moves + 1
  /\ inForce' = [p \in Parts |-> IF p \in changed \cup {"any"} THEN inForce[p] + 1 ELSE inForce[p]]
  /\ UNCHANGED <<route, traits, rq, tunnel, tunnelsClosed, stop>>

\* A session is withdrawn, the remote authority moves, machine evidence expires.
AuthorityMoves(part) ==
  /\ moves < MaxMoves /\ moves' = moves + 1
  /\ inForce' = [inForce EXCEPT ![part] = @ + 1]
  /\ UNCHANGED <<route, traits, rq, tunnel, tunnelsClosed, stop>>

Retirable == {"authorizing", "verified", "policy", "ready", "transforming", "attempting", "upgrading"}

PipelineNext ==
  \/ Handle \/ Screen \/ HealthProbe \/ AdmitRequest \/ Normalise \/ ResolveEdge
  \/ ObserveFailures \/ PathPolicies \/ CheckRates \/ InspectRequest \/ FenceAdmission
  \/ MatchRoute \/ WorkloadGate \/ AdmitRoute \/ CacheLookup
  \/ JwtGate \/ BasicGate \/ GuardBody
  \/ AuthVerify \/ AuthConclude \/ BindMachine \/ ResourceDecision \/ InstallIdentity
  \/ NoExternalAuth \/ SelectMember
  \/ PolicyDecision \/ Preconditions \/ TransformRequest \/ Reinspect
  \/ LeaseBackend \/ RewriteHeaders
  \/ PrepareAttempt \/ FenceDispatch \/ StartSend \/ Transmit \/ ConnectFailed
  \/ ExchangeFailed \/ RetiredInFlight \/ ResponseHead
  \/ RegisterTunnel \/ SpawnTunnel \/ TunnelEnds
  \/ CloseTunnels \/ ShutdownWaited \/ ShutdownCancels
  \/ ShapeResponse \/ AttachLeases \/ Finalise \/ FinaliseRefusal \/ BodyEnds \/ DeliverFrame
  \/ \E stage \in Retirable : Retire(stage)
  \/ \E changed \in SUBSET Published : PublishParts(changed)
  \/ \E part \in {"jwt", "remote", "expiry"} : AuthorityMoves(part)

PipelineSpec == PipelineInit /\ [][PipelineNext]_pipeVars

-----------------------------------------------------------------------------
(* Properties. *)

Required == route \cap {"jwt", "basic", "auth", "workload", "native"}

\* What reaches an origin: only a request every configured authenticator let
\* pass, in the form the request blocks accepted, carrying the identity that
\* was established here and nobody else's, without a credential the gateway
\* consumed, to the member a policy pinned, under the snapshot it was observed
\* under where a gate guards the write, and at most once.
DispatchSound ==
  /\ \A sent \in rq.sends :
       /\ Required \subseteq sent.passed
       /\ "blocks" \in route => sent.inspected
       /\ sent.fields["identity"] \in {"absent", "established"}
       /\ \A f \in rq.established : sent.fields[f] = "established"
       /\ sent.fields["fwdIdentity"] \in {"absent", "established"}
       /\ sent.fields["forwarded"] = "gateway"
       /\ rq.consumed => sent.fields["authorization"] # "client"
       /\ rq.pinned # NoMember => sent.member = rq.pinned
       /\ CarriesGate => sent.current
  /\ Cardinality(rq.sends) <= 1

\* What a response holds and is: it is finalised exactly once before it is
\* delivered, an observation taken is recorded, the permit of the request is
\* held while the body streams, and nothing outlives the body.
ResponseSound ==
  /\ rq.pc \in {"streaming", "done"} => rq.secured = 1 /\ rq.observation # "captured"
  /\ rq.pc = "streaming" /\ rq.answer \in {"origin", "streamed"} =>
       {"request", "route", "backend"} \subseteq rq.held
  /\ rq.pc = "done" => rq.held = {}
  /\ rq.answer = "streamed" /\ rq.lease # <<>> => rq.guarded

\* No tunnel outlives a shutdown that waited for the tunnels.
TunnelsDrained == stop = "drained" => tunnel # "spawned"

\* A request on its way through the gateway (proxy.rs: handle to the end of the
\* body or tunnel) is sound in all three respects at every moment.
PipelineSound == DispatchSound /\ ResponseSound /\ TunnelsDrained
=============================================================================
