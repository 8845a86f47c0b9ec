---------------------------- MODULE NativeDispatch ----------------------------
(***************************************************************************)
(* Native authorization of one proxied request.  The final request bytes   *)
(* are sealed (projection_entity), the route's owner is captured in a      *)
(* bounded registry (native_route_owner), the identity authority (Hopae)   *)
(* issues an authentication receipt, the permission authority (Pumgye)     *)
(* asks the gateway back whether the route is still owned and issues a     *)
(* permit, the identity authority projects an upstream credential, and a   *)
(* last fence decides whether the request may leave.                       *)
(*                                                                         *)
(* A route is bound in one of three modes: "observed" (every proof ages on *)
(* the receiver's clock and a gate guards each write), "projected" (strict *)
(* receipts with a permit and a credential) and "decided" (a receipt and a *)
(* decision only).  The authorities are external and may revoke the        *)
(* identity, or withdraw or restore the permission, at any moment.         *)
(* Signatures, digests and scopes are taken to match: every check of one   *)
(* is a step that refuses the call.                                        *)
(***************************************************************************)
EXTENDS Naturals, FiniteSets

CONSTANTS
    Calls,            \* requests on natively authorized routes
    Modes,            \* of {"observed", "projected", "decided"}
    AuthLife,         \* ticks an authentication lasts
    PermitLife,       \* ticks a permit or a credential lasts
    BodySlots,        \* native_bodies, the shared admission of sealed entities
    RouteSlots,       \* capacity of the route registry
    MaxSnapshot, MaxPolicy, MaxNativeClock

ASSUME NativeConstants ==
    /\ Modes \subseteq {"observed", "projected", "decided"}
    /\ {AuthLife, PermitLife, BodySlots, RouteSlots, MaxSnapshot, MaxPolicy,
        MaxNativeClock} \subseteq Nat

VARIABLES
    nativeClock,
    nativeGeneration, \* generation of the active Snapshot
    owners,      \* generation -> native_observed::Owner: active, client, retiring
    identity,    \* external: tick the identity was revoked, or Never
    grantsOf,    \* external: revision -> permission granted?
    withdrawn,   \* external: tick each revision was published
    floors,      \* pumgye_grpc_client::Client.revision
    calls        \* the requests

nativeVars == <<nativeClock, nativeGeneration, owners, identity, grantsOf, withdrawn, floors, calls>>

-----------------------------------------------------------------------------
Never == MaxNativeClock + AuthLife + PermitLife + 1
Latest == Cardinality(DOMAIN grantsOf)
NoPermit == [pol |-> 0, until |-> 0]
NewCall == [at |-> "new"]
Lesser(a, b) == IF a <= b THEN a ELSE b
Greater(a, b) == IF a >= b THEN a ELSE b

In(n, stages) == calls[n].at \in stages
Outstanding(n) == ~In(n, {"new", "left", "refused"})

(* A sealed entity keeps its admission from preparation until its body is  *)
(* consumed; the captured route is dropped with the request.               *)
BodiesHeld == Cardinality({n \in Calls : Outstanding(n)})
Captured == {n \in Calls : Outstanding(n) /\ calls[n].captured}

NewOwner == [active |-> TRUE, client |-> "none", retiring |-> FALSE]

NativeInit ==
    /\ nativeClock = 0
    /\ nativeGeneration = 1
    /\ owners = [g \in 1 .. MaxSnapshot |-> NewOwner]
    /\ identity = Never
    /\ grantsOf \in [{1} -> BOOLEAN]
    /\ withdrawn = [r \in {1} |-> 0]
    /\ floors = 1
    /\ calls = [n \in Calls |-> NewCall]

NativeTick ==
    /\ nativeClock < MaxNativeClock
    /\ nativeClock' = nativeClock + 1
    /\ UNCHANGED <<nativeGeneration, owners, identity, grantsOf, withdrawn, floors, calls>>

(* External authorities *)
RevokeIdentity ==
    /\ identity = Never
    /\ identity' = nativeClock
    /\ UNCHANGED <<nativeClock, nativeGeneration, owners, grantsOf, withdrawn, floors, calls>>
ChangePolicy ==
    /\ Latest < MaxPolicy
    /\ grantsOf' = [r \in 1 .. Latest + 1 |-> IF r <= Latest THEN grantsOf[r] ELSE ~grantsOf[Latest]]
    /\ withdrawn' = [r \in 1 .. Latest + 1 |-> IF r <= Latest THEN withdrawn[r] ELSE nativeClock]
    /\ UNCHANGED <<nativeClock, nativeGeneration, owners, identity, floors, calls>>

(* A configuration is activated: the new snapshot is swapped in, and then  *)
(* its predecessors' owners are retired (Snapshot::activated): first the   *)
(* flag, then the client there is.                                         *)
ActivateSnapshot ==
    /\ nativeGeneration < MaxSnapshot
    /\ nativeGeneration' = nativeGeneration + 1
    /\ UNCHANGED <<nativeClock, owners, identity, grantsOf, withdrawn, floors, calls>>
RetireFlag(g) ==
    /\ g < nativeGeneration /\ owners[g].active
    /\ owners' = [owners EXCEPT ![g].active = FALSE, ![g].retiring = TRUE]
    /\ UNCHANGED <<nativeClock, nativeGeneration, identity, grantsOf, withdrawn, floors, calls>>
RetireClient(g) ==
    /\ owners[g].retiring
    /\ owners' = [owners EXCEPT ![g].retiring = FALSE,
                      ![g].client = IF @ = "none" THEN "none" ELSE "retired"]
    /\ UNCHANGED <<nativeClock, nativeGeneration, identity, grantsOf, withdrawn, floors, calls>>

-----------------------------------------------------------------------------
(* The request's stages.  Advance is one successful step of a call. *)
Advance(n, call) ==
    /\ calls' = [calls EXCEPT ![n] = call]
    /\ UNCHANGED <<nativeClock, nativeGeneration, owners, identity, grantsOf, withdrawn>>
To(n, stage) == [calls[n] EXCEPT !.at = stage]
Refused == [at |-> "refused"]
Left(n) == [at |-> "left", mode |-> calls[n].mode, pol |-> calls[n].permit.pol,
            wrote |-> nativeClock, known |-> floors]

(* prepare_selected: the whole entity is read under the shared admission *)
PrepareEntity(n, mode) ==
    /\ In(n, {"new"})
    /\ BodiesHeld < BodySlots
    /\ Advance(n, [at |-> "prepared", mode |-> mode, gen |-> nativeGeneration, captured |-> FALSE,
                   auth |-> 0, permit |-> NoPermit, cred |-> 0, floor |-> 0,
                   reply |-> NoPermit])
    /\ UNCHANGED floors

(* Registry::capture: only the exact active snapshot, within the capacity *)
CaptureRoute(n) ==
    /\ In(n, {"prepared"})
    /\ calls[n].gen = nativeGeneration
    /\ Cardinality(Captured) < RouteSlots
    /\ Advance(n, [To(n, IF calls[n].mode = "observed" THEN "captured" ELSE "receipting")
                   EXCEPT !.captured = TRUE])
    /\ UNCHANGED floors

(* Registry::check, asked by the request itself and by the permission      *)
(* authority (Registry::observe): the entry's snapshot is the active one   *)
RouteCurrent(n) == calls[n].captured /\ calls[n].gen = nativeGeneration

(* Owner::client: the flag is read, a client is built and published unless *)
(* one is there, and the flag is read again.                               *)
CheckOwner(n) ==
    /\ In(n, {"captured"})
    /\ owners[calls[n].gen].active
    /\ Advance(n, To(n, IF owners[calls[n].gen].client # "none" THEN "issuing" ELSE "building"))
    /\ UNCHANGED floors
PublishClient(n) ==
    LET g == calls[n].gen
    IN  /\ In(n, {"building"})
        /\ owners' = [owners EXCEPT ![g].client = IF @ = "none" THEN "live" ELSE @]
        /\ calls' = [calls EXCEPT ![n].at = "rechecking"]
        /\ UNCHANGED <<nativeClock, nativeGeneration, identity, grantsOf, withdrawn, floors>>

RecheckOwner(n) ==
    LET g == calls[n].gen
    IN  /\ In(n, {"rechecking"})
        /\ owners' = IF owners[g].active THEN owners
                     ELSE [owners EXCEPT ![g].client = "retired"]
        /\ calls' = [calls EXCEPT ![n] = IF owners[g].active THEN To(n, "issuing") ELSE Refused]
        /\ UNCHANGED <<nativeClock, nativeGeneration, identity, grantsOf, withdrawn, floors>>

(* The identity authority authenticates the caller.  Its retired client    *)
(* issues nothing, and Owner::issue reads the flag once more; the strict   *)
(* receipt has no owner to ask.                                            *)
AuthenticationOf(n) == [To(n, "authenticated") EXCEPT !.auth = nativeClock + AuthLife]

IssueObserved(n) ==
    LET g == calls[n].gen
    IN  /\ In(n, {"issuing"})
        /\ identity = Never
        /\ owners[g].client = "live" /\ owners[g].active
        /\ Advance(n, AuthenticationOf(n))
        /\ UNCHANGED floors
IssueReceipt(n) ==
    /\ In(n, {"receipting"})
    /\ identity = Never
    /\ Advance(n, AuthenticationOf(n))
    /\ UNCHANGED floors

StillAuthenticated(n) == nativeClock < calls[n].auth

(* issue_observed_permit and authenticated: the request names the greatest *)
(* revision known; the authority asks the route owner and answers.         *)
AskPermit(n) ==
    /\ In(n, {"authenticated"})
    /\ StillAuthenticated(n)
    /\ Advance(n, [To(n, "asking") EXCEPT !.floor = floors])
    /\ UNCHANGED floors
AuthorityAnswers(n) ==
    /\ In(n, {"asking"})
    /\ RouteCurrent(n)
    /\ Latest >= calls[n].floor
    /\ Advance(n, [To(n, "answered") EXCEPT !.reply =
                      [pol |-> Latest, until |-> nativeClock + PermitLife]])
    /\ UNCHANGED floors

(* The reply's revision is held against the floor of this moment, which    *)
(* another request may have raised, and raises it.  A denial is final; a   *)
(* permit counts until it or the authentication ends.                      *)
PermitEnds(call) == IF call.mode = "decided" THEN call.auth ELSE Lesser(call.reply.until, call.auth)

TakePermit(n) ==
    LET call == calls[n]
    IN  /\ In(n, {"answered"})
        /\ StillAuthenticated(n)
        /\ call.reply.pol >= floors
        /\ floors' = Greater(floors, call.reply.pol)
        /\ Advance(n, IF ~grantsOf[call.reply.pol] THEN Refused
                      ELSE [To(n, IF call.mode = "observed" THEN "permitted" ELSE "validating")
                            EXCEPT !.reply = NoPermit, !.permit =
                               [pol |-> call.reply.pol, until |-> PermitEnds(call)]])

(* AuthenticatedReply: the revision is still the greatest the client knows *)
ObservationCurrent(n) == calls[n].permit.pol = floors

(* Authentication::refresh, by the issuer's own check of the identity *)
Refresh(n) ==
    /\ In(n, {"permitted"})
    /\ identity = Never
    /\ owners[calls[n].gen].client = "live"
    /\ Advance(n, [To(n, "projecting") EXCEPT !.auth = nativeClock + AuthLife])
    /\ UNCHANGED floors

(* validate_service_receipt: the issuer is asked again, and then the local *)
(* fences are read.                                                        *)
ValidateReceipt(n) ==
    /\ In(n, {"validating"})
    /\ identity = Never
    /\ StillAuthenticated(n) /\ ObservationCurrent(n)
    /\ Advance(n, To(n, IF calls[n].mode = "decided" THEN "installed" ELSE "projecting"))
    /\ UNCHANGED floors

Proven(n) ==
    /\ StillAuthenticated(n)
    /\ nativeClock < calls[n].permit.until

(* project_observed and project_credential: the upstream credential *)
Projected(n) == [To(n, "projected") EXCEPT !.cred = nativeClock + PermitLife]

ProjectObserved(n) ==
    /\ In(n, {"projecting"}) /\ calls[n].mode = "observed"
    /\ Proven(n)
    /\ owners[calls[n].gen].active
    /\ Advance(n, Projected(n))
    /\ UNCHANGED floors
ProjectCredential(n) ==
    /\ In(n, {"projecting"}) /\ calls[n].mode = "projected"
    /\ Proven(n)
    /\ Advance(n, Projected(n))
    /\ UNCHANGED floors

(* Dispatch::current and Observation::local_fences_hold *)
FencesHold(n) ==
    /\ Proven(n)
    /\ calls[n].mode # "decided" => nativeClock < calls[n].cred
    /\ calls[n].mode = "observed" => owners[calls[n].gen].client # "retired"
    /\ ObservationCurrent(n)

(* Owner::dispatch's last test, and the credential's header is installed *)
InstallCredential(n) ==
    /\ In(n, {"projected"})
    /\ nativeClock < calls[n].cred
    /\ calls[n].mode = "observed" => FencesHold(n) /\ owners[calls[n].gen].active
    /\ Advance(n, To(n, "installed"))
    /\ UNCHANGED floors

(* The fence before the exchange; a strict request leaves with it *)
FenceNative(n) ==
    /\ In(n, {"installed"})
    /\ RouteCurrent(n) /\ FencesHold(n)
    /\ Advance(n, IF calls[n].mode = "observed" THEN To(n, "gated")
                  ELSE Left(n))
    /\ UNCHANGED floors

(* The dispatch gate, asked by the transport before each write *)
WriteGated(n) ==
    /\ In(n, {"gated"})
    /\ RouteCurrent(n) /\ FencesHold(n)
    /\ Advance(n, Left(n))
    /\ UNCHANGED floors

(* Every other outcome of every stage: a signature, a scope or a digest    *)
(* that does not match, a deadline, no capacity, a closed gate or a caller *)
(* that went away.  Only the recheck of a published client has no failure. *)
RefuseAt(n, stages) ==
    /\ In(n, stages)
    /\ Advance(n, Refused)
    /\ UNCHANGED floors

EntityRefused(n) == RefuseAt(n, {"prepared"})
OwnerRefused(n) == RefuseAt(n, {"captured", "building", "issuing"})
ReceiptRefused(n) == RefuseAt(n, {"receipting", "authenticated"})
PermitRefused(n) == RefuseAt(n, {"asking", "answered"}) /\ calls[n].mode = "observed"
DecisionRefused(n) == RefuseAt(n, {"asking", "answered"}) /\ calls[n].mode # "observed"
RefreshRefused(n) == RefuseAt(n, {"permitted"})
ValidationRefused(n) == RefuseAt(n, {"validating"})
OutputRefused(n) == RefuseAt(n, {"projecting"})
DispatchRefused(n) == RefuseAt(n, {"projected", "installed", "gated"})

(* authorize and the watch's probe teach the client a revision as well *)
LearnRevision ==
    /\ floors < Latest
    /\ floors' = Latest
    /\ UNCHANGED <<nativeClock, nativeGeneration, owners, identity, grantsOf, withdrawn, calls>>

NativeNext ==
    \/ NativeTick \/ RevokeIdentity \/ ChangePolicy \/ ActivateSnapshot \/ LearnRevision
    \/ \E g \in 1 .. MaxSnapshot : RetireFlag(g) \/ RetireClient(g)
    \/ \E n \in Calls :
          \/ \E mode \in Modes : PrepareEntity(n, mode)
          \/ CaptureRoute(n) \/ CheckOwner(n) \/ PublishClient(n) \/ RecheckOwner(n)
          \/ IssueObserved(n) \/ IssueReceipt(n) \/ AskPermit(n) \/ AuthorityAnswers(n)
          \/ TakePermit(n) \/ Refresh(n) \/ ValidateReceipt(n)
          \/ ProjectObserved(n) \/ ProjectCredential(n) \/ InstallCredential(n)
          \/ FenceNative(n) \/ WriteGated(n)
          \/ EntityRefused(n) \/ OwnerRefused(n) \/ ReceiptRefused(n)
          \/ PermitRefused(n) \/ DecisionRefused(n)
          \/ RefreshRefused(n) \/ ValidationRefused(n) \/ OutputRefused(n) \/ DispatchRefused(n)

-----------------------------------------------------------------------------
(* What leaves the gateway was authorized by everyone it needed.  A        *)
(* request that left did so under the revision of the policy the gateway   *)
(* knew to be greatest, which grants the permission; within the life of an *)
(* authentication after the identity was revoked, and within the life of a *)
(* permit after the permission was withdrawn, none is left to leave; and   *)
(* once a retired owner has settled, the client it published, by whichever *)
(* racing request, is retired.  (Owner::client, Owner::dispatch,           *)
(* issue_observed_permit, observe_after_preliminary, local_fences_hold)    *)
DispatchSound ==
    /\ \A n \in Calls : In(n, {"left"}) => LET call == calls[n] IN
          /\ call.pol = call.known /\ grantsOf[call.known]
          /\ identity <= call.wrote => call.wrote < identity + AuthLife
          /\ (call.pol + 1 \in DOMAIN grantsOf /\ call.mode # "decided"
                 /\ withdrawn[call.pol + 1] <= call.wrote) =>
                call.wrote < withdrawn[call.pol + 1] + PermitLife
    /\ \A g \in 1 .. MaxSnapshot :
          (/\ ~owners[g].active /\ ~owners[g].retiring
           /\ \A n \in Calls : In(n, {"building", "rechecking"}) => calls[n].gen # g)
              => owners[g].client # "live"
    /\ Cardinality(Captured) <= RouteSlots /\ BodiesHeld <= BodySlots
=============================================================================
