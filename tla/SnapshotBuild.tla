----------------------------- MODULE SnapshotBuild -----------------------------
(***************************************************************************)
(* Snapshot::build, validate_transition_from, retirements_from and         *)
(* activated (config.rs): what a new configuration takes over from the     *)
(* running one.  Balancers, gates, token verifiers, TLS slots, clients and *)
(* counters are shared with the previous snapshot where the code finds     *)
(* their configuration unchanged, and made anew elsewhere; a prepared      *)
(* snapshot may be dropped, and retires its predecessor only on activation.*)
(*                                                                         *)
(* An object is the slot it was first made for and the number of that      *)
(* build.  A configuration section is compared as a whole and is a number; *)
(* 0 is an absent section.                                                 *)
(***************************************************************************)
EXTENDS Naturals, Sequences, SequencesExt, FiniteSets, Functions

CONSTANTS
    BuildDocuments, \* [geo, redis, certs, authority, cache, limits, bans, http, tcp, workloads, publics]
    MaxBuilds,
    MaxFiles     \* contents of the CA file and values of the environment variable

ASSUME BuildConstants == {MaxBuilds, MaxFiles} \subseteq Nat \ {0}

VARIABLES
    serving,       \* the published snapshot: its build and its objects
    candidate,     \* the latest build, prepared: [objects, retire, unavailable], or NoCandidate
    activating,    \* whether `activated` has run for the candidate
    builds,        \* per build: [doc, ca, variable]
    caFile,        \* contents of the custom CA file
    variable,      \* value of the environment variable; 0 is unusable
    retiredObjects,\* gates and native bindings that were retired
    generations,   \* per cache runtime, its invalidation generation
    unavailable,   \* routes the published snapshot answers with 503
    gone,          \* ghost: objects published once and dropped since
    before         \* ghost: the build published before the active one

buildVars == <<serving, candidate, activating, builds, caFile, variable, retiredObjects, generations,
               unavailable, gone, before>>

NoCandidate == <<>>
Prepared == candidate # NoCandidate

-----------------------------------------------------------------------------
(* resolve_static_request_headers: the environment variable is usable *)
HeadersResolve == variable # 0

(* The slots of a document *)
Whole(kind) == <<kind, "-", "-">>
Part(kind, id) == <<kind, id, "-">>

EnabledIds(routes) == {id \in DOMAIN routes : routes[id].enabled}
Singles(doc) ==
    {Whole(kind) : kind \in {k \in {"geo", "redis", "certs", "authority"} : doc[k] # 0}}
        \union (IF doc.cache.on THEN {Whole("cache")} ELSE {})
HttpSlots(doc, id) ==
    LET r == doc.http[id]
        kinds == {"balancer", "admission"}
            \union (IF r.jwt # 0 THEN {"jwt"} ELSE {})
            \union (IF r.enabled /\ r.jwt # 0 THEN {"lease"} ELSE {})
            \union (IF r.enabled /\ r.workload # 0 THEN {"workload"} ELSE {})
            \union (IF r.enabled /\ r.auth # 0 /\ HeadersResolve THEN {"client"} ELSE {})
            \union (IF r.auth # 0 THEN {"binding"} ELSE {})
    IN  {Part(kind, id) : kind \in kinds}
            \union {<<"httpGate", id, m>> : m \in DOMAIN r.backends.members}
TcpSlots(doc, id) ==
    LET r == doc.tcp[id]
        kinds == {"admission"} \union (IF r.health # 0 THEN {"tcpHealth"} ELSE {})
                    \union (IF r.enabled /\ r.tls # 0 THEN {"tcpTls"} ELSE {})
        perMember == {"tcpGate"} \union (IF r.health # 0 THEN {"tcpNode"} ELSE {})
                        \union (IF r.backends.named THEN {"activity"} ELSE {})
    IN  {Part(kind, id) : kind \in kinds} \union (perMember \X {id} \X DOMAIN r.backends.members)
ListenerSlots(doc) ==
    {Part("httpTls", id) : id \in EnabledIds(doc.workloads)}
        \union {Part("listener", id) : id \in EnabledIds(doc.publics)}
        \union {Part("publicTls", id) : id \in {l \in EnabledIds(doc.publics) : doc.publics[l].certs # 0}}
(* One bucket per rule of path_rate_limits and path_failure_bans *)
RuleSlots(doc) ==
    {Part("limits", i) : i \in DOMAIN doc.limits} \union {Part("bans", i) : i \in DOMAIN doc.bans}
Slots(doc) ==
    Singles(doc) \union ListenerSlots(doc) \union RuleSlots(doc)
        \union UNION {HttpSlots(doc, id) : id \in DOMAIN doc.http}
        \union UNION {TcpSlots(doc, id) : id \in DOMAIN doc.tcp}

(* prepare_upstream_tls_with_trust: the CA an enabled route trusts *)
Trust(r, ca) == IF r.enabled /\ r.upstream = "customCa" THEN ca ELSE 0

-----------------------------------------------------------------------------
(* What is taken over from the previous snapshot *)
Old == builds[serving.built].doc
OldCa == builds[serving.built].ca
HeldObjects(slot) == IF slot \in DOMAIN serving.objects THEN {serving.objects[slot]} ELSE {}

(* prepare_http_balancer: transport_matches *)
\* Mutant: a changed CA file is not a changed transport.
SameTransportByConfig(old, new) == old.enabled = new.enabled /\ old.upstream = new.upstream
SameTransport(old, new) ==
    /\ old.enabled = new.enabled /\ old.upstream = new.upstream
    /\ Trust(old, OldCa) = Trust(new, caFile)

(* stable_backend_mapping, for one member *)
StableMember(old, new, m) ==
    m \in DOMAIN old.backends.members /\ old.backends.members[m] = new.backends.members[m]

(* Balancer::with_member_states reuses a node; so does the whole balancer. *)
HttpGateKept(old, new, m) ==
    /\ SameTransport(old, new)
    /\ \/ old.backends = new.backends /\ old.balance = new.balance
       \/ /\ old.backends.named /\ new.backends.named
          /\ old.balance.health = new.balance.health
          /\ StableMember(old, new, m)
(* tcp_member_admissions *)
TcpGateKept(old, new, m) ==
    /\ SameTransport(old, new) /\ old.health = new.health
    /\ IF old.backends.named /\ new.backends.named THEN StableMember(old, new, m)
       ELSE old.backends = new.backends

(* TcpHealth::with_reused_nodes keeps a node where the whole is made anew. *)
TcpNodeKept(old, new, m) ==
    /\ SameTransport(old, new) /\ old.health = new.health
    /\ \/ old.backends = new.backends
       \/ old.backends.named /\ new.backends.named /\ StableMember(old, new, m)

HttpReused(slot, doc) ==
    LET id == slot[2]
        new == doc.http[id]
        jwtOwners == {r \in DOMAIN Old.http : Old.http[r].jwt = new.jwt}
        Kept(condition) == IF id \in DOMAIN Old.http /\ condition THEN HeldObjects(slot) ELSE {}
    IN  CASE slot[1] = "jwt" -> UNION {HeldObjects(Part("jwt", r)) : r \in jwtOwners}
          [] slot[1] \in {"lease", "workload"} -> Kept(Old.http[id] = new)
          [] slot[1] = "client" ->
                Kept(Old.http[id].auth = new.auth /\ builds[serving.built].variable = variable)
          [] slot[1] = "binding" -> {}
          [] slot[1] = "balancer" ->
                Kept(/\ SameTransport(Old.http[id], new) /\ Old.http[id].backends = new.backends
                     /\ Old.http[id].balance = new.balance)
          [] slot[1] = "httpGate" -> Kept(HttpGateKept(Old.http[id], new, slot[3]))
TcpReused(slot, doc) ==
    LET id == slot[2]
        new == doc.tcp[id]
        Kept(condition) == IF id \in DOMAIN Old.tcp /\ condition THEN HeldObjects(slot) ELSE {}
    IN  CASE slot[1] = "tcpGate" -> Kept(TcpGateKept(Old.tcp[id], new, slot[3]))
          [] slot[1] = "tcpNode" -> Kept(TcpNodeKept(Old.tcp[id], new, slot[3]))
          [] slot[1] = "activity" -> HeldObjects(slot)
          [] slot[1] = "tcpHealth" ->
                Kept(/\ SameTransport(Old.tcp[id], new) /\ Old.tcp[id].backends = new.backends
                     /\ Old.tcp[id].health = new.health)
          [] slot[1] = "tcpTls" ->
                Kept(/\ Old.tcp[id].enabled /\ Old.tcp[id].listen = new.listen
                     /\ Old.tcp[id].tls = new.tls)
ListenerReused(slot, doc) ==
    LET id == slot[2]
        SameTls(old, new) == old.enabled /\ old.listen = new.listen
    IN  CASE slot[1] = "httpTls" ->
                IF /\ id \in DOMAIN Old.workloads /\ SameTls(Old.workloads[id], doc.workloads[id])
                   /\ Old.workloads[id].tls = doc.workloads[id].tls THEN HeldObjects(slot) ELSE {}
          [] slot[1] = "listener" ->
                IF id \in DOMAIN Old.publics /\ Old.publics[id] = doc.publics[id]
                   THEN HeldObjects(slot) ELSE {}
          [] slot[1] = "publicTls" ->
                IF /\ id \in DOMAIN Old.publics /\ SameTls(Old.publics[id], doc.publics[id])
                   /\ Old.publics[id].certs = doc.publics[id].certs THEN HeldObjects(slot) ELSE {}
(* runtime_compatible: all but the invalidation generation *)
SingleReused(slot, doc) ==
    IF slot[1] = "cache" THEN IF Old.cache.policy = doc.cache.policy THEN HeldObjects(slot) ELSE {}
    ELSE IF Old[slot[1]] = doc[slot[1]] THEN HeldObjects(slot) ELSE {}

(* prepare, of either list: the first bucket of an equal rule, wherever it stood *)
RuleReused(slot, doc) ==
    LET old == Old[slot[1]]
        equal == {i \in DOMAIN old : old[i] = doc[slot[1]][slot[2]]}
        first == CHOOSE i \in equal : \A j \in equal : i <= j
    IN  IF equal = {} THEN {} ELSE HeldObjects(Part(slot[1], first))

Reused(slot, doc) ==
    CASE slot[1] \in {"limits", "bans"} -> RuleReused(slot, doc)
      [] slot[2] = "-" -> SingleReused(slot, doc)
      [] slot[1] = "admission" -> HeldObjects(slot)
      [] slot[1] \in {"httpTls", "listener", "publicTls"} -> ListenerReused(slot, doc)
      [] slot[1] \in {"tcpGate", "tcpNode", "activity", "tcpHealth", "tcpTls"} -> TcpReused(slot, doc)
      [] OTHER -> HttpReused(slot, doc)

(* Token policies, and new TCP TLS policies, are prepared once for all routes. *)
MadeFor(slot, doc) ==
    CASE slot[1] = "jwt" ->
            Part("jwt", CHOOSE r \in DOMAIN doc.http : doc.http[r].jwt = doc.http[slot[2]].jwt)
      [] slot[1] = "tcpTls" ->
            Part("tcpTls", CHOOSE r \in EnabledIds(doc.tcp) : doc.tcp[r].tls = doc.tcp[slot[2]].tls)
      [] OTHER -> slot
Made(slot, doc) == [slot |-> MadeFor(slot, doc), built |-> Len(builds) + 1]

(* build with a previous snapshot *)
ReplaceObjects(doc) ==
    [slot \in Slots(doc) |->
        LET kept == Reused(slot, doc)
        IN  IF kept # {} THEN CHOOSE o \in kept : TRUE ELSE Made(slot, doc)]
(* replace_fresh_with: nothing but an unchanged GeoIP database *)
FreshObjects(doc) ==
    [slot \in Slots(doc) |->
        IF slot = Whole("geo") /\ Old.geo = doc.geo THEN serving.objects[slot] ELSE Made(slot, doc)]

(* AuthorityRuntime::prepare reads credentials and TLS files.  Where it fails a
   strict build fails; a passive one goes without the authority. *)
AuthorityPrepared(doc, fresh) ==
    doc.authority # 0 /\ (fresh \/ Reused(Whole("authority"), doc) = {})
Without(objects, slot) == Restrict(objects, DOMAIN objects \ {slot})

-----------------------------------------------------------------------------
(* validate_transition_from *)
ResourceKept(old, doc) ==
    old.resource.enforce =>
        \E id \in DOMAIN doc.http : /\ doc.http[id].resource.id = old.resource.id
                                    /\ doc.http[id].resource.scope = old.resource.scope
TcpListening(doc, address) == {id \in EnabledIds(doc.tcp) : doc.tcp[id].listen = address}
WorkloadListening(doc, address) == {id \in EnabledIds(doc.workloads) : doc.workloads[id].listen = address}

ValidateTransition(old, doc) ==
    /\ \A id \in DOMAIN old.http : ResourceKept(old.http[id], doc)
    /\ \A id \in EnabledIds(old.tcp) : old.tcp[id].tls # 0 =>
          \A n \in TcpListening(doc, old.tcp[id].listen) : doc.tcp[n].tls # 0
    /\ \A id \in EnabledIds(old.workloads) : TcpListening(doc, old.workloads[id].listen) = {}
    /\ \A id \in EnabledIds(old.tcp) : WorkloadListening(doc, old.tcp[id].listen) = {}
    /\ \A id \in DOMAIN doc.http :
          (id \in DOMAIN old.http /\ old.http[id].access = "protected") =>
              doc.http[id].access # "legacy"

(* Enabled routes whose static authorization headers do not resolve *)
Unresolved(doc) == IF HeadersResolve THEN {} ELSE {id \in EnabledIds(doc.http) : doc.http[id].auth # 0}

Retirable(object) == object.slot[1] \in {"httpGate", "tcpGate", "binding"}
(* retirements_from and native_predecessors *)
Retirements(objects) == {o \in Range(serving.objects) : Retirable(o) /\ o \notin Range(objects)}

(* A gate made for a member that is not to serve is born retired. *)
BornRetired(doc, objects) ==
    {objects[slot] : slot \in {s \in DOMAIN objects :
        \/ s[1] = "httpGate" /\ ~doc.http[s[2]].backends.members[s[3]].serving
        \/ s[1] = "tcpGate" /\ ~doc.tcp[s[2]].backends.members[s[3]].serving}}

(* replace, replace_follower, replace_fresh, replace_fresh_follower *)
PrepareCandidate(doc, fresh, policy, authority) ==
    LET all == IF fresh THEN FreshObjects(doc) ELSE ReplaceObjects(doc)
        objects == IF authority THEN all ELSE Without(all, Whole("authority"))
    IN  /\ ~Prepared /\ Len(builds) < MaxBuilds
        /\ ValidateTransition(Old, doc)
        /\ policy = "strict" => Unresolved(doc) = {} /\ authority
        /\ ~authority => AuthorityPrepared(doc, fresh)
        /\ candidate' = [objects |-> objects, retire |-> Retirements(objects),
                         unavailable |-> Unresolved(doc)]
        /\ builds' = Append(builds, [doc |-> doc, ca |-> caFile, variable |-> variable])
        /\ retiredObjects' = retiredObjects \union BornRetired(doc, objects)
        /\ UNCHANGED <<serving, activating, caFile, variable, generations, unavailable, gone, before>>

(* A candidate that was not committed is dropped. *)
DropCandidate ==
    /\ Prepared /\ ~activating
    /\ candidate' = NoCandidate
    /\ UNCHANGED <<serving, activating, builds, caFile, variable, retiredObjects, generations, unavailable,
                   gone, before>>

(* CacheRuntime::adopt_generation never lowers a generation. *)
Adopted(doc, objects) ==
    IF ~doc.cache.on THEN generations
    ELSE LET o == objects[Whole("cache")]
             wanted == doc.cache.generation
         IN  [x \in DOMAIN generations \union {o} |->
                 IF x # o THEN generations[x]
                 ELSE IF o \in DOMAIN generations /\ generations[o] > wanted THEN generations[o]
                 ELSE wanted]

(* activated, immediately before the snapshot becomes visible *)
ActivateCandidate ==
    /\ Prepared /\ ~activating
    /\ activating' = TRUE
    /\ retiredObjects' = retiredObjects \union candidate.retire
    /\ generations' = Adopted(Last(builds).doc, candidate.objects)
    /\ UNCHANGED <<serving, candidate, builds, caFile, variable, unavailable, gone, before>>

ShowCandidate ==
    /\ activating
    /\ serving' = [objects |-> candidate.objects, built |-> Len(builds)]
    /\ unavailable' = candidate.unavailable
    /\ gone' = (gone \union Range(serving.objects)) \ Range(candidate.objects)
    /\ before' = serving.built
    /\ candidate' = NoCandidate /\ activating' = FALSE
    /\ UNCHANGED <<builds, caFile, variable, retiredObjects, generations>>

(* The CA file and the environment of the node change under it; only a later
   build reads them. *)
ChangeFile ==
    /\ ~Prepared /\ Len(builds) < MaxBuilds
    /\ \/ caFile' \in (1..MaxFiles) \ {caFile} /\ UNCHANGED variable
       \/ variable' \in (0..MaxFiles) \ {variable} /\ UNCHANGED caFile
    /\ UNCHANGED <<serving, candidate, activating, builds, retiredObjects, generations, unavailable, gone,
                   before>>

(* Snapshot::new and the activation at startup *)
BuildInit ==
    /\ caFile = 1 /\ variable = 1
    /\ builds \in {<<[doc |-> doc, ca |-> 1, variable |-> 1]>> : doc \in BuildDocuments}
    /\ serving = LET doc == builds[1].doc
                IN  [built |-> 1,
                     objects |-> [slot \in Slots(doc) |->
                                     [slot |-> MadeFor(slot, doc), built |-> 1]]]
    /\ candidate = NoCandidate /\ activating = FALSE
    /\ retiredObjects = BornRetired(Old, serving.objects)
    /\ generations = IF Old.cache.on
                     THEN [o \in {serving.objects[Whole("cache")]} |-> Old.cache.generation]
                     ELSE <<>>
    /\ unavailable = {} /\ gone = {} /\ before = 1

BuildNext ==
    \/ \E doc \in BuildDocuments, fresh, authority \in BOOLEAN, policy \in {"strict", "failClosed"} :
          PrepareCandidate(doc, fresh, policy, authority)
    \/ DropCandidate \/ ActivateCandidate \/ ShowCandidate \/ ChangeFile

-----------------------------------------------------------------------------
(* The part of a configuration an object of a slot acts on *)
Section(slot, build) ==
    LET doc == build.doc
        Pool(r) == <<r.enabled, r.upstream, Trust(r, build.ca), r.backends>>
        Gate(r) == <<r.enabled, r.upstream, Trust(r, build.ca), r.backends.members[slot[3]]>>
    IN  CASE slot[1] = "cache" -> <<doc.cache.policy>>
          [] slot[1] \in {"limits", "bans"} -> <<doc[slot[1]][slot[2]]>>
          [] slot[2] = "-" -> <<doc[slot[1]]>>
          [] slot[1] = "jwt" -> <<doc.http[slot[2]].jwt>>
          [] slot[1] \in {"lease", "workload", "binding"} -> <<doc.http[slot[2]]>>
          [] slot[1] = "client" -> <<doc.http[slot[2]].auth, build.variable>>
          [] slot[1] = "balancer" -> Pool(doc.http[slot[2]]) \o <<doc.http[slot[2]].balance>>
          [] slot[1] = "httpGate" -> Gate(doc.http[slot[2]]) \o <<doc.http[slot[2]].balance.health>>
          [] slot[1] = "tcpHealth" -> Pool(doc.tcp[slot[2]]) \o <<doc.tcp[slot[2]].health>>
          [] slot[1] \in {"tcpGate", "tcpNode"} -> Gate(doc.tcp[slot[2]]) \o <<doc.tcp[slot[2]].health>>
          [] slot[1] = "tcpTls" -> <<doc.tcp[slot[2]].tls>>
          [] slot[1] = "httpTls" -> <<doc.workloads[slot[2]].listen, doc.workloads[slot[2]].tls>>
          [] slot[1] = "listener" -> <<doc.publics[slot[2]]>>
          [] slot[1] = "publicTls" -> <<doc.publics[slot[2]].listen, doc.publics[slot[2]].certs>>
          [] OTHER -> <<slot[2], slot[3]>>

(* Whatever was taken over, through however many publications, was made for
   exactly the configuration, CA file and variable now in force. *)
ObjectsInForce ==
    \A slot \in DOMAIN serving.objects :
        LET o == serving.objects[slot]
        IN  Section(o.slot, builds[o.built]) = Section(slot, builds[serving.built])

(* A gate of the running snapshot is closed exactly when its member is not to
   serve, what a publication replaced is retired for good and never returns, a
   dropped candidate has retired nothing, and an adopted cache generation is not
   lost. *)
RetirementExact ==
    /\ ~activating =>
          \A slot \in DOMAIN serving.objects : Retirable(serving.objects[slot]) =>
              (serving.objects[slot] \in retiredObjects) = (serving.objects[slot] \in BornRetired(Old, serving.objects))
    /\ {o \in gone : Retirable(o)} \subseteq retiredObjects
    /\ gone \intersect Range(serving.objects) = {}
    /\ Old.cache.on => generations[serving.objects[Whole("cache")]] >= Old.cache.generation

(* No single publication leaves a socket that demanded client certificates open
   without them or in another role, or drops an enforced resource; and a route
   is only served without its authorization header where it answers 503. *)
TransitionsGuarded ==
    LET was == builds[before].doc
        addresses == {was.tcp[id].listen : id \in DOMAIN was.tcp}
                        \union {was.workloads[id].listen : id \in DOMAIN was.workloads}
        Role(doc, a) ==
            (IF WorkloadListening(doc, a) = {} THEN {} ELSE {"workload"})
              \union {IF doc.tcp[id].tls = 0 THEN "open" ELSE "certified" : id \in TcpListening(doc, a)}
    IN  /\ \A a \in addresses :
              /\ "certified" \in Role(was, a) => "open" \notin Role(Old, a)
              /\ Cardinality({IF role = "workload" THEN "http" ELSE "tcp" :
                    role \in Role(was, a) \union Role(Old, a)}) <= 1
        /\ \A id \in DOMAIN was.http : was.http[id].resource.enforce =>
              \E n \in DOMAIN Old.http :
                  Old.http[n].resource.scope = was.http[id].resource.scope
        /\ \A id \in EnabledIds(Old.http) : Old.http[id].auth # 0 =>
              (id \in unavailable) = (builds[serving.built].variable = 0)

(* A publication takes over exactly what it may. *)
SnapshotsSound == ObjectsInForce /\ RetirementExact /\ TransitionsGuarded
=============================================================================
