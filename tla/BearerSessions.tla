---------------------------- MODULE BearerSessions ----------------------------
(***************************************************************************)
(* Bearer tokens on a route with local keys (jwt_auth.rs, jwt_runtime.rs,  *)
(* the JWT part of proxy.rs).  A token is verified on a blocking thread    *)
(* while the route may be published again, the client may go away and the  *)
(* wall clock may be set; the session that results is checked again before *)
(* every frame the request carries.  RemoteKeys models a remote key set.   *)
(*                                                                         *)
(* A signature is the key material that made it; issuer, subject, client   *)
(* and format of a token are right or wrong as a whole (wellFormed).       *)
(***************************************************************************)
EXTENDS Naturals, FiniteSets, Sequences, SequencesExt

CONSTANTS
    Bearers,          \* requests
    RouteDocuments,   \* documents of the route: [jwks, algorithms, leeway, lifetime,
                      \*   revokedIds, cutoff, scopes, other]
    BearerTokens,     \* [kid, alg, signer, wellFormed, iat, exp, nbf, jti, scopes]
    VerificationSlots,
    MaxPublished, MaxMono, MaxWall

ASSUME BearerConstants ==
    /\ {VerificationSlots, MaxPublished, MaxMono, MaxWall} \subseteq Nat
    /\ \A doc \in RouteDocuments : doc.leeway \in Nat
    /\ \A token \in BearerTokens : token.exp \in Nat

VARIABLES
    jwtRoute,     \* the published route: document, its Arc, its runtime's Arc and keys
    publications, \* documents published
    wall, mono,   \* SystemTime, Instant
    bearer,       \* each request
    jobs,         \* blocking verifications: [owner, token, runtime, key, allowed]
    frames        \* ghost: what each request's latest frame was carried under

bearerVars == <<jwtRoute, publications, wall, mono, bearer, jobs, frames>>

-----------------------------------------------------------------------------
(* PreparedKeys::parse_jwks_json *)
Compatible(jwk, alg) ==
    CASE jwk.kty = "RSA" -> alg \in {"RS256", "PS256"}
      [] jwk.kty = "EC" -> alg = "ES256"
      [] OTHER -> FALSE

(* infer_unambiguous_algorithm *)
Inferred(jwk, allowed) ==
    LET fits == {alg \in allowed : Compatible(jwk, alg)}
    IN  IF Cardinality(fits) = 1 THEN CHOOSE alg \in fits : TRUE ELSE "none"
AlgorithmOf(jwk, allowed) ==
    IF jwk.use # "sig" THEN "none"
    ELSE IF jwk.alg = "none" THEN Inferred(jwk, allowed)
    ELSE IF jwk.alg \in allowed THEN jwk.alg ELSE "none"
(* prepare_jwk, and validate_ignored_jwk for the keys it does not use *)
JwkValid(jwk, allowed) ==
    /\ jwk.material # "malformed"
    /\ AlgorithmOf(jwk, allowed) # "none" => Compatible(jwk, AlgorithmOf(jwk, allowed))
JwksValid(jwks, allowed) ==
    /\ \A i, j \in DOMAIN jwks : jwks[i].kid = jwks[j].kid => i = j
    /\ \A i \in DOMAIN jwks : JwkValid(jwks[i], allowed)
    /\ \E i \in DOMAIN jwks : AlgorithmOf(jwks[i], allowed) # "none"
PreparedKeys(jwks, allowed) ==
    {[kid |-> jwks[i].kid, alg |-> AlgorithmOf(jwks[i], allowed), material |-> jwks[i].material] :
        i \in {k \in DOMAIN jwks : AlgorithmOf(jwks[k], allowed) # "none"}}
KeyFor(keys, token) == {key \in keys : key.kid = token.kid /\ key.alg = token.alg}

(* JwtConfig::validate, JwtAuth::validate *)
DocumentValid(doc) ==
    /\ doc.algorithms # {} /\ doc.lifetime >= 1
    /\ JwksValid(doc.jwks, doc.algorithms)

(* Verified::valid_at *)
ValidAt(token, now, leeway) ==
    /\ token.exp + leeway > now
    /\ token.iat <= now + leeway
    /\ token.nbf <= now + leeway

(* JwtVerifier::validate_claims *)
ClaimsValid(token, doc, now) ==
    /\ token.wellFormed
    /\ token.exp > token.iat /\ token.exp - token.iat <= doc.lifetime
    /\ token.jti \notin doc.revokedIds /\ token.iat >= doc.cutoff
    /\ token.nbf <= token.exp
    /\ ValidAt(token, now, doc.leeway)
(* JwtVerifier::verify *)
VerifyToken(token, key, doc, now) ==
    /\ token.alg \in doc.algorithms
    /\ token.signer = key.material
    /\ ClaimsValid(token, doc, now)

-----------------------------------------------------------------------------
NoBearer == [at |-> "idle"]
(* 401, 403 or 503 *)
DeniedBearer == NoBearer
NoFrame == [admittedMono |-> 0]
JwtPart(doc) == [doc EXCEPT !.other = 0]
NewRoute(doc, arc, runtime) ==
    [document |-> doc, arc |-> arc, runtime |-> runtime,
     keys |-> PreparedKeys(doc.jwks, doc.algorithms)]

BearerInit ==
    /\ \E doc \in {d \in RouteDocuments : DocumentValid(d)} : jwtRoute = NewRoute(doc, 1, 1)
    /\ publications = 1
    /\ wall = 1 /\ mono = 0
    /\ bearer = [q \in Bearers |-> NoBearer]
    /\ jobs = {}
    /\ frames = [q \in Bearers |-> NoFrame]

(* Snapshot::build keeps the Arc of an unchanged route and the runtime of  *)
(* unchanged JWT rules.                                                    *)
ReusedArc(doc) == IF doc = jwtRoute.document THEN jwtRoute.arc ELSE publications + 1
PublishRoute(doc) ==
    /\ publications < MaxPublished /\ DocumentValid(doc)
    /\ publications' = publications + 1
    /\ jwtRoute' = NewRoute(doc, ReusedArc(doc),
                         IF JwtPart(doc) = JwtPart(jwtRoute.document) THEN jwtRoute.runtime
                         ELSE publications + 1)
    /\ UNCHANGED <<wall, mono, bearer, jobs, frames>>

(* Time passes for both clocks; the wall clock alone may be set back *)
PassTime ==
    /\ mono < MaxMono /\ wall < MaxWall
    /\ mono' = mono + 1 /\ wall' = wall + 1
    /\ UNCHANGED <<jwtRoute, publications, bearer, jobs, frames>>
SetWallBack ==
    /\ wall > 1 /\ wall' = wall - 1
    /\ UNCHANGED <<jwtRoute, publications, mono, bearer, jobs, frames>>

-----------------------------------------------------------------------------
(* authenticate_inner up to the blocking task: the request's own snapshot  *)
(* is used from here on.  An unknown key, a foreign algorithm (401) or no  *)
(* slot (503) refuses.                                                     *)
PresentToken(q, token) ==
    /\ bearer[q].at = "idle"
    /\ token.alg \in jwtRoute.document.algorithms
    /\ KeyFor(jwtRoute.keys, token) # {}
    /\ Cardinality(jobs) < VerificationSlots
    /\ LET key == CHOOSE k \in KeyFor(jwtRoute.keys, token) : TRUE
           job == [owner |-> q, token |-> token, runtime |-> jwtRoute.runtime, key |-> key,
                   document |-> jwtRoute.document]
       IN  /\ job \notin jobs
           /\ jobs' = jobs \union {job}
           /\ bearer' = [bearer EXCEPT ![q] = [at |-> "verifying", token |-> token, key |-> key,
                                               captured |-> jwtRoute, held |-> job]]
    /\ UNCHANGED <<jwtRoute, publications, wall, mono, frames>>

(* The blocking task reads the clock, verifies and frees its slot, whether *)
(* or not its request still waits for it.                                  *)
RunVerification(job) ==
    /\ job \in jobs
    /\ jobs' = jobs \ {job}
    /\ bearer' = [q \in Bearers |->
           IF bearer[q].at = "verifying" /\ bearer[q].held = job
           THEN IF VerifyToken(job.token, job.key, job.document, wall)
                THEN [at |-> "verified", token |-> job.token, key |-> job.key,
                      captured |-> bearer[q].captured]
                ELSE DeniedBearer
           ELSE bearer[q]]
    /\ UNCHANGED <<jwtRoute, publications, wall, mono, frames>>

(* The JwtRouteLease the rest of the request is carried under *)
RouteLease(b, deadline) ==
    [at |-> "leased", token |-> b.token, key |-> b.key, captured |-> b.captured,
     deadline |-> deadline, admittedMono |-> mono, admittedWall |-> wall]

(* After the task: time and permissions again, and the session's deadline  *)
(* on the monotonic clock.                                                 *)
AdmitBearer(q) ==
    /\ bearer[q].at = "verified"
    /\ LET b == bearer[q]
           doc == b.captured.document
       IN  /\ bearer' = [bearer EXCEPT ![q] =
                 IF ValidAt(b.token, wall, doc.leeway) /\ doc.scopes \subseteq b.token.scopes
                 THEN RouteLease(b, mono + (b.token.exp + doc.leeway - wall))
                 ELSE DeniedBearer]
    /\ UNCHANGED <<jwtRoute, publications, wall, mono, jobs, frames>>

\* Mutant: the session ends by the wall clock alone.
SessionCurrentByWall(b) ==
    ValidAt(b.token, wall, b.captured.document.leeway) /\ b.key \in b.captured.keys
(* Runtime::session_current, of the runtime the request captured *)
SessionCurrent(b) ==
    /\ mono < b.deadline
    /\ ValidAt(b.token, wall, b.captured.document.leeway)
    /\ b.key \in b.captured.keys
(* JwtRouteLease::current: the active snapshot still has this very route *)
LeaseValid(b) == jwtRoute.arc = b.captured.arc /\ SessionCurrent(b)

(* retired_auth_response before a step of the request, AuthResponseBody    *)
(* before every frame: a frame passes only while the lease is current      *)
CarryFrame(q) ==
    /\ bearer[q].at = "leased" /\ LeaseValid(bearer[q])
    /\ frames' = [frames EXCEPT ![q] =
           [admittedMono |-> bearer[q].admittedMono, admittedWall |-> bearer[q].admittedWall,
            carried |-> mono, token |-> bearer[q].token, published |-> bearer[q].captured,
            under |-> jwtRoute]]
    /\ UNCHANGED <<jwtRoute, publications, wall, mono, bearer, jobs>>
TerminateSession(q) ==
    /\ bearer[q].at = "leased" /\ ~LeaseValid(bearer[q])
    /\ bearer' = [bearer EXCEPT ![q] = NoBearer]
    /\ frames' = [frames EXCEPT ![q] = NoFrame]
    /\ UNCHANGED <<jwtRoute, publications, wall, mono, jobs>>

(* The response ends, or the client goes away at any point; a verification *)
(* that runs keeps its slot.                                               *)
LeaveBearer(q) ==
    /\ bearer[q].at # "idle"
    /\ bearer' = [bearer EXCEPT ![q] = NoBearer]
    /\ frames' = [frames EXCEPT ![q] = NoFrame]
    /\ UNCHANGED <<jwtRoute, publications, wall, mono, jobs>>

BearerNext ==
    \/ \E doc \in RouteDocuments : PublishRoute(doc)
    \/ PassTime \/ SetWallBack
    \/ \E q \in Bearers :
          \/ \E token \in BearerTokens : PresentToken(q, token)
          \/ AdmitBearer(q) \/ CarryFrame(q) \/ TerminateSession(q) \/ LeaveBearer(q)
    \/ \E job \in jobs : RunVerification(job)

BearerSpec == BearerInit /\ [][BearerNext]_bearerVars

-----------------------------------------------------------------------------
(* A frame is carried for a token only under the very rules it was         *)
(* admitted by: a route that was changed and changed back does not revive  *)
(* it, so a key, a scope or a revocation of today's document holds for it. *)
(* Its lifetime is bounded by the time that really passed since it was     *)
(* admitted, however the wall clock was set, and it was signed by a key of *)
(* the document for the algorithm it names.  Verifications that nobody     *)
(* waits for still count against the slots.                                *)
(* (authenticate_inner, session_current, JwtRouteLease::current,           *)
(* AuthResponseBody::poll_frame)                                           *)
SessionsBounded ==
    /\ Cardinality(jobs) <= VerificationSlots
    /\ \A q \in Bearers : frames[q] # NoFrame =>
          LET f == frames[q]
              doc == f.under.document
          IN  /\ f.carried - f.admittedMono < f.token.exp + doc.leeway - f.admittedWall
              /\ f.under = f.published
              /\ f.token.jti \notin doc.revokedIds /\ f.token.iat >= doc.cutoff
              /\ doc.scopes \subseteq f.token.scopes
              /\ \E i \in DOMAIN doc.jwks :
                    /\ doc.jwks[i].material = f.token.signer /\ doc.jwks[i].kid = f.token.kid
                    /\ doc.jwks[i].use = "sig" /\ Compatible(doc.jwks[i], f.token.alg)
=============================================================================
