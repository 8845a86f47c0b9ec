--------------------------- MODULE MCRequestPath ----------------------------
(***************************************************************************)
(* Small instances of the components a request passes on its way through   *)
(* the gateway. They share no state with one another: `subject` names the  *)
(* component whose behaviours an initial state leads to, so that one run   *)
(* explores each of them by itself; the variables of the others are off,   *)
(* with values on which their properties say nothing, or keep their initial*)
(* values.                                                                 *)
(***************************************************************************)
EXTENDS ResponseCache, ClientLimits, RemoteKeys, PolicyPool, HttpPipeline, RequestInspection,
        BodyRecords, BearerSessions, TLC

VARIABLE subject

requestVars == <<cacheVars, banVars, sharedVars, rateVars, keyVars, poolVars, pipeVars,
                 inspectVars, parserVars, recordVars, bearerVars, subject>>

\* The state of a component that is not the subject.
Off == 0
CacheOff ==
  /\ origin = Off /\ token = Off /\ tierGen = Off /\ memory = Off /\ disk = Off /\ diskMeta = Off
  /\ diskOpen = Off /\ request = [r \in Requests |-> [at |-> "idle"]] /\ purger = Off
  /\ adopting = Off /\ floor = Off /\ crashes = Off
BansOff ==
  /\ banNow = Off /\ table = Off /\ observer = Off /\ era = Off /\ evidence = Off
SharedOff ==
  /\ sharedNow = Off /\ rows = Off /\ peer = Off /\ sharedEra = Off /\ counted = Off
RatesOff ==
  /\ rateNow = Off /\ shared = Off /\ paced = Off /\ windowed = Off /\ caller = Off
  /\ admitted = Off /\ idleSince = Off
KeysOff ==
  /\ keyNow = Off /\ issuer = Off /\ withdrawn = Off /\ keys = Off /\ fetching = FALSE
  /\ ask = [a \in Askers |-> [at |-> "idle"]] /\ lastFetch = Off /\ sessions = {} /\ monitor = Off
PoolOff ==
  /\ slot = Off /\ process = [p \in Processes |-> [state |-> "none"]]
  /\ task = [t \in Tasks |-> [at |-> "idle"]] /\ nextSlot = Off /\ closed = Off /\ stopping = 0
PipelineOff ==
  /\ inForce = Off /\ moves = Off /\ route = Off /\ traits = Off
  /\ rq = [pc |-> "arrived", sends |-> {}, answer |-> "none"] /\ tunnel = Off
  /\ tunnelsClosed = Off /\ stop = "no"
InspectOff ==
  /\ blocks = Off /\ inspections = Off /\ permitsOf = Off /\ spoolLeases = Off
  /\ inspectorsFree = Off /\ slotsFree = Off /\ spoolUsed = Off
ParserOff ==
  /\ parser = Off /\ bytewise = Off /\ recent = Off /\ lines = Off /\ ended = Off
RecordsOff ==
  /\ transformer = Off /\ stage = Off /\ history = Off /\ chunk = Off /\ eof = Off /\ skipLf = Off
  /\ partial = Off /\ eventLines = Off /\ delivered = Off
BearerOff ==
  /\ jwtRoute = Off /\ publications = Off /\ wall = Off /\ mono = Off /\ bearer = Off /\ jobs = {}
  /\ frames = [q \in Bearers |-> NoFrame]

RequestInit ==
  /\ subject \in {"cache", "bans", "shared", "rates", "keys", "pool", "http", "inspection",
                  "multipart", "records", "bearers"}
  /\ IF subject = "cache" THEN CacheInit ELSE CacheOff
  /\ IF subject = "bans" THEN BansInit ELSE BansOff
  /\ IF subject = "shared" THEN SharedInit ELSE SharedOff
  /\ IF subject = "rates" THEN RatesInit ELSE RatesOff
  /\ IF subject = "keys" THEN KeysInit ELSE KeysOff
  /\ IF subject = "pool" THEN PoolInit ELSE PoolOff
  /\ IF subject = "http" THEN PipelineInit ELSE PipelineOff
  /\ IF subject = "inspection" THEN InspectInit ELSE InspectOff
  /\ IF subject = "multipart" THEN ParserInit ELSE ParserOff
  /\ IF subject = "records" THEN RecordsInit ELSE RecordsOff
  /\ IF subject = "bearers" THEN BearerInit ELSE BearerOff

RequestNext ==
  /\ UNCHANGED subject
  /\ \/ /\ subject = "cache"
        /\ UNCHANGED <<banVars, sharedVars, rateVars, keyVars, poolVars, pipeVars, inspectVars,
                        parserVars, recordVars, bearerVars>>
        /\ CacheNext
     \/ /\ subject = "bans"
        /\ UNCHANGED <<cacheVars, sharedVars, rateVars, keyVars, poolVars, pipeVars, inspectVars,
                        parserVars, recordVars, bearerVars>>
        /\ BansNext
     \/ /\ subject = "shared"
        /\ UNCHANGED <<cacheVars, banVars, rateVars, keyVars, poolVars, pipeVars, inspectVars,
                        parserVars, recordVars, bearerVars>>
        /\ SharedNext
     \/ /\ subject = "rates"
        /\ UNCHANGED <<cacheVars, banVars, sharedVars, keyVars, poolVars, pipeVars, inspectVars,
                        parserVars, recordVars, bearerVars>>
        /\ RatesNext
     \/ /\ subject = "keys"
        /\ UNCHANGED <<cacheVars, banVars, sharedVars, rateVars, poolVars, pipeVars, inspectVars,
                        parserVars, recordVars, bearerVars>>
        /\ KeysNext
     \/ /\ subject = "pool"
        /\ UNCHANGED <<cacheVars, banVars, sharedVars, rateVars, keyVars, pipeVars, inspectVars,
                        parserVars, recordVars, bearerVars>>
        /\ PoolNext
     \/ /\ subject = "http"
        /\ UNCHANGED <<cacheVars, banVars, sharedVars, rateVars, keyVars, poolVars, inspectVars,
                        parserVars, recordVars, bearerVars>>
        /\ PipelineNext
     \/ /\ subject = "inspection"
        /\ UNCHANGED <<cacheVars, banVars, sharedVars, rateVars, keyVars, poolVars, pipeVars,
                        parserVars, recordVars, bearerVars>>
        /\ InspectNext
     \/ /\ subject = "multipart"
        /\ UNCHANGED <<cacheVars, banVars, sharedVars, rateVars, keyVars, poolVars, pipeVars,
                        inspectVars, recordVars, bearerVars>>
        /\ ParserNext
     \/ /\ subject = "records"
        /\ UNCHANGED <<cacheVars, banVars, sharedVars, rateVars, keyVars, poolVars, pipeVars,
                        inspectVars, parserVars, bearerVars>>
        /\ RecordsNext
     \/ /\ subject = "bearers"
        /\ UNCHANGED <<cacheVars, banVars, sharedVars, rateVars, keyVars, poolVars, pipeVars,
                        inspectVars, parserVars, recordVars>>
        /\ BearerNext

RequestSpec == RequestInit /\ [][RequestNext]_requestVars

-----------------------------------------------------------------------------
(* Properties *)

\* Limits on clients are exact: local and fleet-wide bans start on enough
\* evidence of one window and stand for their time, no observation in flight
\* is lost or counted twice, and no rule admits more than it promises
\* (path_failure_bans.rs, security_redis.rs, path_rate_limits.rs).
LimitsExact ==
  [][/\ subject = "bans" => BansExact
     /\ subject = "shared" => SharedBansExact
     /\ subject = "rates" => RatesRespected']_requestVars

\* What inspection lets through is what the backend receives: decisions fit
\* the body as sent, multipart parts and streamed records are the same for
\* every way the bytes are cut, and permits and spool space return
\* (request_blocks.rs, request_block_multipart.rs, transform_body.rs; see
\* InspectionSound, PartsExact and RecordsExact).
BodiesInspected ==
  /\ subject = "inspection" => InspectionSound
  /\ subject = "multipart" => PartsExact
  /\ subject = "records" => RecordsExact

-----------------------------------------------------------------------------
(* Constants of the instances *)

HttpProfiles ==
  {{}, {"cache", "bans", "json"}, {"jwt", "lua", "blocks"},
   {"workload", "transform", "responseTransform", "blocks"},
   {"auth", "pumgye", "remote", "expiring", "native", "service", "docker"},
   {"auth", "native", "strict"},
   {"basic", "auth", "lua", "bans"}}
HttpArrivals ==
  {{}, {"public", "body", "spoofed"}, {"websocket", "workload"}, {"workload", "body", "spoofed"},
   {"websocket"}, {"health"}, {"onlyIfCached"}}

Transforms == [mode : {"buffered", "ndjson", "sse"}, prefixed : BOOLEAN, buffer : {3}]
Prefix     == <<"x", "x", "n">>

Condition(negate) == [name |-> "a", negate |-> negate, values |-> {"bad"}, default |-> "none"]
SpoolingRule == [path |-> 1, subpaths |-> TRUE, methods |-> {}, params |-> {Condition(FALSE)},
                 spool |-> TRUE]
StrictRule   == [path |-> 2, subpaths |-> FALSE, methods |-> {"POST"}, params |-> {Condition(TRUE)},
                 spool |-> FALSE]
Blocks       == {{StrictRule}, {SpoolingRule, StrictRule}}
NoParams     == [n \in {} |-> "none"]
QueryStrings == {NoParams, "a" :> "bad", "a" :> "ok"}
FormBodies   == {[params |-> NoParams, size |-> 0, big |-> FALSE],
                 [params |-> "a" :> "bad", size |-> 1, big |-> FALSE],
                 [params |-> "a" :> "ok", size |-> 2, big |-> TRUE],
                 [params |-> "a" :> "ok", size |-> 1, big |-> FALSE]}
EntryPoints  == {[path |-> 1, method |-> "POST"], [path |-> 2, method |-> "POST"]}

JwkOf(id, kty, alg, use, m) == [kid |-> id, kty |-> kty, alg |-> alg, use |-> use, material |-> m]
RsaKey == JwkOf(1, "RSA", "none", "sig", "m1")
JwtOf(jwks, algorithms, other) ==
  [jwks |-> jwks, algorithms |-> algorithms, leeway |-> 1, lifetime |-> 2, revokedIds |-> {},
   cutoff |-> 0, scopes |-> {}, other |-> other]
JwtRoutes ==
  {JwtOf(<<RsaKey>>, {"RS256"}, 1), JwtOf(<<RsaKey>>, {"RS256"}, 2),
   JwtOf(<<RsaKey>>, {"RS256", "PS256"}, 1), JwtOf(<<JwkOf(1, "RSA", "none", "enc", "m1")>>, {"RS256"}, 1),
   [JwtOf(<<JwkOf(1, "RSA", "RS256", "sig", "m2"), JwkOf(2, "EC", "none", "sig", "m3")>>,
          {"RS256", "ES256"}, 1) EXCEPT !.revokedIds = {7}, !.cutoff = 1, !.scopes = {"s"}]}
TokenOf(kid, alg, signer, exp, nbf, jti, scopes) ==
  [kid |-> kid, alg |-> alg, signer |-> signer, wellFormed |-> TRUE, iat |-> 1, exp |-> exp,
   nbf |-> nbf, jti |-> jti, scopes |-> scopes]
PresentedTokens ==
  {TokenOf(1, "RS256", "m1", 2, 1, 7, {}), TokenOf(1, "RS256", "m2", 3, 2, 8, {"s"}),
   TokenOf(2, "ES256", "m3", 3, 1, 7, {"s"}), TokenOf(1, "RS256", "m1", 3, 0, 9, {})}

\* The concurrent requests of every component are the same model values, and
\* no component's behaviour depends on which of them is which.
Symmetry == Permutations(Requests)
=============================================================================
