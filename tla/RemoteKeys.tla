----------------------------- MODULE RemoteKeys ------------------------------
(***************************************************************************)
(* The remote signing keys of one JWT issuer (jwks_remote.rs) and the       *)
(* verification that uses them (jwt_runtime.rs).  Requests and the refresh  *)
(* monitor ask for the key of one identifier; one of them at a time fetches *)
(* it from the provider, which rotates or withdraws it at any moment.       *)
(***************************************************************************)
EXTENDS Integers, FiniteSets

CONSTANTS
  Verifiers,      \* requests that verify a token
  Monitor,        \* the refresh monitor, as a caller of key()
  MaxKey,         \* versions of the key the provider publishes
  KeyTime,        \* cache_ttl_seconds
  Cooldown,       \* refresh_cooldown_seconds
  KeyClock        \* bound on time

\* RemoteJwksConfig::validate, and the monitor is not a request.
ASSUME KeyBounds ==
  MaxKey \in Nat \ {0} /\ KeyTime \in Nat /\ Cooldown \in 1..KeyTime /\ KeyClock \in Nat
  /\ Monitor \notin Verifiers

VARIABLES
  keyNow,      \* the clock
  issuer,      \* the key version the provider publishes; 0 is a withdrawn key
  withdrawn,   \* when each version was withdrawn
  keys,        \* Cache: version, refreshAfter, expiresAt, nextRefresh, failed
  fetching,    \* the singleflight flag
  ask,         \* each caller of key(): step, sampled instant, fetch start, version
  lastFetch,   \* when the latest fetch started
  sessions,    \* verifiers that hold a session on the monitor
  monitor      \* the monitor task: "off", "deciding", "idle" or "asking"

keyVars == <<keyNow, issuer, withdrawn, keys, fetching, ask, lastFetch, sessions, monitor>>

Never == KeyClock + 1
NoKeySet == -1
FetchFailed == -2
Askers == Verifiers \cup {Monitor}
\* A caller is idle, has asked, races for the flag, rechecks, fetches, has
\* fetched, verifies with a key or was admitted.
NotAsking == [at |-> "idle", now |-> 0, started |-> 0, version |-> NoKeySet]

KeysInit ==
  /\ keyNow = 0 /\ issuer = 1 /\ withdrawn = [v \in 1..MaxKey |-> Never]
  /\ keys = [version |-> NoKeySet, refreshAfter |-> 0, expiresAt |-> 0, nextRefresh |-> 0,
             failed |-> FALSE]
  /\ fetching = FALSE /\ ask = [a \in Askers |-> NotAsking] /\ lastFetch = -Cooldown
  /\ sessions = {} /\ monitor = "off"

\* cached_key: a key of the set, before its hard expiry.
CachedAt(now) == now < keys.expiresAt /\ keys.version > 0
\* The cache answers without a fetch: with the key, or inside the cooldown.
FreshAt(now) == CachedAt(now) /\ (now < keys.refreshAfter \/ now < keys.nextRefresh)
CoolingAt(now) == now < keys.nextRefresh
\* key() returns: the monitor drops the result, a request verifies with it.
Answer(a) ==
  [ask EXCEPT ![a] = IF a = Monitor THEN NotAsking
                     ELSE [NotAsking EXCEPT !.at = "verifying", !.version = keys.version]]
Refuse(a) == [ask EXCEPT ![a] = NotAsking]

----------------------------------------------------------------------------
(* RemoteJwksProvider::key *)

\* A request presents a token; the instant is sampled before the lock.
Present(v) ==
  /\ ask[v].at = "idle" /\ v \notin sessions
  /\ ask' = [ask EXCEPT ![v] = [NotAsking EXCEPT !.at = "asked", !.now = keyNow]]
  /\ UNCHANGED <<keyNow, issuer, withdrawn, keys, fetching, lastFetch, sessions, monitor>>

LookupKey(a) ==
  /\ ask[a].at = "asked"
  /\ ask' = IF FreshAt(ask[a].now) THEN Answer(a)
            ELSE IF CoolingAt(ask[a].now) THEN Refuse(a)
            ELSE [ask EXCEPT ![a].at = "racing", ![a].now = 0]
  /\ UNCHANGED <<keyNow, issuer, withdrawn, keys, fetching, lastFetch, sessions, monitor>>

FlagTaken == fetching

\* The compare-exchange; the loser uses a cached key until its hard expiry.
RaceFetch(a) ==
  /\ ask[a].at = "racing"
  /\ IF FlagTaken
     THEN ask' = (IF CachedAt(keyNow) THEN Answer(a) ELSE Refuse(a)) /\ UNCHANGED fetching
     ELSE ask' = [ask EXCEPT ![a].at = "rechecking"] /\ fetching' = TRUE
  /\ UNCHANGED <<keyNow, issuer, withdrawn, keys, lastFetch, sessions, monitor>>

\* The cooldown is reserved before the first await.
StartFetch(a) ==
  /\ keys' = [keys EXCEPT !.nextRefresh = keyNow + Cooldown, !.failed = TRUE]
  /\ ask' = [ask EXCEPT ![a].at = "fetching", ![a].started = keyNow]
  /\ lastFetch' = keyNow /\ UNCHANGED fetching

\* Another fetch may have finished before the flag was won.
Recheck(a) ==
  IF FreshAt(keyNow) \/ CoolingAt(keyNow)
  THEN /\ ask' = IF FreshAt(keyNow) THEN Answer(a) ELSE Refuse(a)
       /\ fetching' = FALSE /\ UNCHANGED <<keys, lastFetch>>
  ELSE StartFetch(a)

BeginFetch(a) ==
  /\ ask[a].at = "rechecking" /\ Recheck(a)
  /\ UNCHANGED <<keyNow, issuer, withdrawn, sessions, monitor>>

\* fetch_keys reads the provider's key set, or fails.
ReadIssuer(a) ==
  /\ ask[a].at = "fetching"
  /\ ask' \in {[ask EXCEPT ![a].at = "fetched", ![a].version = issuer],
               [ask EXCEPT ![a].at = "fetched", ![a].version = FetchFailed]}
  /\ UNCHANGED <<keyNow, issuer, withdrawn, keys, fetching, lastFetch, sessions, monitor>>

\* The client goes away during the fetch: the guard drops the flag.
CancelFetch(v) ==
  /\ ask[v].at \in {"fetching", "fetched"} /\ ask' = Refuse(v) /\ fetching' = FALSE
  /\ UNCHANGED <<keyNow, issuer, withdrawn, keys, lastFetch, sessions, monitor>>

\* Mutant: the lifetime counts from the end of the fetch.
LifetimeFromEnd(a) == keyNow
Lifetime(a) == ask[a].started

\* The outcome is published, a withdrawal included; a failure keeps the set.
PublishKeys(a) ==
  LET got == ask[a].version
      fetched == [version |-> got, refreshAfter |-> Lifetime(a) + KeyTime \div 2,
                  expiresAt |-> Lifetime(a) + KeyTime,
                  nextRefresh |-> keyNow + Cooldown, failed |-> FALSE]
      answered(v) == [ask EXCEPT ![a] = IF a = Monitor \/ v <= 0 THEN NotAsking
                        ELSE [NotAsking EXCEPT !.at = "verifying", !.version = v]]
  IN /\ ask[a].at = "fetched" /\ fetching' = FALSE
     /\ IF got # FetchFailed /\ keyNow < Lifetime(a) + KeyTime
        THEN keys' = fetched /\ ask' = answered(got)
        ELSE /\ keys' = [keys EXCEPT !.nextRefresh = keyNow + Cooldown, !.failed = TRUE]
             /\ ask' = IF CachedAt(keyNow) THEN Answer(a) ELSE Refuse(a)
     /\ UNCHANGED <<keyNow, issuer, withdrawn, lastFetch, sessions, monitor>>

----------------------------------------------------------------------------
(* Verification and sessions *)

\* is_current: the fence after signature and claims were verified.
IsCurrent(v) == keyNow < keys.expiresAt /\ keys.version = ask[v].version

\* authenticate_session: admitted, the request retains the monitor.
Verify(v) ==
  /\ ask[v].at = "verifying"
  /\ IF IsCurrent(v)
     THEN /\ ask' = [ask EXCEPT ![v].at = "admitted", ![v].now = keyNow]
          /\ sessions' = sessions \cup {v}
          /\ monitor' = IF monitor = "off" THEN "deciding" ELSE monitor
     ELSE ask' = Refuse(v) /\ UNCHANGED <<sessions, monitor>>
  /\ UNCHANGED <<keyNow, issuer, withdrawn, keys, fetching, lastFetch>>

\* The token is invalid, the verification slots are taken, or the client left.
VerifyFails(v) ==
  /\ ask[v].at = "verifying" /\ ask' = Refuse(v)
  /\ UNCHANGED <<keyNow, issuer, withdrawn, keys, fetching, lastFetch, sessions, monitor>>

EndSession(v) ==
  /\ v \in sessions /\ sessions' = sessions \ {v} /\ ask' = Refuse(v)
  /\ UNCHANGED <<keyNow, issuer, withdrawn, keys, fetching, lastFetch, monitor>>

\* RefreshMonitor::run decides under its lock: stop after the idle grace,
\* wait it out, or ask for a refresh once one is due.
MonitorIdle ==
  \/ monitor = "deciding" /\ sessions = {} /\ monitor' = "idle"
  \/ monitor = "idle" /\ sessions # {} /\ monitor' = "deciding"
  \/ monitor = "idle" /\ sessions = {} /\ monitor' = "off"

MonitorDecides ==
  /\ MonitorIdle
  /\ UNCHANGED <<keyNow, issuer, withdrawn, keys, fetching, ask, lastFetch, sessions>>

\* refresh_delay has passed.
MonitorAsks ==
  /\ monitor = "deciding" /\ sessions # {} /\ ask[Monitor].at = "idle"
  /\ keyNow >= keys.refreshAfter /\ keyNow >= keys.nextRefresh
  /\ ask' = [ask EXCEPT ![Monitor] = [NotAsking EXCEPT !.at = "asked", !.now = keyNow]]
  /\ monitor' = "asking"
  /\ UNCHANGED <<keyNow, issuer, withdrawn, keys, fetching, lastFetch, sessions>>

MonitorAnswered ==
  /\ monitor = "asking" /\ ask[Monitor].at = "idle" /\ monitor' = "deciding"
  /\ UNCHANGED <<keyNow, issuer, withdrawn, keys, fetching, ask, lastFetch, sessions>>

----------------------------------------------------------------------------
\* The provider replaces its key, or withdraws it with an empty key set.
Rotate(v) ==
  /\ issuer # v /\ (v = 0 \/ v > issuer) /\ (v > 0 => withdrawn[v] = Never)
  /\ issuer' = v
  /\ withdrawn' = [w \in 1..MaxKey |-> IF w = issuer THEN keyNow ELSE withdrawn[w]]
  /\ UNCHANGED <<keyNow, keys, fetching, ask, lastFetch, sessions, monitor>>

KeyTick ==
  /\ keyNow < KeyClock /\ keyNow' = keyNow + 1
  /\ UNCHANGED <<issuer, withdrawn, keys, fetching, ask, lastFetch, sessions, monitor>>

KeysNext ==
  \/ \E v \in Verifiers : Present(v) \/ CancelFetch(v) \/ Verify(v) \/ VerifyFails(v) \/ EndSession(v)
  \/ \E a \in Askers : LookupKey(a) \/ RaceFetch(a) \/ BeginFetch(a) \/ ReadIssuer(a) \/ PublishKeys(a)
  \/ MonitorDecides \/ MonitorAsks \/ MonitorAnswered
  \/ \E v \in 0..MaxKey : Rotate(v)
  \/ KeyTick

KeysSpec == KeysInit /\ [][KeysNext]_keyVars

----------------------------------------------------------------------------
(* Properties *)

\* A key admits no request once its lifetime has passed since the provider
\* withdrew or replaced it, whatever fetches failed, were cancelled or raced.
WithdrawnKeyRefused ==
  \A v \in Verifiers : ask[v].at = "admitted" => ask[v].now < withdrawn[ask[v].version] + KeyTime

\* At most one caller fetches, and the flag is up exactly while one does.
OneFetch ==
  /\ Cardinality({a \in Askers : ask[a].at \in {"rechecking", "fetching", "fetched"}}) <= 1
  /\ fetching <=> \E a \in Askers : ask[a].at \in {"rechecking", "fetching", "fetched"}

\* Two fetches start at least a cooldown apart, cancelled ones included.
FetchesSpaced ==
  \A a \in Askers : ask[a].at # "fetching" /\ ask'[a].at = "fetching" =>
    keyNow >= lastFetch + Cooldown

\* While any session lives, a monitor task is running for it.
SessionsWatched == sessions # {} => monitor # "off"

\* Keys are trusted for their lifetime only, fetched by one caller at a time
\* and a cooldown apart, and watched as long as somebody relies on them.
KeysStep == WithdrawnKeyRefused' /\ OneFetch' /\ SessionsWatched' /\ FetchesSpaced

\* Remote keys are trusted no longer than their lifetime after the provider
\* withdrew them, fetched by one caller at a time, a cooldown apart, and watched
\* while a session relies on them (jwks_remote.rs and the monitor of
\* jwt_runtime.rs).
KeysDisciplined == [][KeysStep]_keyVars
=============================================================================
