----------------------------- MODULE ClientLimits ----------------------------
(***************************************************************************)
(* Limits on what one client may do, in three sections: failure bans of one *)
(* process, failure bans shared by a fleet, rate limits.                    *)
(*                                                                          *)
(* One rule of path_failure_bans.rs: a bounded table of client records, the *)
(* leases that requests hold on them from admission to response, bans, the  *)
(* administrator's clear, and eviction at the table's limit.  Instants are  *)
(* sampled before the table's lock is taken, so they may be applied late    *)
(* and out of order.                                                        *)
(***************************************************************************)
EXTENDS Integers, FiniteSets, FiniteSetsExt

CONSTANTS
  Clients,      \* client addresses
  Observers,    \* requests in flight
  MaxClients,   \* MAX_CLIENTS
  Threshold,    \* rule.failures
  WindowTime,   \* rule.window_seconds
  BanTime,      \* rule.ban_seconds
  BanClock,     \* bound on time
  MaxClears     \* bound on the administrator's clears, per client

VARIABLES
  banNow,     \* the clock
  table,      \* Bucket.clients: a record per tracked client
  observer,   \* each request's observation
  era,        \* per client, how many bans and clears it has had
  evidence    \* per client, the failing responses of one era by effective time

banVars == <<banNow, table, observer, era, evidence>>

Instants == 0..BanClock
NotBanned == -1
\* A generation is an Arc: its identity is not reused while anything holds it.
Identities == 1..(Cardinality(Clients) + Cardinality(Observers) + 1)
Record == [generation : Identities, updated : Instants, started : Instants,
           failures : 0..Threshold, banned : Instants \cup {NotBanned}, flight : Nat]
ObserverSteps == {"idle", "checking", "leased", "recording", "dropping"}
Observer == [at : ObserverSteps, client : Clients, generation : Identities, now : Instants,
             era : Nat]
Unobserved == [at |-> "idle", client |-> CHOOSE c \in Clients : TRUE, generation |-> 1,
               now |-> 0, era |-> 0]
NoEvidence(e) == [era |-> e, at |-> [t \in Instants |-> 0]]
Leased(o) == observer[o].at \in {"leased", "recording", "dropping"}

BansInit ==
  /\ banNow = 0 /\ table = [c \in {} |-> 0]
  /\ observer = [o \in Observers |-> Unobserved]
  /\ era = [c \in Clients |-> 0]
  /\ evidence = [c \in Clients |-> NoEvidence(0)]

Tracked == DOMAIN table
Unused(held) == CHOOSE g \in Identities :
  /\ \A c \in Tracked : table[c].generation # g
  /\ \A o \in Observers : Leased(o) => observer[o].generation # g
  /\ g \notin held

Banned(rec, now) == rec.banned # NotBanned /\ now - rec.banned < BanTime
WindowLive(rec, now) == now - rec.started < WindowTime

\* reset_expired: an ended ban or an ended window starts counting anew.
ResetExpired(rec, now) ==
  IF \/ rec.banned # NotBanned /\ ~Banned(rec, now)
     \/ rec.banned = NotBanned /\ ~WindowLive(rec, now)
  THEN [rec EXCEPT !.banned = NotBanned, !.failures = 0, !.started = now]
  ELSE rec

\* An instant never runs behind what the record has seen.
Advance(rec, now) ==
  LET later == IF now > rec.updated THEN now ELSE rec.updated
  IN ResetExpired([rec EXCEPT !.updated = later], later)

\* What a full table keeps to make room.
Kept(now) ==
  {c \in Tracked : \/ table[c].flight # 0
                   \/ Banned(table[c], now)
                   \/ table[c].banned = NotBanned /\ table[c].failures # 0
                      /\ WindowLive(table[c], now)}

Roomy(c, now) ==
  IF c \in Tracked \/ Cardinality(Tracked) < MaxClients THEN table
  ELSE [k \in Kept(now) |-> table[k]]

----------------------------------------------------------------------------
Step(o, at) == observer' = [observer EXCEPT ![o].at = at, ![o].now = 0]

\* check samples the clock for a request of client c.
Check(o, c) ==
  /\ observer[o].at = "idle"
  /\ observer' = [observer EXCEPT ![o] = [Unobserved EXCEPT !.at = "checking", !.client = c,
                                                            !.now = banNow]]
  /\ UNCHANGED <<banNow, table, era, evidence>>

\* Bucket::reserve under the table's lock: full (503), banned (429) or leased.
Reserve(o) ==
  LET c == observer[o].client
      roomy == Roomy(c, observer[o].now)
      fresh == [generation |-> Unused({}), updated |-> observer[o].now,
                started |-> observer[o].now, failures |-> 0, banned |-> NotBanned, flight |-> 0]
      rec == Advance(IF c \in Tracked THEN table[c] ELSE fresh, observer[o].now)
      put(r) == [k \in DOMAIN roomy \cup {c} |-> IF k = c THEN r ELSE roomy[k]]
  IN /\ observer[o].at = "checking"
     /\ \/ /\ c \notin Tracked /\ Cardinality(DOMAIN roomy) >= MaxClients
           /\ table' = roomy /\ observer' = [observer EXCEPT ![o] = Unobserved]
        \/ /\ c \in Tracked \/ Cardinality(DOMAIN roomy) < MaxClients
           /\ IF Banned(rec, rec.updated)
              THEN table' = put(rec) /\ observer' = [observer EXCEPT ![o] = Unobserved]
              ELSE /\ table' = put([rec EXCEPT !.flight = @ + 1])
                   /\ observer' = [observer EXCEPT ![o].at = "leased", ![o].era = era[c],
                                     ![o].generation = rec.generation, ![o].now = 0]
     /\ UNCHANGED <<banNow, era, evidence>>

\* A failing response arrives; record samples the clock.
Failing(o) ==
  /\ observer[o].at = "leased"
  /\ observer' = [observer EXCEPT ![o].at = "recording", ![o].now = banNow]
  /\ UNCHANGED <<banNow, table, era, evidence>>

\* Another status, or the request is cancelled: nothing is recorded.
Harmless(o) ==
  /\ observer[o].at = "leased" /\ Step(o, "dropping")
  /\ UNCHANGED <<banNow, table, era, evidence>>

\* The record is still of the generation the request was admitted in.
Owns(o) == observer[o].client \in Tracked
           /\ table[observer[o].client].generation = observer[o].generation

\* Bucket::record: count the failure, and at the threshold ban the client and
\* retire the generation of every request admitted before.
CountFailure(rec) ==
  LET counted == [rec EXCEPT !.failures = IF @ < Threshold THEN @ + 1 ELSE @,
                             !.started = IF rec.failures = 0 THEN rec.updated ELSE @]
  IN IF Banned(rec, rec.updated) THEN rec
     ELSE IF counted.failures >= Threshold
     THEN [counted EXCEPT !.banned = rec.updated, !.generation = Unused({}), !.flight = 0]
     ELSE counted

RecordFailure(o) ==
  LET c == observer[o].client
      before == Advance(table[c], observer[o].now)
      after == CountFailure(before)
      banned == after.banned # before.banned
      seen == IF evidence[c].era = era[c] THEN evidence[c] ELSE NoEvidence(era[c])
  IN /\ observer[o].at = "recording" /\ Step(o, "dropping")
     /\ IF Owns(o)
        THEN /\ table' = [table EXCEPT ![c] = after]
             /\ era' = IF banned THEN [era EXCEPT ![c] = @ + 1] ELSE era
             /\ evidence' = IF observer[o].era # era[c] THEN evidence
                            ELSE [evidence EXCEPT ![c] = [seen EXCEPT !.at[before.updated] = @ + 1]]
        ELSE UNCHANGED <<table, era, evidence>>
     /\ UNCHANGED banNow

\* Lease::drop: the last lease of an innocent record removes it.
DropLease(o) ==
  LET c == observer[o].client
  IN /\ observer[o].at = "dropping" /\ observer' = [observer EXCEPT ![o] = Unobserved]
     /\ table' =
          IF ~Owns(o) THEN table
          ELSE IF table[c].flight = 1 /\ table[c].failures = 0 /\ table[c].banned = NotBanned
          THEN [k \in Tracked \ {c} |-> table[k]]
          ELSE [table EXCEPT ![c].flight = @ - 1]
     /\ UNCHANGED <<banNow, era, evidence>>

\* clear: the administrator forgets a client.
Clear(c) ==
  /\ c \in Tracked /\ era[c] < MaxClears
  /\ table' = [k \in Tracked \ {c} |-> table[k]]
  /\ era' = [era EXCEPT ![c] = @ + 1]
  /\ UNCHANGED <<banNow, observer, evidence>>

BanTick ==
  /\ banNow < BanClock /\ banNow' = banNow + 1
  /\ UNCHANGED <<table, observer, era, evidence>>

BansNext ==
  \/ \E o \in Observers :
       \/ \E c \in Clients : Check(o, c)
       \/ Reserve(o) \/ Failing(o) \/ Harmless(o) \/ RecordFailure(o) \/ DropLease(o)
  \/ \E c \in Clients : Clear(c)
  \/ BanTick

----------------------------------------------------------------------------
(* Properties *)

\* A record counts exactly the leases of its own generation: however bans,
\* clears and late drops interleave, the counter neither leaks nor underflows.
FlightExact ==
  \A c \in Tracked : table[c].flight =
    Cardinality({o \in Observers : /\ Leased(o) /\ observer[o].client = c
                                   /\ observer[o].generation = table[c].generation})

\* A request admitted since its client's last ban or clear still finds the
\* record it was admitted under: eviction at the table's limit and the drops
\* of other requests never lose an observation in flight.
LeaseFindsRecord ==
  \A o \in Observers : Leased(o) /\ observer[o].era = era[observer[o].client] => Owns(o)

\* An observation in flight is counted and found, once.
ObservationsKept == FlightExact /\ LeaseFindsRecord

\* A ban starts only on enough failing responses within one window, all to
\* requests admitted since the client's previous ban or clear.
BanJustified ==
  \A c \in Tracked \cap DOMAIN table' :
    table'[c].banned # table[c].banned /\ table'[c].banned # NotBanned =>
      /\ evidence'[c].era = era[c]
      /\ MapThenSumSet(LAMBDA t : evidence'[c].at[t],
                       {t \in Instants : t > table'[c].banned - WindowTime
                                         /\ t <= table'[c].banned}) >= Threshold

\* A ban in force is neither lost, nor shortened, nor prolonged, except by the
\* administrator; and a live failure count is not lost to other clients.
BanStands ==
  \A c \in Tracked :
    \/ Clear(c)
    \/ /\ Banned(table[c], banNow') => c \in DOMAIN table' /\ table'[c].banned = table[c].banned
       /\ (table[c].banned = NotBanned /\ table[c].failures # 0 /\ WindowLive(table[c], banNow'))
            => c \in DOMAIN table' /\ table'[c].failures >= table[c].failures

\* Observations are kept; bans start on evidence and stand for their time.
BansExact == ObservationsKept' /\ BanJustified /\ BanStands

----------------------------------------------------------------------------
(***************************************************************************)
(* The same failure bans kept in Redis for a fleet (security_redis.rs): the *)
(* BAN and CLEAR scripts are atomic, a call may be lost before or after it  *)
(* ran, an observation that is abandoned is never given back, and records   *)
(* expire.                                                                  *)
(***************************************************************************)

CONSTANTS
  Addresses,      \* client addresses
  Peers,          \* observations in flight, of any process of the fleet
  SharedRoom,     \* 1024 in the script
  SharedFailures, \* rule.failures
  SharedWindow,   \* rule.window_seconds
  SharedBan,      \* rule.ban_seconds
  SharedTtl,      \* ttl(rule): at least both of them
  SharedClock,    \* bound on time
  SharedClears,   \* bound on clears, per address
  SharedFlight    \* bound on the reservations of one row, leaked ones included

ASSUME TtlCovers == SharedTtl >= SharedWindow /\ SharedTtl >= SharedBan

VARIABLES
  sharedNow,   \* the Redis server's clock
  rows,        \* KEYS[2]: a record per address, with its score of KEYS[1]
  peer,        \* each observation
  sharedEra,   \* per address, its bans, clears and expiries
  counted      \* per address, the failing responses of one era by time

sharedVars == <<sharedNow, rows, peer, sharedEra, counted>>

Times == 0..SharedClock
NoPeer == [at |-> "idle", address |-> CHOOSE a \in Addresses : TRUE, epoch |-> 0, era |-> 0,
           until |-> 0]
NoCount(e) == [era |-> e, at |-> [t \in Times |-> 0]]

SharedInit ==
  /\ sharedNow = 0 /\ rows = [a \in {} |-> 0] /\ peer = [p \in Peers |-> NoPeer]
  /\ sharedEra = [a \in Addresses |-> 0] /\ counted = [a \in Addresses |-> NoCount(0)]

\* Every script first drops the rows whose score has passed.
Expired == {a \in DOMAIN rows : rows[a].expires <= sharedNow}
Alive == [a \in DOMAIN rows \ Expired |-> rows[a]]
EraAfterExpiry == [a \in Addresses |-> IF a \in Expired THEN sharedEra[a] + 1 ELSE sharedEra[a]]
InForce(row, now) == row.banned > now
\* Nothing is left to remember.
Spent(row) == row.count = 0 /\ row.flight = 0
With(a, row) == [k \in DOMAIN Alive \cup {a} |-> IF k = a THEN row ELSE Alive[k]]
\* A process's nonce and sequence number: a token nothing refers to.
Tokens == 1..(2 * (Cardinality(Addresses) + Cardinality(Peers)))
FreshToken == CHOOSE n \in Tokens : /\ \A a \in DOMAIN rows : rows[a].epoch # n
                                    /\ \A p \in Peers : peer[p].epoch # n
Without(a) == [k \in DOMAIN Alive \ {a} |-> Alive[k]]

----------------------------------------------------------------------------
\* Mode "reserve"; the reply says capacity, banned or the epoch, and may be
\* lost, in which case the request fails and its reservation stays.
SharedReserve(p, a) ==
  LET fresh == [epoch |-> FreshToken, count |-> 0, started |-> sharedNow, banned |-> 0,
                flight |-> 0, expires |-> 0]
      row == IF a \in DOMAIN Alive THEN Alive[a] ELSE fresh
      full == a \notin DOMAIN Alive /\ Cardinality(DOMAIN Alive) >= SharedRoom
  IN /\ peer[p].at = "idle" /\ row.flight < SharedFlight /\ sharedEra' = EraAfterExpiry
     /\ IF full \/ InForce(row, sharedNow)
        THEN rows' = Alive /\ UNCHANGED peer
        ELSE /\ rows' = With(a, [row EXCEPT !.flight = @ + 1, !.expires = sharedNow + SharedTtl])
             /\ \/ peer' = [peer EXCEPT ![p] =
                      [at |-> "leased", address |-> a, epoch |-> row.epoch,
                       era |-> EraAfterExpiry[a], until |-> sharedNow + SharedTtl]]
                \/ UNCHANGED peer
     /\ UNCHANGED <<sharedNow, counted>>

\* Mutant: a response of an earlier epoch counts as well.
SameEpochAny(row, epoch) == TRUE
SameEpoch(row, epoch) == row.epoch = epoch

\* An ended window or ban starts counting anew.
Renewed(row) ==
  IF sharedNow - row.started >= SharedWindow \/ row.banned > 0
  THEN [row EXCEPT !.started = sharedNow, !.count = 0, !.banned = 0] ELSE row

\* The count of one failing response, and the ban at the threshold.
Tally(row) ==
  LET tallied == [row EXCEPT !.count = @ + 1,
                             !.started = IF row.count = 0 THEN sharedNow ELSE @]
  IN IF tallied.count >= SharedFailures
     THEN [tallied EXCEPT !.banned = sharedNow + SharedBan, !.epoch = FreshToken, !.flight = 0]
     ELSE tallied

\* Mode "record".  A row that is gone is reported for a failing response.
SharedRecord(p, failing) ==
  LET a == peer[p].address
      lent == [Alive[a] EXCEPT !.flight = IF @ > 0 THEN @ - 1 ELSE 0]
      renewed == Renewed(lent)
      row == IF failing THEN Tally(renewed) ELSE renewed
      fromThisEra == peer[p].era = EraAfterExpiry[a]
  IN /\ peer[p].at = "leased"
     /\ peer' = [peer EXCEPT ![p] = NoPeer]
     /\ IF a \notin DOMAIN Alive \/ ~SameEpoch(Alive[a], peer[p].epoch)
        THEN rows' = Alive /\ sharedEra' = EraAfterExpiry /\ UNCHANGED counted
        ELSE IF InForce(lent, sharedNow)
        THEN rows' = With(a, lent) /\ sharedEra' = EraAfterExpiry /\ UNCHANGED counted
        ELSE /\ rows' = IF Spent(row) THEN Without(a)
                        ELSE With(a, [row EXCEPT !.expires = sharedNow + SharedTtl])
             /\ sharedEra' = [EraAfterExpiry EXCEPT ![a] =
                                IF row.banned > sharedNow THEN @ + 1 ELSE @]
             /\ counted' = IF ~failing \/ ~fromThisEra THEN counted
                           ELSE [counted EXCEPT ![a] =
                                  [(IF @.era = EraAfterExpiry[a] THEN @ ELSE NoCount(EraAfterExpiry[a]))
                                    EXCEPT !.at[sharedNow] = @ + 1]]
     /\ UNCHANGED sharedNow

\* The request is cancelled, or the call never reaches Redis.
SharedAbandon(p) ==
  /\ peer[p].at = "leased" /\ peer' = [peer EXCEPT ![p] = NoPeer]
  /\ UNCHANGED <<sharedNow, rows, sharedEra, counted>>

\* Modes "check" and "list" only drop what has expired.
SharedCheck ==
  /\ Expired # {} /\ rows' = Alive /\ sharedEra' = EraAfterExpiry
  /\ UNCHANGED <<sharedNow, peer, counted>>

\* The CLEAR script.
SharedClear(a) ==
  /\ a \in DOMAIN rows /\ sharedEra[a] < SharedClears
  /\ rows' = [k \in DOMAIN rows \ {a} |-> rows[k]]
  /\ sharedEra' = [sharedEra EXCEPT ![a] = @ + 1]
  /\ UNCHANGED <<sharedNow, peer, counted>>

SharedTick ==
  /\ sharedNow < SharedClock /\ sharedNow' = sharedNow + 1
  /\ UNCHANGED <<rows, peer, sharedEra, counted>>

SharedNext ==
  \/ \E p \in Peers : \/ \E a \in Addresses : SharedReserve(p, a)
                      \/ \E failing \in BOOLEAN : SharedRecord(p, failing)
                      \/ SharedAbandon(p)
  \/ SharedCheck \/ SharedTick
  \/ \E a \in Addresses : SharedClear(a)

----------------------------------------------------------------------------
(* Properties *)

\* A request admitted since its address's last ban, clear or expiry finds its
\* row for the whole time to live it was promised: abandoned observations of
\* other processes may delay a row's removal, never hasten it.
SharedLeaseFindsRow ==
  \A p \in Peers :
    LET a == peer[p].address
    IN peer[p].at = "leased" /\ sharedNow < peer[p].until /\ peer[p].era = sharedEra[a]
         => a \in DOMAIN rows /\ rows[a].epoch = peer[p].epoch

\* A ban of the fleet starts only on enough failing responses within one
\* window to requests admitted since the previous ban, clear or expiry.
SharedBanJustified ==
  \A a \in DOMAIN rows' :
    LET started == rows'[a].banned - SharedBan
    IN rows'[a].banned > sharedNow /\ (a \in DOMAIN rows => rows'[a].banned # rows[a].banned) =>
         /\ counted'[a].era = EraAfterExpiry[a]
         /\ MapThenSumSet(LAMBDA t : counted'[a].at[t],
              {t \in Times : t > started - SharedWindow /\ t <= started}) >= SharedFailures

\* A ban in force outlives expiry and other processes' calls unchanged: only
\* the administrator ends it early.
SharedBanStands ==
  \A a \in DOMAIN rows :
    rows[a].banned > sharedNow /\ rows[a].banned > sharedNow' =>
      \/ SharedClear(a)
      \/ a \in DOMAIN rows' /\ rows'[a].banned = rows[a].banned

\* What a process of the fleet observed counts once, for the address and the
\* time it was observed, and a ban of the fleet stands for its time.
SharedBansExact == SharedLeaseFindsRow' /\ SharedBanJustified /\ SharedBanStands

-----------------------------------------------------------------------------
(***************************************************************************)
(* URL rate limits (path_rate_limits.rs) with two rules that match the same *)
(* requests: a token bucket and a fixed window.  The buckets are local to a *)
(* process, each behind its own lock, or shared in Redis and updated by one *)
(* script (security_redis.rs, RATE), where an idle key expires.             *)
(***************************************************************************)

CONSTANTS
  Callers,       \* concurrent requests
  Tps,           \* tokens per tick of the bucket
  Burst,         \* its capacity
  WindowLimit,   \* requests per window
  WindowTicks,   \* length of the window
  KeyTtl,        \* how long an idle shared key lives
  RateClock      \* bound on time

\* RATE keeps a key for the refill of a whole burst and for the window.
ASSUME TtlOutlasts == KeyTtl >= WindowTicks /\ KeyTtl * Tps >= Burst

VARIABLES
  rateNow,    \* the clock
  shared,     \* the buckets are in Redis
  paced,      \* the token bucket: updated, credit
  windowed,   \* the window: updated, start (or window number), used
  caller,     \* each request: its step and the instant it sampled
  admitted,   \* per rule, requests admitted by it, by effective instant
  idleSince   \* when the shared keys were last written

rateVars == <<rateNow, shared, paced, windowed, caller, admitted, idleSince>>

RateTimes == 0..RateClock
Later(a, b) == IF a > b THEN a ELSE b
Lesser(a, b) == IF a < b THEN a ELSE b
FullBucket(now) == [updated |-> now, credit |-> Burst]
EmptyWindow(now) == [updated |-> now, start |-> now, used |-> 0]
Waiting == [at |-> "idle", now |-> 0]

RatesInit ==
  /\ rateNow = 0 /\ shared \in BOOLEAN
  /\ paced = FullBucket(0) /\ windowed = EmptyWindow(0)
  /\ caller = [r \in Callers |-> Waiting] /\ idleSince = 0
  /\ admitted = [rule \in {"paced", "windowed"} |-> [t \in RateTimes |-> 0]]

Admit(rule, at) == [admitted EXCEPT ![rule][at] = @ + 1]

----------------------------------------------------------------------------
(* One process *)

\* The refill since the last update, capped by the burst.
Refill(now) ==
  [updated |-> Later(now, paced.updated),
   credit |-> Lesser(Burst, paced.credit + Tps * Later(0, now - paced.updated))]

\* The window restarts at the first instant past its end.
Rolled(now) ==
  LET w == [windowed EXCEPT !.updated = Later(now, @)]
  IN IF now - w.start >= WindowTicks THEN [w EXCEPT !.start = Later(now, @), !.used = 0] ELSE w

\* check samples one instant for all of its buckets.
SampleRate(r) ==
  /\ ~shared /\ caller[r].at = "idle"
  /\ caller' = [caller EXCEPT ![r] = [at |-> "paced", now |-> rateNow]]
  /\ UNCHANGED <<rateNow, shared, paced, windowed, admitted, idleSince>>

\* Bucket::admit of the first rule; refused, the request ends with 429.
AdmitPaced(r) ==
  LET bucket == Refill(caller[r].now)
  IN /\ caller[r].at = "paced"
     /\ \/ /\ bucket.credit < 1 /\ paced' = bucket
           /\ caller' = [caller EXCEPT ![r] = Waiting] /\ UNCHANGED admitted
        \/ /\ bucket.credit >= 1 /\ paced' = [bucket EXCEPT !.credit = @ - 1]
           /\ caller' = [caller EXCEPT ![r].at = "windowed"]
           /\ admitted' = Admit("paced", bucket.updated)
     /\ UNCHANGED <<rateNow, shared, windowed, idleSince>>

\* Bucket::admit of the second rule; what the first one took is not returned.
AdmitWindowed(r) ==
  LET window == Rolled(caller[r].now)
  IN /\ caller[r].at = "windowed" /\ caller' = [caller EXCEPT ![r] = Waiting]
     /\ \/ window.used >= WindowLimit /\ windowed' = window /\ UNCHANGED admitted
        \/ /\ window.used < WindowLimit /\ windowed' = [window EXCEPT !.used = @ + 1]
           /\ admitted' = Admit("windowed", window.updated)
     /\ UNCHANGED <<rateNow, shared, paced, idleSince>>

\* prepare: an unchanged rule keeps its bucket.
Prepared == UNCHANGED <<paced, windowed>>

\* A configuration is published that leaves the two rules as they are.
Republish ==
  /\ Prepared
  /\ UNCHANGED <<rateNow, shared, caller, admitted, idleSince>>

----------------------------------------------------------------------------
(* The fleet *)

\* The window number the script derives from the server's clock.
WindowNumber == rateNow \div WindowTicks
UsedNow == IF windowed.start = WindowNumber THEN windowed.used ELSE 0

\* The RATE script: every rule admits, or nothing is written.
AdmitShared ==
  LET bucket == Refill(rateNow)
  IN /\ shared /\ bucket.credit >= 1 /\ UsedNow < WindowLimit
     /\ paced' = [bucket EXCEPT !.credit = @ - 1]
     /\ windowed' = [updated |-> rateNow, start |-> WindowNumber, used |-> UsedNow + 1]
     /\ idleSince' = rateNow
     /\ admitted' = [rule \in DOMAIN admitted |-> [admitted[rule] EXCEPT ![rateNow] = @ + 1]]
     /\ UNCHANGED <<rateNow, shared, caller>>

KeyExpired == shared /\ rateNow - idleSince > KeyTtl

\* An idle key is gone: the next script starts from a full burst.
ExpireKey ==
  /\ KeyExpired
  /\ paced' = FullBucket(rateNow) /\ windowed' = [updated |-> rateNow, start |-> -1, used |-> 0]
  /\ UNCHANGED <<rateNow, shared, caller, admitted, idleSince>>

RateTick ==
  /\ rateNow < RateClock /\ rateNow' = rateNow + 1
  /\ UNCHANGED <<shared, paced, windowed, caller, admitted, idleSince>>

RatesNext ==
  \/ \E r \in Callers : SampleRate(r) \/ AdmitPaced(r) \/ AdmitWindowed(r)
  \/ Republish \/ AdmitShared \/ ExpireKey \/ RateTick

----------------------------------------------------------------------------
(* Properties *)

AdmittedIn(rule, a, b) == MapThenSumSet(LAMBDA t : admitted[rule][t], a..b)
\* The instants at which a rule admitted something: the stretches with the
\* most admissions for their length start and end at such instants.
Busy(rule) == {t \in RateTimes : admitted[rule][t] > 0}

\* Over any stretch of time no more requests pass the token bucket than its
\* burst plus the sustained rate, with samples applied late and out of order,
\* publications in between and shared keys that expire.
RatePaced ==
  \A a, b \in Busy("paced") : a <= b => AdmittedIn("paced", a, b) <= Burst + Tps * (b - a)

\* Any stretch as long as the window meets at most two windows' worth.
RateWindowed ==
  \A a \in Busy("windowed") :
    AdmittedIn("windowed", a, Lesser(RateClock, a + WindowTicks - 1)) <= 2 * WindowLimit

\* Neither rule ever lets more through than it promises.
RatesRespected == RatePaced /\ RateWindowed
=============================================================================
