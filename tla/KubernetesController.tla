------------------------ MODULE KubernetesController ------------------------
(***************************************************************************)
(* The Kubernetes controller's control loop (kubernetes.rs, Controller::run) *)
(* and the runtime that takes its snapshots (main.rs, admin.rs): lists build *)
(* a bounded cache, one watcher per kind feeds it through a bounded channel, *)
(* every accepted event is published, and the controller tells the runtime   *)
(* whether its view of the API server is authoritative.  Watchers run on     *)
(* while a snapshot is prepared and applied; what is in the channel when the *)
(* loop restarts is lost.                                                    *)
(*                                                                          *)
(* An object is in the API server's state or not; the snapshot built from a  *)
(* cache is named by the cache.  A kind's freshness stands for the instants  *)
(* the code compares: `Silence` is the passing of a staleness deadline, which*)
(* every wait of the loop is woken by.                                       *)
(***************************************************************************)
EXTENDS Integers, Sequences, FiniteSets, FiniteSetsExt

CONSTANTS
  Resources,    \* the watched kinds
  Objects,      \* names of objects
  MaxObjects,   \* ControllerOptions::max_objects
  ChannelRoom,  \* capacity of the watch channel
  LastChange,   \* bound on the changes of objects
  Freezes       \* bound on handoffs that freeze the runtime

VARIABLES
  api,        \* per kind the states the API server went through (external)
  kept,       \* the oldest version whose later changes it can still send
  stage,      \* where the loop is
  listed,     \* versions of the kinds listed so far
  has,        \* `current` holds a cache
  cache, missed, resume,      \* its objects, incomplete kinds, watch versions
  stream, channel,            \* version each watcher has read; messages sent
  fresh, failed, reported,    \* Health
  published,  \* last_good: what the accepted snapshot was built from
  ready, frozen, handoffs,    \* Manager::ready and ::stopping
  owed        \* kinds that lost an event since their last list

loopVars == <<stage, listed, has, cache, missed, resume>>
watchVars == <<stream, channel>>
healthFlags == <<fresh, failed, reported>>
kubeVars == <<api, kept, loopVars, watchVars, healthFlags, published, ready, frozen, handoffs, owed>>

Nothing == [k \in Resources |-> {}]
Zero == [k \in Resources |-> 0]
NoSnapshot == <<>>
Latest(k) == Len(api[k])
Changes == MapThenSumSet(LAMBDA k : Len(api[k]) - 1, Resources)
Event(k, type, o) == [kind |-> k, type |-> type, object |-> o]
NoObject == "none"

KubernetesInit ==
  /\ api = [k \in Resources |-> <<{}>>] /\ kept = [k \in Resources |-> 1]
  /\ stage = "list" /\ listed = Zero
  /\ has = FALSE /\ cache = Nothing /\ missed = {} /\ resume = Zero
  /\ stream = Zero /\ channel = <<>>
  /\ fresh = {} /\ failed = FALSE /\ reported = FALSE /\ published = NoSnapshot
  /\ ready = FALSE /\ frozen = FALSE /\ handoffs = 0 /\ owed = {}

----------------------------------------------------------------------------
(* The API server *)

ApiChanges(k, o) ==
  /\ Changes < LastChange
  /\ LET now == api[k][Latest(k)]
     IN api' = [api EXCEPT ![k] = Append(@, IF o \in now THEN now \ {o} ELSE now \cup {o})]
  /\ UNCHANGED <<kept, loopVars, watchVars, healthFlags, published, ready, frozen, handoffs, owed>>

ApiForgets(k) ==
  /\ kept[k] < Latest(k) /\ kept' = [kept EXCEPT ![k] = Latest(k)]
  /\ UNCHANGED <<api, loopVars, watchVars, healthFlags, published, ready, frozen, handoffs, owed>>

----------------------------------------------------------------------------
(* Authority *)

\* Health::defect: none.
Sound(freshNow, failedNow, incomplete, publishedNow) ==
  /\ ~failedNow /\ freshNow = Resources /\ incomplete = {} /\ publishedNow # NoSnapshot

\* An apply made the runtime ready; an unhealthy controller takes that back.
Reassert(applied, healthy) == applied /\ ~healthy

\* report_controller_authority, while the endpoint is not withdrawn.
ReportedReady(healthy) == healthy

\* assess: the verdict is reported when it changed, and the runtime's
\* readiness follows.
Assess(healthy, applied, readyNow) ==
  IF healthy # reported \/ Reassert(applied, healthy)
  THEN reported' = healthy /\ ready' = ReportedReady(healthy)
  ELSE reported' = reported /\ ready' = readyNow

\* The kinds the loop knows to be incomplete; a discarded cache has none.
Incomplete == IF has THEN missed ELSE {}

Silence(k) ==
  /\ k \in fresh /\ fresh' = fresh \ {k}
  /\ Assess(Sound(fresh \ {k}, failed, Incomplete, published), FALSE, ready)
  /\ UNCHANGED <<api, kept, loopVars, watchVars, failed, published, frozen, handoffs, owed>>

----------------------------------------------------------------------------
(* Lists *)

\* pause_until: between lists, and after a failed one.
PauseEnds ==
  /\ stage = "pause" /\ stage' = "list" /\ listed' = Zero
  /\ Assess(Sound(fresh, failed, Incomplete, published), FALSE, ready)
  /\ UNCHANGED <<api, kept, has, cache, missed, resume, watchVars, fresh, failed, published, frozen,
                 handoffs, owed>>

\* list_kind: the API server may answer from its own, older, cache.
ListKind(k, v) ==
  /\ stage = "list" /\ listed[k] = 0
  /\ v \in kept[k]..Latest(k) /\ Cardinality(api[k][v]) <= MaxObjects
  /\ listed' = [listed EXCEPT ![k] = v]
  /\ UNCHANGED <<api, kept, stage, has, cache, missed, resume, watchVars, healthFlags, published,
                 ready, frozen, handoffs, owed>>

\* A complete list replaces the cache; each kind is as fresh as its first page.
ListDone(late) ==
  /\ stage = "list" /\ \A k \in Resources : listed[k] # 0
  /\ has' = TRUE /\ missed' = {} /\ resume' = listed /\ owed' = {}
  /\ cache' = [k \in Resources |-> api[k][listed[k]]]
  /\ fresh' = Resources \ late
  /\ stage' = "publish" /\ listed' = Zero
  /\ UNCHANGED <<api, kept, watchVars, failed, reported, published, ready, frozen, handoffs>>

\* A failed list: with a cache the loop goes on with it.
ListFails ==
  /\ stage = "list" /\ stage' = IF has THEN "publish" ELSE "pause"
  /\ listed' = Zero
  /\ UNCHANGED <<api, kept, has, cache, missed, resume, watchVars, healthFlags, published, ready,
                 frozen, handoffs, owed>>

----------------------------------------------------------------------------
(* Publication *)

\* Watchers start when the list's own publication is done.
Watching == stream # Zero
Resumed ==
  /\ stage' = "watch"
  /\ stream' = IF Watching THEN stream ELSE resume

\* apply_external_inner: a frozen runtime rejects, and an accepted snapshot
\* makes the runtime ready.
Accepts(outcome) == outcome = "applied" => ~frozen
ReadyAfter(outcome) == ready \/ outcome = "applied"

\* reconcile: unchanged content is not sent, content that cannot be built or
\* activated is rejected.
Reconciled(outcome) ==
  /\ outcome = "unchanged" <=> published = cache
  /\ Accepts(outcome)
  /\ published' = IF outcome = "rejected" THEN published ELSE cache

\* publish, after an event, a tick or a list.
Published(outcome) ==
  /\ stage = "publish" /\ Resumed /\ Reconciled(outcome)
  /\ failed' = (outcome = "rejected")
  /\ Assess(Sound(fresh, failed', missed, published'), outcome = "applied", ReadyAfter(outcome))
  /\ UNCHANGED <<api, kept, listed, has, cache, missed, resume, channel, fresh, frozen, handoffs, owed>>

----------------------------------------------------------------------------
(* Watchers: they run whatever the loop is doing *)

Sends(m) == Watching /\ Len(channel) < ChannelRoom /\ channel' = Append(channel, m)
KeepsLoop == UNCHANGED <<api, kept, loopVars, healthFlags, published, ready, frozen, handoffs, owed>>

Change(k, v) ==
  LET before == api[k][v] after == api[k][v + 1]
      object == CHOOSE o \in Objects : o \in before <=> o \notin after
  IN Event(k, IF object \in after THEN "upsert" ELSE "delete", object)

WatchEvent(k) ==
  /\ stream[k] \in kept[k]..(Latest(k) - 1) /\ Sends(Change(k, stream[k]))
  /\ stream' = [stream EXCEPT ![k] = @ + 1] /\ KeepsLoop

\* A bookmark, or a watch that ends normally: nothing changed up to here.
WatchConfirms(k, type) ==
  /\ type \in {"alive", "tick"} /\ stream[k] >= kept[k]
  /\ Sends(Event(k, type, NoObject)) /\ UNCHANGED stream /\ KeepsLoop

\* 410 Gone: the watcher's version is no longer in the server's history.
WatchExpires(k) ==
  /\ Watching /\ stream[k] < kept[k] /\ Sends(Event(k, "expired", NoObject))
  /\ \A i \in DOMAIN channel : channel[i].type # "expired"
  /\ UNCHANGED stream /\ KeepsLoop

----------------------------------------------------------------------------
(* The watch loop *)

Received(type) == stage = "watch" /\ channel # <<>> /\ Head(channel).type = type
Taken == channel' = Tail(channel) /\ UNCHANGED stream
HasRoom(k, objects) == Cardinality(objects[k]) < MaxObjects
Recoverable == \E k \in missed : HasRoom(k, cache)

\* apply_bounded: an upsert is admitted if the other objects leave room.
Admitted(m) == m.type = "delete" \/ Cardinality(cache[m.kind] \ {m.object}) < MaxObjects
\* Mutant: an event rejected at capacity is only logged.
MissedQuietly(m) == missed
\* mark_incomplete.
Missed(m) == missed \cup {m.kind}

ReceiveChange(type) ==
  LET m == Head(channel)
      k == m.kind
  IN /\ Received(type) /\ Taken /\ fresh' = fresh \cup {k}
     /\ IF Admitted(m)
        THEN /\ cache' = [cache EXCEPT ![k] = IF type = "upsert" THEN @ \cup {m.object}
                                              ELSE @ \ {m.object}]
             /\ stage' = "publish" /\ UNCHANGED <<missed, reported, ready, owed>>
        ELSE /\ missed' = Missed(m) /\ owed' = owed \cup {k}
             /\ Assess(Sound(fresh \cup {k}, failed, missed', published), FALSE, ready)
             /\ UNCHANGED <<cache, stage>>
     /\ UNCHANGED <<api, kept, listed, has, resume, failed, published, frozen, handoffs>>

ReceiveAlive ==
  /\ Received("alive") /\ Taken /\ fresh' = fresh \cup {Head(channel).kind}
  /\ Assess(Sound(fresh', failed, missed, published), FALSE, ready)
  /\ UNCHANGED <<api, kept, loopVars, failed, published, frozen, handoffs, owed>>

ReceiveTick ==
  /\ Received("tick") /\ Taken /\ fresh' = fresh \cup {Head(channel).kind}
  /\ stage' = "publish"
  /\ UNCHANGED <<api, kept, listed, has, cache, missed, resume, failed, reported, published, ready,
                 frozen, handoffs, owed>>

\* The loop restarts: watchers are cancelled and joined, the channel is
\* dropped.  A watcher blocked on a full channel has counted its event.
WatchersJoined ==
  /\ stage' = "pause" /\ stream' = Zero /\ channel' = <<>>
  /\ \E ahead \in SUBSET Resources :
       /\ \A k \in ahead : Len(channel) = ChannelRoom /\ stream[k] < Latest(k)
       /\ resume' = [k \in Resources |-> IF k \in ahead THEN stream[k] + 1 ELSE stream[k]]

\* An expired version: the cache is discarded.
ReceiveExpired ==
  /\ Received("expired") /\ WatchersJoined
  /\ has' = FALSE /\ missed' = {} /\ cache' = Nothing
  /\ UNCHANGED <<api, kept, listed, healthFlags, published, ready, frozen, handoffs, owed>>

\* The capacity timer, or a deletion that made room: relist.
Relist ==
  /\ stage = "watch" /\ Recoverable /\ WatchersJoined
  /\ UNCHANGED <<api, kept, listed, has, cache, missed, healthFlags, published, ready, frozen,
                 handoffs, owed>>

----------------------------------------------------------------------------
\* A handoff freezes the runtime; a failed one resumes it.
FreezeRuntime ==
  /\ handoffs < Freezes /\ ~frozen /\ frozen' = TRUE /\ handoffs' = handoffs + 1
  /\ UNCHANGED <<api, kept, loopVars, watchVars, healthFlags, published, ready, owed>>

ResumeRuntime ==
  /\ frozen /\ frozen' = FALSE
  /\ UNCHANGED <<api, kept, loopVars, watchVars, healthFlags, published, ready, handoffs, owed>>

KubernetesNext ==
  \/ \E k \in Resources :
       \/ \E o \in Objects : ApiChanges(k, o)
       \/ ApiForgets(k) \/ Silence(k)
       \/ \E v \in 1..(LastChange + 1) : ListKind(k, v)
       \/ WatchEvent(k) \/ WatchExpires(k)
       \/ \E type \in {"alive", "tick"} : WatchConfirms(k, type)
  \/ PauseEnds \/ ListFails \/ \E late \in SUBSET Resources : ListDone(late)
  \/ \E outcome \in {"unchanged", "rejected", "applied"} : Published(outcome)
  \/ \E type \in {"upsert", "delete"} : ReceiveChange(type)
  \/ ReceiveAlive \/ ReceiveTick \/ ReceiveExpired \/ Relist
  \/ FreezeRuntime \/ ResumeRuntime

KubernetesSpec == KubernetesInit /\ [][KubernetesNext]_kubeVars

----------------------------------------------------------------------------
(* Properties *)

\* The version a kind's cache should show: what its watcher has read, less
\* what is still in the channel.
Applied(k) ==
  stream[k] - Cardinality({i \in DOMAIN channel : /\ channel[i].kind = k
                                                  /\ channel[i].type \in {"upsert", "delete"}})

\* While nothing is known to be missing, every kind's cache is exactly what
\* the API server held at one version, whatever was lost in restarts and
\* failed lists.
CacheExact == Watching /\ missed = {} => \A k \in Resources : cache[k] = api[k][Applied(k)]

\* Whenever the loop waits, the runtime is ready only on the controller's
\* word, and the word is that the published snapshot is what the cache asks
\* for: neither a rejected activation nor an apply by an unhealthy controller
\* leaves it ready.
WordKept ==
  /\ stage # "publish" => (ready => reported)
  /\ stage = "watch" /\ reported => published = cache /\ ~failed

\* The controller's authority is what it says it is.
AuthorityTruthful == CacheExact /\ WordKept

\* "`false` is reported when [...] a kind's cache is incomplete": authority
\* is not claimed while an object rejected at capacity has not been relisted.
AuthorityComplete == reported => owed = {}
=============================================================================
