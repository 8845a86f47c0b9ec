---------------------------- MODULE ResponseCache ----------------------------
(***************************************************************************)
(* The response cache of one process (cache.rs) over its memory and disk    *)
(* tiers (cache_store.rs).  Requests look a key up, coalesce on one fill,   *)
(* capture what the origin answers and publish it, while the cache is       *)
(* invalidated by a local purge or by a configuration generation, and the   *)
(* process may crash and reopen the disk tier.                              *)
(*                                                                          *)
(* A stored response is the version of the origin's content it was made     *)
(* from.  Keys are namespaced by the generation, never by the local half of *)
(* the fence token.  Expiry and eviction may drop any entry at any time.    *)
(***************************************************************************)
EXTENDS Integers, FiniteSets

CONSTANTS
  Requests,        \* concurrent requests
  Targets,         \* what they ask for
  MaxFills,        \* permits of the fill semaphore
  MaxVersion,      \* changes of the origin's content
  MaxGeneration,   \* configuration generations
  MaxPurges,       \* local purges
  CacheFaults      \* crashes

ASSUME CacheBounds ==
  MaxFills \in Nat /\ MaxVersion \in Nat /\ MaxGeneration \in Nat /\ MaxPurges \in Nat
  /\ CacheFaults \in Nat /\ IsFiniteSet(Requests) /\ Targets # {}

VARIABLES
  origin,     \* the version the origin serves now
  token,      \* CacheRuntime.epoch: configuration generation and purge count
  tierGen,    \* DiskStore.generation
  memory,     \* versions in the memory tier, by key
  disk,       \* versions in the disk tier, by key
  diskMeta,   \* the generation recorded in cache_meta
  diskOpen,   \* the database connection is open
  request,    \* each request: step, key, token it captured, version it carries
  purger,     \* the purge task: "idle", "waiting" or "locked"
  adopting,   \* how far adopt_generation got: "no", "memory" or "disk"
  floor,      \* the origin's version when the last invalidation took effect
  crashes

cacheVars == <<origin, token, tierGen, memory, disk, diskMeta, diskOpen, request, purger,
               adopting, floor, crashes>>
tierVars == <<tierGen, memory, disk, diskMeta, diskOpen>>

Generations == 0..MaxGeneration
Versions == 0..MaxVersion
Nothing == -1
Keys == Targets \X Generations
Token == [generation : Generations, local : 0..MaxPurges]
\* Steps of a request; in those of Locked it holds the read side of the
\* publication lock.  `retry` marks the second lookup of a follower.
Steps == {"idle", "arrived", "lookup", "promote", "insert", "found", "missed", "following",
          "filling", "captured", "putting", "storing", "hit"}
Locked == {"lookup", "promote", "insert", "found", "putting", "storing"}
Request == [at : Steps, key : Keys, token : Token, version : Versions \cup {Nothing},
            retry : BOOLEAN]
Quiet == [at |-> "idle", key |-> <<CHOOSE t \in Targets : TRUE, 0>>,
          token |-> [generation |-> 0, local |-> 0], version |-> Nothing, retry |-> FALSE]
NoEntries == [k \in Keys |-> Nothing]

CacheInit ==
  /\ origin = 0 /\ token = [generation |-> 0, local |-> 0]
  /\ tierGen = 0 /\ memory = NoEntries /\ disk = NoEntries /\ diskMeta = 0 /\ diskOpen = FALSE
  /\ request = [r \in Requests |-> Quiet]
  /\ purger = "idle" /\ adopting = "no" /\ floor = 0 /\ crashes = 0

Current(r) == request[r].token = token
Reading(r) == request[r].at \in Locked
Goes(r, step) == request' = [request EXCEPT ![r].at = step]
Ends(r) == request' = [request EXCEPT ![r] = Quiet]
\* A lookup that found nothing: the first one may fill, a follower's second
\* one gives up.
Misses(r) == IF request[r].retry THEN Ends(r) ELSE Goes(r, "missed")

----------------------------------------------------------------------------
(* The disk tier *)

\* ensure_open: rows of another generation are dropped when the file opens.
RowsOnOpen == IF diskOpen \/ diskMeta = tierGen THEN disk ELSE NoEntries

Open(rows) == disk' = rows /\ diskOpen' = TRUE /\ diskMeta' = IF diskOpen THEN diskMeta ELSE tierGen

----------------------------------------------------------------------------
(* Lookup *)

\* The request takes the token once and builds its key from it.
Arrive(r, t) ==
  /\ request[r] = Quiet
  /\ request' = [request EXCEPT ![r] =
       [at |-> "arrived", key |-> <<t, token.generation>>, token |-> token,
        version |-> Nothing, retry |-> FALSE]]
  /\ UNCHANGED <<origin, token, tierVars, purger, adopting, floor, crashes>>

\* guarded_get waits for the read lock; a stale token bypasses.
Enter(r) ==
  /\ request[r].at = "arrived" /\ purger # "locked"
  /\ IF Current(r) THEN Goes(r, "lookup") ELSE Ends(r)
  /\ UNCHANGED <<origin, token, tierVars, purger, adopting, floor, crashes>>

\* get_if: a memory hit counts only while the token is still current.
MemoryHit(r) ==
  /\ request[r].at = "lookup" /\ memory[request[r].key] # Nothing
  /\ IF Current(r)
     THEN request' = [request EXCEPT ![r].at = "found", ![r].version = memory[request[r].key]]
     ELSE Ends(r)
  /\ UNCHANGED <<origin, token, tierVars, purger, adopting, floor, crashes>>

\* The blocking disk read.
DiskHit(r) ==
  /\ request[r].at = "lookup" /\ memory[request[r].key] = Nothing
  /\ RowsOnOpen[request[r].key] # Nothing
  /\ Open(RowsOnOpen)
  /\ request' = [request EXCEPT ![r].at = "promote", ![r].version = RowsOnOpen[request[r].key]]
  /\ UNCHANGED <<origin, token, tierGen, memory, purger, adopting, floor, crashes>>

\* Its result is promoted only under the same token ...
Promote(r) ==
  /\ request[r].at = "promote"
  /\ IF Current(r) THEN Goes(r, "insert") ELSE Ends(r)
  /\ UNCHANGED <<origin, token, tierVars, purger, adopting, floor, crashes>>

\* ... which an adoption may overtake before the memory tier's lock is taken.
Insert(r) ==
  /\ request[r].at = "insert" /\ Goes(r, "found")
  /\ memory' \in {memory, [memory EXCEPT ![request[r].key] = request[r].version]}
  /\ UNCHANGED <<origin, token, tierGen, disk, diskMeta, diskOpen, purger, adopting, floor, crashes>>

\* Mutant: what the store found is served whatever happened meanwhile.
ServeUnchecked(r) ==
  /\ request[r].at = "found" /\ Goes(r, "hit")
  /\ UNCHANGED <<origin, token, tierVars, purger, adopting, floor, crashes>>

\* guarded_get checks the token once more before the hit is returned.
Serve(r) ==
  /\ request[r].at = "found"
  /\ IF Current(r) THEN Goes(r, "hit") ELSE Ends(r)
  /\ UNCHANGED <<origin, token, tierVars, purger, adopting, floor, crashes>>

\* No entry, or the disk tier is busy or failing; an obsolete miss bypasses.
LookupMisses(r) ==
  /\ request[r].at = "lookup" /\ memory[request[r].key] = Nothing
  /\ IF Current(r) THEN Misses(r) ELSE Ends(r)
  /\ UNCHANGED <<origin, token, tierVars, purger, adopting, floor, crashes>>

----------------------------------------------------------------------------
(* Fill coalescing *)

\* A Fill owns its registration and its permit through these steps.
Held == {"filling", "captured", "putting", "storing"}
Filling(k) == {r \in Requests : request[r].at \in Held /\ request[r].key = k}
Fills == {r \in Requests : request[r].at \in Held}

Permit == Cardinality(Fills) < MaxFills

\* Under the fill table's lock: stale tokens bypass, the key's fill is
\* followed, a permit allows a new fill, otherwise the request bypasses.
Register(r) ==
  /\ request[r].at = "missed"
  /\ IF ~Current(r) THEN Ends(r)
     ELSE IF Filling(request[r].key) # {} THEN Goes(r, "following")
     ELSE IF Permit THEN Goes(r, "filling") ELSE Ends(r)
  /\ UNCHANGED <<origin, token, tierVars, purger, adopting, floor, crashes>>

\* The fill finished or 250 ms passed: look once more.
Wake(r) ==
  /\ request[r].at = "following"
  /\ request' = [request EXCEPT ![r].at = "arrived", ![r].retry = TRUE]
  /\ UNCHANGED <<origin, token, tierVars, purger, adopting, floor, crashes>>

\* The origin answers; its body is captured as of now.
Fetch(r) ==
  /\ request[r].at = "filling"
  /\ request' = [request EXCEPT ![r].at = "captured", ![r].version = origin]
  /\ UNCHANGED <<origin, token, tierVars, purger, adopting, floor, crashes>>

\* The client goes away at an await, or the capture is too large, not
\* cacheable or past its deadline: dropping the Fill ends its registration.
AbandonFill(r) ==
  /\ request[r].at \in {"arrived", "promote", "following", "filling", "captured"} /\ Ends(r)
  /\ UNCHANGED <<origin, token, tierVars, purger, adopting, floor, crashes>>

\* Fill::publish under the read lock: a stale fill stores nothing.
PublishFill(r) ==
  /\ request[r].at = "captured" /\ purger # "locked"
  /\ IF Current(r) THEN Goes(r, "putting") ELSE Ends(r)
  /\ UNCHANGED <<origin, token, tierVars, purger, adopting, floor, crashes>>

PutMemory(r) ==
  /\ request[r].at = "putting" /\ Goes(r, "storing")
  /\ memory' \in {memory, [memory EXCEPT ![request[r].key] = request[r].version]}
  /\ UNCHANGED <<origin, token, tierGen, disk, diskMeta, diskOpen, purger, adopting, floor, crashes>>

\* The disk write may be bypassed or fail; the fill ends either way.
StoreDisk(r) ==
  /\ request[r].at = "storing" /\ Ends(r)
  /\ \/ UNCHANGED <<disk, diskMeta, diskOpen>>
     \/ Open([RowsOnOpen EXCEPT ![request[r].key] = request[r].version])
  /\ UNCHANGED <<origin, token, tierGen, memory, purger, adopting, floor, crashes>>

Reply(r) ==
  /\ request[r].at = "hit" /\ Ends(r)
  /\ UNCHANGED <<origin, token, tierVars, purger, adopting, floor, crashes>>

----------------------------------------------------------------------------
(* Invalidation *)

PurgeRequested ==
  /\ purger = "idle" /\ token.local < MaxPurges /\ purger' = "waiting"
  /\ UNCHANGED <<origin, token, tierVars, request, adopting, floor, crashes>>

\* The write side of the lock: no lookup or publication is in progress.
PurgeLocked ==
  /\ purger = "waiting" /\ \A r \in Requests : ~Reading(r)
  /\ purger' = "locked"
  /\ token' = [token EXCEPT !.local = @ + 1]
  /\ memory' = NoEntries
  /\ UNCHANGED <<origin, tierGen, disk, diskMeta, diskOpen, request, adopting, floor, crashes>>

\* The disk tier is cleared, and only then is the purge reported complete.
PurgeDisk ==
  /\ purger = "locked" /\ purger' = "idle"
  /\ disk' = NoEntries /\ diskOpen' = TRUE /\ diskMeta' = tierGen
  /\ floor' = origin
  /\ UNCHANGED <<origin, token, tierGen, memory, request, adopting, crashes>>

PurgeFails ==
  /\ purger = "locked" /\ purger' = "idle"
  /\ UNCHANGED <<origin, token, tierVars, request, adopting, floor, crashes>>

\* adopt_generation: the token is switched first, without any lock.
Adopt(g) ==
  /\ adopting = "no" /\ g > token.generation
  /\ token' = [token EXCEPT !.generation = g]
  /\ adopting' = "memory" /\ floor' = origin
  /\ UNCHANGED <<origin, tierVars, request, purger, crashes>>

AdoptMemory ==
  /\ adopting = "memory" /\ adopting' = "disk"
  /\ memory' = NoEntries
  /\ UNCHANGED <<origin, token, tierGen, disk, diskMeta, diskOpen, request, purger, floor, crashes>>

\* purge_if_open: a cold database is left for its first open.  Clearing an
\* open one may fail.
AdoptDisk ==
  /\ adopting = "disk" /\ adopting' = "no"
  /\ tierGen' = token.generation
  /\ \/ diskOpen /\ disk' = NoEntries /\ diskMeta' = token.generation
     \/ UNCHANGED <<disk, diskMeta>>
  /\ UNCHANGED <<origin, token, memory, diskOpen, request, purger, floor, crashes>>

\* The process dies and is started again with the durable document, whose
\* generation never falls; the disk tier keeps its rows.
CrashCache(g) ==
  /\ crashes < CacheFaults /\ crashes' = crashes + 1 /\ g >= token.generation
  /\ token' = [generation |-> g, local |-> 0] /\ tierGen' = g
  /\ memory' = NoEntries /\ diskOpen' = FALSE
  /\ request' = [r \in Requests |-> Quiet] /\ purger' = "idle" /\ adopting' = "no"
  /\ UNCHANGED <<origin, disk, diskMeta, floor>>

\* Expiry and eviction.
Evict(k) ==
  /\ \/ memory[k] # Nothing /\ memory' = [memory EXCEPT ![k] = Nothing] /\ UNCHANGED disk
     \/ diskOpen /\ disk[k] # Nothing /\ disk' = [disk EXCEPT ![k] = Nothing] /\ UNCHANGED memory
  /\ UNCHANGED <<origin, token, tierGen, diskMeta, diskOpen, request, purger, adopting, floor, crashes>>

OriginChanges ==
  /\ origin < MaxVersion /\ origin' = origin + 1
  /\ UNCHANGED <<token, tierVars, request, purger, adopting, floor, crashes>>

CacheRequest(r) ==
  \/ \E t \in Targets : Arrive(r, t)
  \/ Enter(r) \/ MemoryHit(r) \/ DiskHit(r) \/ Promote(r) \/ Insert(r) \/ Serve(r)
  \/ LookupMisses(r)
  \/ Register(r) \/ Wake(r) \/ Fetch(r) \/ AbandonFill(r) \/ PublishFill(r) \/ PutMemory(r)
  \/ StoreDisk(r)
  \/ Reply(r)

CacheNext ==
  \/ \E r \in Requests : CacheRequest(r)
  \/ PurgeRequested \/ PurgeLocked \/ PurgeDisk \/ PurgeFails
  \/ \E g \in Generations : Adopt(g) \/ CrashCache(g)
  \/ AdoptMemory \/ AdoptDisk \/ OriginChanges
  \/ \E k \in Keys : Evict(k)

CacheSpec == CacheInit /\ [][CacheNext]_cacheVars

----------------------------------------------------------------------------
(* Properties *)

\* No request is answered from the cache with content captured before the
\* last completed invalidation: fills and disk reads that started earlier,
\* cold databases, crashes and overlapping purges included.
FreshAfterInvalidation ==
  \A r \in Requests : request[r].at # "hit" /\ request'[r].at = "hit" =>
    request'[r].version >= floor

\* One fill per key at a time, and never more fills than permits, whichever
\* of them were abandoned, followed or overtaken by an invalidation.
CoalescedFills ==
  /\ \A k \in Keys : Cardinality(Filling(k)) <= 1
  /\ Cardinality(Fills) <= MaxFills

\* A step of the cache keeps to one fill per key and serves nothing purged.
CacheStep == CoalescedFills' /\ FreshAfterInvalidation

\* The response cache answers no request with content captured before the
\* last completed invalidation, and fills a key once at a time (cache.rs,
\* cache_store.rs), whatever fills, lookups, purges, adoptions and crashes
\* overlap.
CacheCoherent == [][CacheStep]_cacheVars
=============================================================================
