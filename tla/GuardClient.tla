----------------------------- MODULE GuardClient -----------------------------
(***************************************************************************)
(* The gateway's client of the guard service: whether a client address may *)
(* use the gateway, asked per request over HTTP, the native TCP pool or    *)
(* gRPC, answered from a short cache, or read from a polled snapshot.      *)
(*                                                                         *)
(* The service is external: it holds, for each revision of its policy, a   *)
(* verdict for every address, and answers with what it holds when the      *)
(* question reaches it.  Time is a clock of whole ticks; a lifetime that   *)
(* could not read the clock stays failed (guard/lifetime.rs).              *)
(***************************************************************************)
EXTENDS Naturals, FiniteSets, Functions

CONSTANTS
    Addresses,      \* client addresses
    GuardSetups,    \* transport, whether it fails closed, and cache_ms in ticks
    AnswerTtls,     \* ttl_ms of the service's answers, in ticks
    LeaseCap,       \* the second after which no evidence counts, in ticks
    Queries,        \* requests asking the guard
    PoolSize,       \* TCP_POOL_SIZE
    CacheCapacity,  \* the 10 000 entries of the cache
    EventCapacity,  \* QUEUE, signal events waiting for the worker
    BatchSize,      \* BATCH
    IdleRetire,     \* TCP_IDLE_RETIRE
    SocketLife,     \* the 240 s a socket may live
    Validity,       \* ticks a snapshot stays valid
    MaxGuardRevision, MaxGuardClock, MaxSignals

ASSUME GuardConstants ==
    /\ GuardSetups \subseteq [transport : {"http", "tcp", "grpc", "snapshot"}, deny : BOOLEAN,
                               cache : Nat]
    /\ AnswerTtls \subseteq Nat
    /\ {LeaseCap, PoolSize, CacheCapacity, EventCapacity, BatchSize, IdleRetire,
        SocketLife, Validity, MaxGuardRevision, MaxGuardClock, MaxSignals} \subseteq Nat

VARIABLES
    guardSetup,   \* transport_mode and transport, failure_mode, cache_ms
    guardClock,
    service,      \* external: revision -> [mode, deny : SUBSET Addresses]
    guardCache,   \* Cache: revision (0 = None) and entries
    guardFloor,   \* grpc::Client.revision
    queries,      \* the requests in flight and what they got
    guardPool,    \* idle sockets, and whether the slots were closed
    guardStop,    \* "running", "cancelled", then "closed" and "cleared"
    snapshot,     \* the installed Policy, or NoSnapshot
    signals       \* events: observed, queued, in delivery, delivered, dropped, lost

guardVars == <<guardSetup, guardClock, service, guardCache, guardFloor, queries,
               guardPool, guardStop, snapshot, signals>>

-----------------------------------------------------------------------------
Newest == Cardinality(DOMAIN service)
Verdict(r, a) == IF a \in service[r].deny THEN "deny" ELSE "allow"
NoSnapshot == [rev |-> 0]
NoProof == [lease |-> FALSE]
NoAnswer == [rev |-> 0]

Unasked == [at |-> "idle", from |-> NoProof]

Least(m, n) == IF m <= n THEN m ELSE n

(* Lifetime::remaining, as a test: the query's own start, in ticks.  A     *)
(* lifetime whose clock reading once failed never remains again.           *)
Remaining(life, ttl) == ~life.failed /\ guardClock - life.start < ttl

(* RequestEvidence::bound_to and ::remaining *)
BoundTo(proof, a) ==
    /\ guardStop = "running"
    /\ proof.addr = a
    /\ guardCache.rev = proof.rev
GuardEvidenceCurrent(proof, a) ==
    /\ proof.lease
    /\ BoundTo(proof, a)
    /\ Remaining(proof.life, Least(proof.ttl, LeaseCap))

(* Config::validate, in the choices that decide the transport: a decision  *)
(* endpoint needs query mode and, unless it is loopback, mutual TLS; gRPC  *)
(* needs both.  TransportOf is what start_with_token builds from it.       *)
ConfigValid(c) ==
    /\ c.grpc => c.tcp # "none" /\ c.tls
    /\ c.tls => c.tcp # "none"
    /\ c.tcp # "none" => c.mode = "query" /\ (c.tcp = "loopback" \/ c.tls)
TransportOf(c) ==
    CASE c.mode = "snapshot" -> "snapshot"
      [] c.mode = "query" /\ c.grpc -> "grpc"
      [] c.mode = "query" /\ ~c.grpc /\ c.tcp # "none" -> "tcp"
      [] OTHER -> "http"
GuardConfigs == {c \in [mode : {"query", "snapshot"}, tcp : {"none", "loopback", "remote"},
                        tls : BOOLEAN, grpc : BOOLEAN] : ConfigValid(c)}

GuardInit ==
    /\ guardSetup \in {s \in GuardSetups : s.transport \in {TransportOf(c) : c \in GuardConfigs}}
    /\ guardClock = 0
    /\ service \in [{1} -> [mode : {"enforce"}, deny : {{}}]]
    /\ guardCache = [rev |-> 0, entries |-> [a \in {} |-> NoProof]]
    /\ guardFloor = 0
    /\ queries = [q \in Queries |-> Unasked]
    /\ guardPool = [idle |-> {}, closed |-> FALSE]
    /\ guardStop = "running"
    /\ snapshot = NoSnapshot
    /\ signals = [observed |-> 0, queued |-> 0, batch |-> 0, delivered |-> 0, dropped |-> 0,
                  lost |-> 0]

(* External: the service publishes the next revision of its policy. *)
ServicePublishes ==
    /\ Newest < MaxGuardRevision
    /\ \E m \in {"enforce", "observe"}, d \in SUBSET Addresses :
          /\ m = "observe" => d = {}
          /\ service' = [r \in 1 .. Newest + 1 |->
                            IF r <= Newest THEN service[r] ELSE [mode |-> m, deny |-> d]]
    /\ UNCHANGED <<guardSetup, guardClock, guardCache, guardFloor, queries, guardPool,
                   guardStop, snapshot, signals>>

GuardTick ==
    /\ guardClock < MaxGuardClock
    /\ guardClock' = guardClock + 1
    /\ UNCHANGED <<guardSetup, service, guardCache, guardFloor, queries, guardPool,
                   guardStop, snapshot, signals>>

-----------------------------------------------------------------------------
(* Requests.  Failed is what an admission returns when it has no answer:   *)
(* 503 under failure mode Deny, admission without evidence otherwise; an   *)
(* authorization has no open failure.                                      *)
Ended(q, status, rev, proof) ==
    [at |-> "done", use |-> q.use, addr |-> q.addr, known |-> q.known,
     status |-> status, rev |-> rev, from |-> proof]

Failed(q) ==
    Ended(q, IF q.use = "authorize" THEN "unavailable"
             ELSE IF guardSetup.deny THEN "503" ELSE "admitted", 0, NoProof)

CachedEntry(q) ==
    /\ q.use = "admit" /\ ~q.signal /\ guardSetup.cache > 0
    /\ q.addr \in DOMAIN guardCache.entries
    /\ Remaining(guardCache.entries[q.addr].proof.life, guardCache.entries[q.addr].ttl)

(* The answer of a cache hit, with the entry's own shorter ttl *)
FromCache(q) ==
    LET entry == guardCache.entries[q.addr]
    IN  Ended(q, IF entry.denied THEN "403" ELSE "admitted", entry.proof.rev,
              IF entry.denied THEN NoProof ELSE [entry.proof EXCEPT !.ttl = entry.ttl])

(* The transport a request takes: signal paths always go over HTTP *)
Way(q) == IF q.signal THEN "http" ELSE guardSetup.transport

(* admission and authorization_capture up to the exchange *)
Ask(n, use, a, signal) ==
    LET q == [at |-> "waiting", use |-> use, addr |-> a, signal |-> signal,
              answer |-> NoAnswer, sock |-> NoAnswer, known |-> guardCache.rev, from |-> NoProof,
              life |-> [start |-> guardClock, failed |-> FALSE]]
    IN  /\ queries[n].at = "idle"
        /\ guardSetup.transport # "snapshot"
        /\ use = "authorize" => ~signal
        /\ \E clockReads \in BOOLEAN :
              queries' = [queries EXCEPT ![n] =
                 IF guardStop # "running" THEN Failed(q)
                 ELSE IF CachedEntry(q) THEN FromCache(q)
                 ELSE IF ~clockReads THEN Failed(q)
                 ELSE IF Way(q) = "tcp" THEN q ELSE [q EXCEPT !.at = "sent"]]
        /\ UNCHANGED <<guardSetup, guardClock, service, guardCache, guardFloor,
                       guardPool, guardStop, snapshot, signals>>

(* TcpPool::query: a slot, then the last pooled socket young enough, the   *)
(* older ones popped on the way dropped, or a new connection.              *)
SlotsTaken == Cardinality({n \in Queries : queries[n].at = "sent" /\ Way(queries[n]) = "tcp"})
Young(s) == guardClock - s.used < IdleRetire /\ guardClock - s.made < SocketLife
LastPooled(S) == CHOOSE s \in S : \A t \in S : t.place <= s.place
TakenFrom(idle) == {s \in idle : Young(s)}

TakeSocket(n) ==
    LET young == TakenFrom(guardPool.idle)
        kept == IF young = {} THEN {}
                ELSE {s \in guardPool.idle : s.place < LastPooled(young).place}
    IN  /\ queries[n].at = "waiting"
        /\ ~guardPool.closed
        /\ SlotsTaken < PoolSize
        /\ guardPool' = [guardPool EXCEPT !.idle = kept]
        /\ queries' = [queries EXCEPT ![n].at = "sent",
                          ![n].sock = IF young = {}
                                      THEN [made |-> guardClock, used |-> guardClock, place |-> 0]
                                      ELSE LastPooled(young)]
        /\ UNCHANGED <<guardSetup, guardClock, service, guardCache, guardFloor,
                       guardStop, snapshot, signals>>

(* The service answers a question that reached it; the answer travels back *)
ServiceAnswers(n, ttl) ==
    LET q == queries[n]
    IN  /\ q.at = "sent" /\ q.answer = NoAnswer
        /\ queries' = [queries EXCEPT ![n].answer =
              [rev |-> Newest, mode |-> service[Newest].mode,
               action |-> Verdict(Newest, q.addr), ttl |-> ttl]]
        /\ UNCHANGED <<guardSetup, guardClock, service, guardCache, guardFloor,
                       guardPool, guardStop, snapshot, signals>>

(* decode: the gRPC client refuses an answer below the revision it knows,  *)
(* and raises that revision; a cancelled client returns no answer.         *)
DecodeRefuses(q) ==
    /\ Way(q) = "grpc"
    /\ q.answer.rev < guardFloor \/ guardStop # "running"

Rollback(q) == q.answer.rev < guardCache.rev

(* Cache of the answer's revision: any other revision's entries are gone *)
CacheFor(rev) ==
    IF guardCache.rev = rev THEN guardCache
    ELSE [rev |-> rev, entries |-> [a \in {} |-> NoProof]]

(* The insertion at capacity: lapsed entries go first, then it is skipped *)
Inserted(cache, q, capture, ttl) ==
    LET live == {a \in DOMAIN cache.entries :
                    Remaining(cache.entries[a].proof.life, cache.entries[a].ttl)}
        kept == IF Cardinality(DOMAIN cache.entries) >= CacheCapacity
                THEN live ELSE DOMAIN cache.entries
    IN  IF Cardinality(kept) < CacheCapacity
        THEN [cache EXCEPT !.entries =
                [a \in kept \union {q.addr} |->
                    IF a = q.addr
                    THEN [denied |-> q.answer.action = "deny", proof |-> capture, ttl |-> ttl]
                    ELSE cache.entries[a]]]
        ELSE [cache EXCEPT !.entries = Restrict(cache.entries, kept)]

(* The evidence an answer proves: RequestEvidence of this query's lifetime *)
CaptureOf(q, ttl) ==
    [lease |-> TRUE, addr |-> q.addr, rev |-> q.answer.rev, life |-> q.life, ttl |-> ttl,
     value |-> q.answer.mode]

(* admission's tail: under the cache lock, what an answer does *)
Admitted(q) ==
    LET denied == q.answer.action = "deny"
    IN  Ended(q, IF denied THEN "403" ELSE "admitted", q.answer.rev,
              IF ~denied /\ q.answer.ttl > 0 THEN CaptureOf(q, q.answer.ttl) ELSE NoProof)

(* authorization_capture's tail: a ttl of at most one lease unit *)
Authorized(q) ==
    Ended(q, IF q.answer.action = "deny" THEN "denied" ELSE q.answer.mode, q.answer.rev,
          IF q.answer.ttl > 0 THEN CaptureOf(q, Least(q.answer.ttl, LeaseCap)) ELSE NoProof)

(* The lifetime is read once with the answer; the reading may fail *)
Aged(q, reads) ==
    \/ guardStop # "running"
    \/ q.answer.ttl > 0
       /\ ~(reads /\ Remaining(q.life, IF q.use = "admit" THEN q.answer.ttl
                                       ELSE Least(q.answer.ttl, LeaseCap)))

CacheAfter(q) ==
    LET ttl == Least(guardSetup.cache, q.answer.ttl)
        cache == CacheFor(q.answer.rev)
    IN  IF q.use = "admit" /\ ~q.signal /\ ttl > 0
        THEN Inserted(cache, q, CaptureOf(q, q.answer.ttl), ttl) ELSE cache

\* Mutant: the socket is pooled without asking whether the slots were closed.
PooledAlways(q) ==
    IF Way(q) # "tcp" THEN guardPool
    ELSE [guardPool EXCEPT !.idle = @ \union
            {[made |-> q.sock.made, used |-> guardClock,
              place |-> Cardinality(guardPool.idle) + 1]}]

(* A valid frame was read: the socket goes back to the pool unless the     *)
(* slots were closed, under the idle lock the shutdown also takes.         *)
Pooled(q) ==
    IF Way(q) # "tcp" \/ guardPool.closed THEN guardPool
    ELSE [guardPool EXCEPT !.idle = @ \union
            {[made |-> q.sock.made, used |-> guardClock,
              place |-> Cardinality(guardPool.idle) + 1]}]

Receive(n) ==
    LET q == queries[n]
    IN  /\ q.at = "sent" /\ q.answer # NoAnswer
        /\ guardPool' = Pooled(q)
        /\ guardFloor' = IF Way(q) # "grpc" \/ DecodeRefuses(q) \/ q.answer.rev < guardFloor
                         THEN guardFloor ELSE q.answer.rev
        /\ \E reads \in BOOLEAN :
              /\ queries' = [queries EXCEPT ![n] =
                    IF DecodeRefuses(q) \/ Rollback(q) \/ Aged(q, reads) THEN Failed(q)
                    ELSE IF q.use = "admit" THEN Admitted(q) ELSE Authorized(q)]
              /\ guardCache' =
                    IF DecodeRefuses(q) \/ Rollback(q) THEN guardCache
                    ELSE IF Aged(q, reads) THEN CacheFor(q.answer.rev)
                    ELSE CacheAfter(q)
        /\ UNCHANGED <<guardSetup, guardClock, service, guardStop, snapshot, signals>>

(* The exchange fails: connection, handshake, frame, envelope or deadline; *)
(* or the closed semaphore refuses.  The socket is dropped, never pooled.  *)
ExchangeFails(n) ==
    /\ queries[n].at \in {"waiting", "sent"}
    /\ queries' = [queries EXCEPT ![n] = Failed(queries[n])]
    /\ UNCHANGED <<guardSetup, guardClock, service, guardCache, guardFloor, guardPool,
                   guardStop, snapshot, signals>>

(* A clock reading fails for a lifetime a holder of its capture shares *)
LifetimeFails(n) ==
    LET q == queries[n]
        dead(proof) == IF proof.lease /\ proof.life = q.from.life
                       THEN [proof EXCEPT !.life.failed = TRUE] ELSE proof
    IN  /\ q.at = "done" /\ q.from.lease /\ ~q.from.life.failed
        /\ queries' = [queries EXCEPT ![n].from.life.failed = TRUE]
        /\ guardCache' = [guardCache EXCEPT !.entries =
              [a \in DOMAIN guardCache.entries |->
                  IF a = q.from.addr /\ guardCache.entries[a].proof.rev = q.from.rev
                  THEN [guardCache.entries[a] EXCEPT !.proof = dead(@)]
                  ELSE guardCache.entries[a]]]
        /\ UNCHANGED <<guardSetup, guardClock, service, guardFloor, guardPool,
                       guardStop, snapshot, signals>>

-----------------------------------------------------------------------------
(* Shutdown: the token is cancelled, then the pool's task closes the slots *)
(* and clears the idle sockets, or the snapshot worker leaves its loop and *)
(* drops the receiver with the events still in it, uncounted.              *)
CancelGuard ==
    /\ guardStop = "running"
    /\ guardStop' = "cancelled"
    /\ UNCHANGED <<guardSetup, guardClock, service, guardCache, guardFloor, queries,
                   guardPool, snapshot, signals>>
CloseSlots ==
    /\ guardStop = "cancelled" /\ guardSetup.transport = "tcp"
    /\ guardStop' = "closed"
    /\ guardPool' = [guardPool EXCEPT !.closed = TRUE]
    /\ UNCHANGED <<guardSetup, guardClock, service, guardCache, guardFloor, queries,
                   snapshot, signals>>
StopWorker ==
    /\ guardStop = "cancelled" /\ guardSetup.transport = "snapshot" /\ signals.batch = 0
    /\ guardStop' = "closed"
    /\ signals' = [signals EXCEPT !.queued = 0, !.lost = signals.queued]
    /\ UNCHANGED <<guardSetup, guardClock, service, guardCache, guardFloor, queries,
                   guardPool, snapshot>>
ClearIdle ==
    /\ guardStop = "closed" /\ guardSetup.transport = "tcp"
    /\ guardStop' = "cleared"
    /\ guardPool' = [guardPool EXCEPT !.idle = {}]
    /\ UNCHANGED <<guardSetup, guardClock, service, guardCache, guardFloor, queries,
                   snapshot, signals>>

-----------------------------------------------------------------------------
(* Snapshot transport.  The worker polls; a snapshot that does not compile *)
(* or predates the installed one is refused and the old one kept.          *)
Compiles(s) == s.made <= guardClock /\ s.until > guardClock
Predates(s) == snapshot # NoSnapshot /\ s.made < snapshot.made

(* A replica may serve a snapshot it made earlier *)
PollSnapshot ==
    /\ guardSetup.transport = "snapshot" /\ guardStop = "running" /\ signals.batch = 0
    /\ \E r \in DOMAIN service, made \in 0 .. guardClock :
          LET s == [rev |-> r, made |-> made, until |-> made + Validity]
          IN  snapshot' = IF Compiles(s) /\ ~Predates(s) THEN s ELSE snapshot
    /\ UNCHANGED <<guardSetup, guardClock, service, guardCache, guardFloor, queries,
                   guardPool, guardStop, signals>>

(* Policy::denied *)
SnapshotDenies(a) ==
    /\ snapshot # NoSnapshot
    /\ service[snapshot.rev].mode = "enforce"
    /\ guardClock < snapshot.until
    /\ Verdict(snapshot.rev, a) = "deny"

(* observe_path: a signal path queues an event; a full queue, or one whose *)
(* receiver is gone, counts a drop.                                        *)
GuardObserved(signal) ==
    IF ~signal THEN signals
    ELSE IF signals.queued < EventCapacity /\ guardStop # "closed"
    THEN [signals EXCEPT !.observed = @ + 1, !.queued = @ + 1]
    ELSE [signals EXCEPT !.observed = @ + 1, !.dropped = @ + 1]

AdmitBySnapshot(n, a, signal) ==
    /\ queries[n].at = "idle"
    /\ guardSetup.transport = "snapshot"
    /\ signals.observed < MaxSignals
    /\ queries' = [queries EXCEPT ![n] =
          [at |-> "done", use |-> "snapshot", addr |-> a, from |-> NoProof,
           status |-> IF SnapshotDenies(a) THEN "403" ELSE "admitted"]]
    /\ signals' = IF SnapshotDenies(a) THEN signals ELSE GuardObserved(signal)
    /\ UNCHANGED <<guardSetup, guardClock, service, guardCache, guardFloor, guardPool,
                   guardStop, snapshot>>

(* worker: a batch of queued events is posted, and dropped if that fails *)
TakeBatch ==
    /\ guardSetup.transport = "snapshot" /\ guardStop = "running"
    /\ signals.batch = 0 /\ signals.queued > 0
    /\ LET n == Least(signals.queued, BatchSize)
       IN  signals' = [signals EXCEPT !.queued = @ - n, !.batch = n]
    /\ UNCHANGED <<guardSetup, guardClock, service, guardCache, guardFloor, queries,
                   guardPool, guardStop, snapshot>>
PostBatch ==
    /\ signals.batch > 0
    /\ \E delivered \in BOOLEAN :
          signals' = IF delivered
                     THEN [signals EXCEPT !.batch = 0, !.delivered = @ + signals.batch]
                     ELSE [signals EXCEPT !.batch = 0, !.dropped = @ + signals.batch]
    /\ UNCHANGED <<guardSetup, guardClock, service, guardCache, guardFloor, queries,
                   guardPool, guardStop, snapshot>>

(* The request ends and its holder lets the evidence go *)
Leave(n) ==
    /\ queries[n].at = "done"
    /\ queries' = [queries EXCEPT ![n] = Unasked]
    /\ UNCHANGED <<guardSetup, guardClock, service, guardCache, guardFloor, guardPool,
                   guardStop, snapshot, signals>>

GuardNext ==
    \/ ServicePublishes \/ GuardTick
    \/ CancelGuard \/ CloseSlots \/ ClearIdle \/ StopWorker
    \/ PollSnapshot \/ TakeBatch \/ PostBatch
    \/ \E n \in Queries :
          \/ \E a \in Addresses, signal \in BOOLEAN :
                \/ \E use \in {"admit", "authorize"} : Ask(n, use, a, signal)
                \/ AdmitBySnapshot(n, a, signal)
          \/ TakeSocket(n)
          \/ \E ttl \in AnswerTtls : ServiceAnswers(n, ttl)
          \/ Receive(n)
          \/ ExchangeFails(n)
          \/ LifetimeFails(n)
          \/ Leave(n)

-----------------------------------------------------------------------------
(* The client never forgets a revision it has learnt and never acts on an  *)
(* older one.  A request that got an answer, whether from the cache or the *)
(* service, got one of a revision no older than what the gateway knew when *)
(* it asked, and the verdict that revision gives its address; a request    *)
(* admitted without an answer was admitted by the failure mode alone;      *)
(* evidence that still counts is of the newest revision known; the pool    *)
(* holds no more sockets than slots, and none once it was cleared; and     *)
(* every signal is queued, in delivery, delivered or counted as dropped,   *)
(* and only the end of the worker loses what it had not yet taken.         *)
(* (TcpPool::query, RequestEvidence::bound_to, admission,                  *)
(* authorization_capture, install, worker)                                 *)
GuardSound ==
    /\ \A n \in Queries : LET q == queries[n] IN
          /\ (q.at = "done" /\ q.use # "snapshot" /\ q.rev > 0) =>
                /\ q.rev >= q.known
                /\ q.status \in {"403", "denied"} <=> Verdict(q.rev, q.addr) = "deny"
          /\ (q.at = "done" /\ q.use = "admit" /\ q.rev = 0) =>
                q.status = IF guardSetup.deny THEN "503" ELSE "admitted"
          /\ (q.from.lease /\ GuardEvidenceCurrent(q.from, q.addr)) =>
                /\ \A a \in DOMAIN guardCache.entries :
                      guardCache.entries[a].proof.rev = q.from.rev
                /\ \A m \in Queries :
                      (queries[m].at = "done" /\ queries[m].use # "snapshot")
                          => queries[m].rev <= q.from.rev
    /\ \A a \in DOMAIN guardCache.entries :
          /\ guardCache.entries[a].proof.rev = guardCache.rev
          /\ guardCache.entries[a].denied <=> Verdict(guardCache.rev, a) = "deny"
    /\ Cardinality(guardPool.idle) + SlotsTaken <= PoolSize
    /\ guardStop = "cleared" => guardPool.idle = {}
    /\ signals.observed = signals.queued + signals.batch + signals.delivered
                           + signals.dropped + signals.lost
    /\ signals.lost > 0 => guardStop = "closed" /\ signals.lost <= EventCapacity
=============================================================================
