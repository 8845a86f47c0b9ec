------------------------- MODULE ConfigPublication -------------------------
(***************************************************************************)
(* Instances of the gateway (admin.rs `Manager`) that share one durable    *)
(* configuration authority (config_store.rs).  An administrative write is  *)
(* prepared locally, accepted in the operation journal, arbitrated by a    *)
(* compare-and-swap on (epoch, revision) and only then published; every    *)
(* instance polls the authority and adopts what it finds.                  *)
(*                                                                         *)
(* Each instance runs at most one transaction or poll at a time (the       *)
(* `writes` mutex): pc[m] is how far its holder got, and steps of other    *)
(* instances, of the store and of the lifecycle interleave at every await. *)
(***************************************************************************)
EXTENDS Integers, FiniteSets
LOCAL INSTANCE TLC

CONSTANTS
  Managers,        \* gateway processes
  Bodies,          \* routing contents of a document, opaque to this module
  Caches,          \* cache generations a submitted document may carry, and Off
  Floors,          \* cache generation floors a submitted document may carry
  Off,             \* the document does not configure a cache
  None,            \* an absent value (no epoch, no row, no failure)
  Backend,         \* "postgres" (retries once, stamps operations) or "redis"
  MaxOps,          \* accepted operations: the bound on revisions
  MaxEpochs,       \* bootstraps of an empty store
  Disruptions,     \* which faults and lifecycle events a run exercises
  MaxDisruptions   \* how many of them may happen in one behaviour

ASSUME BackendAssumption == Backend \in {"postgres", "redis"}
ASSUME BoundsAssumption ==
  MaxOps \in Nat /\ MaxEpochs \in Nat /\ MaxDisruptions \in Nat
ASSUME CachesAssumption == Caches \ {Off} \subseteq Nat /\ Floors \subseteq Nat

VARIABLES
  store,        \* the durable row, or None when the store is empty
  saved,        \* the row a backup holds, or None
  nextEpoch,    \* epochs drawn so far (each bootstrap draws a fresh one)
  history,      \* every (epoch, config) that was ever durable
  restored,     \* whether a backup was ever restored
  written,      \* the operations whose update was ever applied
  wire,         \* CAS statements sent and not yet executed
  reply,        \* the answer waiting for the transaction of m, or None
  ops,          \* the operation journal
  nextOp,       \* operations accepted so far
  life,         \* lifecycle of the process of m
  active,       \* Manager.active: the published document
  epoch,        \* Manager.authority_epoch
  ready, stopping, withdrawing, \* the atomic flags of Manager
  tcpOpen,      \* the TCP manager still accepts publications
  grace,        \* age of StoreHealth.last_confirmed
  failure,      \* StoreHealth.failure
  exported,     \* the snapshot handed to a successor while frozen
  pc, cont, obs, txn, \* the holder of `writes`: step, caller, row read, write
  budget

storeVars == <<store, saved, nextEpoch, history, restored, written>>
casVars   == <<wire, reply, ops, nextOp>>
flagVars  == <<ready, stopping, withdrawing, tcpOpen>>
healthVars == <<grace, failure>>
taskVars  == <<pc, cont, obs, txn>>
vars == <<store, saved, nextEpoch, history, restored, written, wire, reply, ops, nextOp,
          life, active, epoch, ready, stopping, withdrawing, tcpOpen, grace,
          failure, exported, pc, cont, obs, txn, budget>>

----------------------------------------------------------------------------
(* Documents, rows and the records of the protocol *)

Config == [revision : Nat, body : Bodies, cache : Nat \cup {Off}, floor : Nat]
Submission == [body : Bodies, cache : Caches, floor : Floors]
Row == [epoch : Nat, config : Config, stamp : Nat, receipts : SUBSET Nat]
OpIds == 1..MaxOps
OpStates == {"accepted", "candidate_activated", "conflict", "indeterminate"}
Op == [owner : Managers, epoch : Nat, expected : Nat, base : Config, cand : Config,
       state : OpStates]
Transport == {"unavailable", "missing", "stalled"}
Disagreement == {"invalid", "authority_changed", "rollback", "divergence",
                 "stale", "unpreparable"}
ASSUME NoneAssumption ==
  /\ None \notin Nat \cup {"poll", "precond", "conflict"} \cup Disagreement
  /\ None \notin Row \cup [config : Config, epoch : Nat \cup {None}]
  /\ Off \notin Nat
Txn == [sub : Submission \cup {None}, expected : Nat, op : 0..MaxOps, attempt : 0..2,
        uncertain : BOOLEAN]
Proposal(s, x) == [sub |-> s, expected |-> x, op |-> 0, attempt |-> 0, uncertain |-> FALSE]
NoTxn == Proposal(None, 0)

Generation(c) == IF c.cache = Off THEN 0 ELSE c.cache
Larger(a, b) == IF a >= b THEN a ELSE b

\* Raise a submitted document's generation and floor to the highest
\* generation this history has committed.
Normalize(base, s) ==
  LET floor == Larger(Larger(base.floor, s.floor), Larger(Generation(base), Generation(s)))
  IN  [revision |-> base.revision + 1, body |-> s.body, floor |-> floor,
       cache |-> IF s.cache = Off THEN Off ELSE Larger(s.cache, floor)]

Up(m) == life[m] \notin {"down", "seeding"}
Spend(kind) == kind \in Disruptions /\ budget > 0 /\ budget' = budget - 1

----------------------------------------------------------------------------
(* StoreHealth and readiness *)

\* store_failure: a disagreement withdraws readiness now, a transport failure
\* only when nothing was confirmed within the grace window.
Fail(m, reason) ==
  /\ failure' = [failure EXCEPT ![m] = reason]
  /\ ready' = [ready EXCEPT ![m] = @ /\ reason \in Transport /\ grace[m] = "fresh"]
  /\ UNCHANGED grace

\* store_confirmed: agreement restores readiness unless writes are frozen or
\* the endpoint is being withdrawn (advertise_ready).
Confirm(m) ==
  /\ grace' = [grace EXCEPT ![m] = "fresh"]
  /\ failure' = [failure EXCEPT ![m] = None]
  /\ ready' = [ready EXCEPT ![m] = @ \/ (~stopping[m] /\ ~withdrawing[m])]

\* finish_config: record what the manager observed.  The journal write itself
\* may fail, and then the row stays "accepted".
RecordOutcome(m, outcome) ==
  \E state \in {outcome} \cup (IF "journal" \in Disruptions THEN {"accepted"} ELSE {}) :
     ops' = [ops EXCEPT ![txn[m].op].state = state]

\* The transaction of m is over and `writes` is released.
Release(m) ==
  /\ pc' = [pc EXCEPT ![m] = "idle"]
  /\ cont' = [cont EXCEPT ![m] = None]
  /\ obs' = [obs EXCEPT ![m] = None]
  /\ txn' = [txn EXCEPT ![m] = NoTxn]
  /\ reply' = [reply EXCEPT ![m] = None]
  /\ UNCHANGED <<wire, nextOp>>

\* A reconciliation returns to its caller: a poll ends; a write that had to
\* catch up continues or is refused; a lost CAS is journalled as a conflict
\* only when the winner could be judged.
Return(m, ok) ==
  IF cont[m] = "precond" /\ ok
  THEN /\ pc' = [pc EXCEPT ![m] = "precond"]
       /\ cont' = [cont EXCEPT ![m] = None]
       /\ obs' = [obs EXCEPT ![m] = None]
       /\ UNCHANGED <<txn, wire, reply, ops, nextOp>>
  ELSE /\ Release(m)
       /\ IF cont[m] = "conflict"
          THEN RecordOutcome(m, IF ok THEN "conflict" ELSE "indeterminate")
          ELSE UNCHANGED ops

----------------------------------------------------------------------------
(* Startup, crash and the lifecycle controls *)

Init ==
  /\ store = None /\ saved = None /\ nextEpoch = 0 /\ history = {} /\ restored = FALSE
  /\ written = {}
  /\ wire = {} /\ reply = [m \in Managers |-> None]
  /\ ops = [o \in OpIds |-> None] /\ nextOp = 0
  /\ life = [m \in Managers |-> "down"]
  /\ active = [m \in Managers |-> None] /\ epoch = [m \in Managers |-> None]
  /\ ready = [m \in Managers |-> FALSE] /\ stopping = [m \in Managers |-> FALSE]
  /\ withdrawing = [m \in Managers |-> FALSE] /\ tcpOpen = [m \in Managers |-> FALSE]
  /\ grace = [m \in Managers |-> "never"] /\ failure = [m \in Managers |-> None]
  /\ exported = [m \in Managers |-> None]
  /\ pc = [m \in Managers |-> "idle"] /\ cont = [m \in Managers |-> None]
  /\ obs = [m \in Managers |-> None] /\ txn = [m \in Managers |-> NoTxn]
  /\ budget = MaxDisruptions

\* A process begins serving document c of authority e: not ready, not frozen.
Begin(m, c, e) ==
  /\ life' = [life EXCEPT ![m] = "serving"]
  /\ active' = [active EXCEPT ![m] = c]
  /\ epoch' = [epoch EXCEPT ![m] = e]
  /\ tcpOpen' = [tcpOpen EXCEPT ![m] = TRUE]

\* Startup reads the store and follows the document it finds.
StartLoad(m) ==
  /\ life[m] = "down"
  /\ IF store = None
     THEN life' = [life EXCEPT ![m] = "seeding"] /\ UNCHANGED <<active, epoch, tcpOpen>>
     ELSE Begin(m, store.config, store.epoch)
  /\ UNCHANGED <<storeVars, casVars, ready, stopping, withdrawing, healthVars,
                 exported, taskVars, budget>>

\* An instance that found the store empty inserts its seed unless another one
\* won in between, and follows whatever row is there afterwards.  Revisions
\* are counted from the seed's.
StartBootstrap(m, s) ==
  /\ life[m] = "seeding"
  /\ IF store = None
     THEN /\ nextEpoch < MaxEpochs
          /\ nextEpoch' = nextEpoch + 1
          /\ LET seed == [revision |-> 0, body |-> s.body, cache |-> s.cache, floor |-> s.floor]
             IN  /\ store' = [epoch |-> nextEpoch + 1, config |-> seed, stamp |-> 0,
                              receipts |-> {}]
                 /\ history' = history \cup {[epoch |-> nextEpoch + 1, config |-> seed]}
                 /\ Begin(m, seed, nextEpoch + 1)
     ELSE /\ Begin(m, store.config, store.epoch)
          /\ UNCHANGED <<store, nextEpoch, history>>
  /\ UNCHANGED <<saved, restored, written, casVars, ready, stopping, withdrawing,
                 healthVars, exported, taskVars, budget>>

\* Everything in memory is gone; statements already sent may still execute.
Gone(m) ==
  /\ life' = [life EXCEPT ![m] = "down"]
  /\ active' = [active EXCEPT ![m] = None]
  /\ epoch' = [epoch EXCEPT ![m] = None]
  /\ ready' = [ready EXCEPT ![m] = FALSE]
  /\ stopping' = [stopping EXCEPT ![m] = FALSE]
  /\ withdrawing' = [withdrawing EXCEPT ![m] = FALSE]
  /\ tcpOpen' = [tcpOpen EXCEPT ![m] = FALSE]
  /\ grace' = [grace EXCEPT ![m] = "never"]
  /\ failure' = [failure EXCEPT ![m] = None]
  /\ exported' = [exported EXCEPT ![m] = None]
  /\ Release(m)
  /\ UNCHANGED <<storeVars, ops>>

Crash(m) == Up(m) /\ Spend("crash") /\ Gone(m)

\* The drain of a retired or withdrawn process ends; in-flight writes have
\* finished (stop_updates) or are abandoned with the process.
Exit(m) == life[m] \in {"retiring", "withdrawn"} /\ ~tcpOpen[m] /\ Gone(m) /\ UNCHANGED budget

\* freeze_updates: refuse new writes at once, then wait for the writer lock.
Freeze(m) ==
  /\ life[m] = "serving" /\ Spend("freeze")
  /\ life' = [life EXCEPT ![m] = "freezing"]
  /\ stopping' = [stopping EXCEPT ![m] = TRUE]
  /\ UNCHANGED <<storeVars, casVars, active, epoch, ready, withdrawing, tcpOpen,
                 healthVars, exported, taskVars>>

\* Mutant: the export does not wait for the writer lock.
ExportWithoutLock(m) ==
  /\ life[m] = "freezing"
  /\ life' = [life EXCEPT ![m] = "frozen"]
  /\ exported' = [exported EXCEPT ![m] = [config |-> active[m], epoch |-> epoch[m]]]
  /\ UNCHANGED <<storeVars, casVars, active, epoch, flagVars, healthVars, taskVars, budget>>

\* The lock was obtained: the snapshot and its epoch are exported.
Export(m) ==
  /\ life[m] = "freezing" /\ pc[m] = "idle"
  /\ life' = [life EXCEPT ![m] = "frozen"]
  /\ exported' = [exported EXCEPT ![m] = [config |-> active[m], epoch |-> epoch[m]]]
  /\ UNCHANGED <<storeVars, casVars, active, epoch, flagVars, healthVars, taskVars, budget>>

\* Mutant: resuming forgets to lift the write freeze.
ResumeStillStopping(m) ==
  /\ life[m] = "frozen"
  /\ life' = [life EXCEPT ![m] = "serving"]
  /\ exported' = [exported EXCEPT ![m] = None]
  /\ UNCHANGED <<storeVars, casVars, active, epoch, flagVars, healthVars, taskVars, budget>>

\* resume_updates after a failed replacement: readiness of a shared-store
\* instance is left for the next confirmation.
Resume(m) ==
  /\ life[m] = "frozen"
  /\ life' = [life EXCEPT ![m] = "serving"]
  /\ stopping' = [stopping EXCEPT ![m] = FALSE]
  /\ withdrawing' = [withdrawing EXCEPT ![m] = FALSE]
  /\ exported' = [exported EXCEPT ![m] = None]
  /\ UNCHANGED <<storeVars, casVars, active, epoch, ready, tcpOpen, healthVars,
                 taskVars, budget>>

\* A replacement generation starts from the exported snapshot; an exporter of
\* an older release sends no epoch.  Its predecessor retires.
StartInherited(m, n) ==
  /\ life[m] = "down" /\ life[n] = "frozen"
  /\ \E e \in {exported[n].epoch, None} :
       /\ life' = [life EXCEPT ![m] = "serving", ![n] = "retiring"]
       /\ active' = [active EXCEPT ![m] = exported[n].config]
       /\ epoch' = [epoch EXCEPT ![m] = e]
       /\ tcpOpen' = [tcpOpen EXCEPT ![m] = TRUE]
  /\ exported' = [exported EXCEPT ![n] = None]
  /\ UNCHANGED <<storeVars, casVars, ready, stopping, withdrawing, healthVars,
                 taskVars, budget>>

\* withdraw_now on a shutdown signal.
Withdraw(m) ==
  /\ life[m] \in {"serving", "freezing", "frozen"} /\ Spend("withdraw")
  /\ life' = [life EXCEPT ![m] = "withdrawn"]
  /\ withdrawing' = [withdrawing EXCEPT ![m] = TRUE]
  /\ stopping' = [stopping EXCEPT ![m] = TRUE]
  /\ ready' = [ready EXCEPT ![m] = FALSE]
  /\ exported' = [exported EXCEPT ![m] = None]
  /\ UNCHANGED <<storeVars, casVars, active, epoch, tcpOpen, healthVars, taskVars>>

\* TcpManager::stop_accepting while a transaction may still be in flight.
StopAccepting(m) ==
  /\ life[m] \in {"retiring", "withdrawn"} /\ tcpOpen[m]
  /\ tcpOpen' = [tcpOpen EXCEPT ![m] = FALSE]
  /\ UNCHANGED <<storeVars, casVars, life, active, epoch, ready, stopping, withdrawing,
                 healthVars, exported, taskVars, budget>>

----------------------------------------------------------------------------
(* Reconciliation: one read of the authority, judged and perhaps adopted *)

Read(m, caller) ==
  /\ store # None
  /\ obs' = [obs EXCEPT ![m] = store]
  /\ pc' = [pc EXCEPT ![m] = "judge"]
  /\ cont' = [cont EXCEPT ![m] = caller]
  /\ UNCHANGED <<txn, casVars, ready, healthVars, budget>>

\* The store is empty, unreachable or unreadable; cont[m] is still None, so
\* the poll ends, or the write that had to catch up is refused.
ReadFails(m) ==
  /\ \/ store = None /\ Fail(m, "missing") /\ UNCHANGED budget
     \/ Fail(m, "unavailable") /\ Spend("unavailable")
     \/ Fail(m, "invalid") /\ Spend("invalid")
  /\ Return(m, FALSE)

Poll(m) ==
  /\ Up(m) /\ pc[m] = "idle" /\ tcpOpen[m]
  /\ Read(m, "poll") \/ ReadFails(m)
  /\ UNCHANGED <<storeVars, life, active, epoch, stopping, withdrawing, tcpOpen, exported>>

CatchUp(m) ==
  /\ pc[m] = "catchup"
  /\ Read(m, "precond") \/ ReadFails(m)
  /\ UNCHANGED <<storeVars, life, active, epoch, stopping, withdrawing, tcpOpen, exported>>

\* A fresh attachment has no epoch yet and compares no revisions.
Fresh(m) == epoch[m] = None
\* Mutants: the epoch, or an older revision, is not noticed.
ForeignUnnoticed(m) == FALSE
RollbackUnnoticed(m) == FALSE
Foreign(m) == ~Fresh(m) /\ epoch[m] # obs[m].epoch
RolledBack(m) == ~Fresh(m) /\ obs[m].config.revision < active[m].revision
Agrees(m) == obs[m].config = active[m]
Diverged(m) == ~Fresh(m) /\ obs[m].config.revision = active[m].revision

JudgeFails(m, reason) ==
  /\ Fail(m, reason) /\ Return(m, FALSE)
  /\ UNCHANGED <<storeVars, life, active, epoch, stopping, withdrawing, tcpOpen, exported, budget>>

JudgeForeign(m) ==
  pc[m] = "judge" /\ Foreign(m) /\ JudgeFails(m, "authority_changed")

JudgeRollback(m) ==
  pc[m] = "judge" /\ ~Foreign(m) /\ RolledBack(m) /\ JudgeFails(m, "rollback")

JudgeAgrees(m) ==
  /\ pc[m] = "judge" /\ ~Foreign(m) /\ ~RolledBack(m) /\ Agrees(m)
  /\ epoch' = [epoch EXCEPT ![m] = obs[m].epoch]
  /\ Confirm(m) /\ Return(m, TRUE)
  /\ UNCHANGED <<storeVars, life, active, stopping, withdrawing, tcpOpen, exported, budget>>

JudgeDiverged(m) ==
  /\ pc[m] = "judge" /\ ~Foreign(m) /\ ~RolledBack(m) /\ ~Agrees(m) /\ Diverged(m)
  /\ JudgeFails(m, "divergence")

Newer(m) == ~Foreign(m) /\ ~RolledBack(m) /\ ~Agrees(m) /\ ~Diverged(m)

JudgeFrozen(m) == pc[m] = "judge" /\ Newer(m) /\ stopping[m] /\ JudgeFails(m, "stale")

JudgeNewer(m) ==
  /\ pc[m] = "judge" /\ Newer(m) /\ ~stopping[m]
  /\ pc' = [pc EXCEPT ![m] = "adopt"]
  /\ UNCHANGED <<storeVars, casVars, life, active, epoch, flagVars, healthVars, exported,
                 cont, obs, txn, budget>>

\* The newer document was prepared and is published under the listener lock;
\* the epoch is recorded only now.
Adopt(m) ==
  /\ pc[m] = "adopt" /\ tcpOpen[m]
  /\ active' = [active EXCEPT ![m] = obs[m].config]
  /\ epoch' = [epoch EXCEPT ![m] = obs[m].epoch]
  /\ Confirm(m) /\ Return(m, TRUE)
  /\ UNCHANGED <<storeVars, life, stopping, withdrawing, tcpOpen, exported, budget>>

\* Preparation fails here although the document is the authority's.
AdoptUnpreparable(m) ==
  /\ pc[m] = "adopt" /\ (Spend("unpreparable") \/ (~tcpOpen[m] /\ UNCHANGED budget))
  /\ Fail(m, "unpreparable") /\ Return(m, FALSE)
  /\ UNCHANGED <<storeVars, life, active, epoch, stopping, withdrawing, tcpOpen, exported>>

\* commit_with_publication refuses once the listeners shut down; no failure
\* is recorded on this path.
AdoptRefused(m) ==
  /\ pc[m] = "adopt" /\ ~tcpOpen[m]
  /\ Return(m, FALSE)
  /\ UNCHANGED <<storeVars, life, active, epoch, flagVars, healthVars, exported, budget>>

\* A poll that outlives the grace window by five seconds is dropped at an
\* await: before publication, or after it while removed accept loops stop.
AbandonPoll(m) ==
  /\ cont[m] = "poll" /\ pc[m] = "adopt" /\ Spend("stall")
  /\ active' \in {active, [active EXCEPT ![m] = IF tcpOpen[m] THEN obs[m].config ELSE @]}
  /\ Fail(m, "stalled") /\ Release(m)
  /\ UNCHANGED <<storeVars, ops, life, epoch, stopping, withdrawing, tcpOpen, exported>>

\* Time passes since the last confirmation, and the watcher's own timer
\* withdraws readiness whatever the pending poll does.
GraceLapse(m) ==
  /\ grace[m] = "fresh" /\ Spend("lapse")
  /\ grace' = [grace EXCEPT ![m] = "lapsed"]
  /\ UNCHANGED <<storeVars, casVars, life, active, epoch, flagVars, failure, exported, taskVars>>

GraceTimer(m) ==
  /\ grace[m] = "lapsed" /\ ready[m] /\ tcpOpen[m]
  /\ Fail(m, "stalled")
  /\ UNCHANGED <<storeVars, casVars, life, active, epoch, stopping, withdrawing, tcpOpen,
                 exported, taskVars, budget>>

----------------------------------------------------------------------------
(* A governed administrative write *)

\* apply_inner takes `writes`; a precondition ahead of this instance, or an
\* unknown epoch, is first resolved against the authority.  The expected
\* revision is one some client has read.
ApplyBegin(m, s, x) ==
  /\ Up(m) /\ pc[m] = "idle" /\ ~stopping[m] /\ nextOp < MaxOps
  /\ txn' = [txn EXCEPT ![m] = Proposal(s, x)]
  /\ pc' = [pc EXCEPT ![m] = IF active[m].revision < x \/ Fresh(m) THEN "catchup" ELSE "precond"]
  /\ UNCHANGED <<storeVars, casVars, life, active, epoch, flagVars, healthVars, exported,
                 cont, obs, budget>>

\* Refused before acceptance: the revision differs, preparation failed, or
\* the journal is full.
ApplyRefused(m) ==
  /\ pc[m] = "precond"
  /\ active[m].revision # txn[m].expected \/ nextOp = MaxOps \/ "unpreparable" \in Disruptions
  /\ Release(m)
  /\ UNCHANGED <<storeVars, ops, life, active, epoch, flagVars, healthVars, exported, budget>>

\* Mutant: acceptance does not check the journal's capacity.
AcceptPastCapacity(m) ==
  /\ pc[m] = "precond" /\ active[m].revision = txn[m].expected
  /\ nextOp' = nextOp + 1
  /\ ops' = [ops EXCEPT ![nextOp + 1] =
               [owner |-> m, epoch |-> epoch[m], expected |-> txn[m].expected,
                base |-> active[m], cand |-> Normalize(active[m], txn[m].sub),
                state |-> "accepted"]]
  /\ wire' = wire \cup {<<nextOp + 1, 1>>}
  /\ txn' = [txn EXCEPT ![m] = [@ EXCEPT !.op = nextOp + 1, !.attempt = 1]]
  /\ pc' = [pc EXCEPT ![m] = "cas"]
  /\ UNCHANGED <<storeVars, reply, life, active, epoch, flagVars, healthVars, exported,
                 cont, obs, budget>>

\* The candidate is prepared on the active document, accepted durably in the
\* journal and sent as the guarded update.
ApplyAccept(m) ==
  /\ pc[m] = "precond" /\ active[m].revision = txn[m].expected /\ nextOp < MaxOps
  /\ nextOp' = nextOp + 1
  /\ ops' = [ops EXCEPT ![nextOp + 1] =
               [owner |-> m, epoch |-> epoch[m], expected |-> txn[m].expected,
                base |-> active[m], cand |-> Normalize(active[m], txn[m].sub),
                state |-> "accepted"]]
  /\ wire' = wire \cup {<<nextOp + 1, 1>>}
  /\ txn' = [txn EXCEPT ![m] = [@ EXCEPT !.op = nextOp + 1, !.attempt = 1]]
  /\ pc' = [pc EXCEPT ![m] = "cas"]
  /\ UNCHANGED <<storeVars, reply, life, active, epoch, flagVars, healthVars, exported,
                 cont, obs, budget>>

\* Mutant: the update is guarded by the epoch alone.
CasGuardEpochOnly(o) == store # None /\ store.epoch = ops[o].epoch

\* The guard of the update: exactly (epoch, expected), and for a stamped
\* operation no receipt of this authority at or above its sequence.
CasGuard(o) ==
  /\ store # None
  /\ store.epoch = ops[o].epoch /\ store.config.revision = ops[o].expected
  /\ Backend = "postgres" =>
       \A r \in store.receipts : ops[r].owner = ops[o].owner => r < o

CasApply(o) ==
  /\ store' = [store EXCEPT !.config = ops[o].cand,
                            !.stamp = IF Backend = "postgres" THEN o ELSE 0,
                            !.receipts = IF Backend = "postgres" THEN @ \cup {o} ELSE @]
  /\ history' = history \cup {[epoch |-> store.epoch, config |-> ops[o].cand]}
  /\ written' = written \cup {o}

\* The store executes a statement, perhaps long after its sender gave up;
\* the answer reaches the sender only while it waits for this attempt.
Execute(o, attempt) ==
  /\ <<o, attempt>> \in wire
  /\ wire' = wire \ {<<o, attempt>>}
  /\ IF CasGuard(o) THEN CasApply(o) ELSE UNCHANGED <<store, history, written>>
  /\ LET m == ops[o].owner
     IN  reply' = IF pc[m] = "cas" /\ txn[m].op = o /\ txn[m].attempt = attempt
                  THEN [reply EXCEPT ![m] = [changed |-> CasGuard(o), current |-> store]]
                  ELSE reply
  /\ UNCHANGED <<saved, nextEpoch, restored, ops, nextOp, life, active, epoch, flagVars,
                 healthVars, exported, taskVars, budget>>

\* The transaction ends without evidence: any error other than a conflict.
Unknown(m) == Release(m) /\ RecordOutcome(m, "indeterminate")

\* Mutant: the retry forgets that its first attempt was never answered.
ResendCertain(m, uncertain) ==
  /\ Backend = "postgres" /\ txn[m].attempt = 1
  /\ txn' = [txn EXCEPT ![m].attempt = 2]
  /\ wire' = wire \cup {<<txn[m].op, 2>>}
  /\ reply' = [reply EXCEPT ![m] = None]
  /\ UNCHANGED <<pc, cont, obs, ops, nextOp>>

Resend(m, uncertain) ==
  /\ Backend = "postgres" /\ txn[m].attempt = 1
  /\ txn' = [txn EXCEPT ![m] = [@ EXCEPT !.attempt = 2, !.uncertain = uncertain]]
  /\ wire' = (wire \cup {<<txn[m].op, 2>>}) \ (IF uncertain THEN {} ELSE {<<txn[m].op, 1>>})
  /\ reply' = [reply EXCEPT ![m] = None]
  /\ UNCHANGED <<pc, cont, obs, ops, nextOp>>

\* No answer in time.  PostgreSQL reconnects and sends the statement again
\* (settle: uncertain); an unsent retry, a second silence and Redis, which
\* never sends twice, leave the outcome unknown.
CasUnanswered(m) ==
  /\ pc[m] = "cas" /\ Spend("lost")
  /\ Resend(m, TRUE) \/ Unknown(m)
  /\ UNCHANGED <<storeVars, life, active, epoch, flagVars, healthVars, exported>>

\* The server answers with an error: this attempt changed nothing.
CasRejected(m) ==
  /\ pc[m] = "cas" /\ <<txn[m].op, txn[m].attempt>> \in wire /\ Spend("rejected")
  /\ \/ Resend(m, txn[m].uncertain)
     \/ /\ Backend = "redis" \/ txn[m].attempt = 2
        /\ RecordOutcome(m, "indeterminate")
        /\ wire' = wire \ {<<txn[m].op, txn[m].attempt>>}
        /\ pc' = [pc EXCEPT ![m] = "idle"] /\ txn' = [txn EXCEPT ![m] = NoTxn]
        /\ reply' = [reply EXCEPT ![m] = None]
        /\ UNCHANGED <<nextOp, cont, obs>>
  /\ UNCHANGED <<storeVars, life, active, epoch, flagVars, healthVars, exported>>

CasChanged(m) ==
  /\ pc[m] = "cas" /\ reply[m] # None /\ reply[m].changed
  /\ pc' = [pc EXCEPT ![m] = "publish"]
  /\ reply' = [reply EXCEPT ![m] = None]
  /\ UNCHANGED <<storeVars, wire, ops, nextOp, life, active, epoch, flagVars, healthVars,
                 exported, cont, obs, txn, budget>>

\* What proves that operation o is the durable document: the document itself
\* (resolve_cas), and for a stamped store also the stamp it carries.
Proves(row, o) ==
  /\ row.epoch = ops[o].epoch /\ row.config = ops[o].cand
  /\ Backend = "postgres" => row.stamp = o

\* The update changed no row.  Redis answered with the current value;
\* PostgreSQL reads it again, so the row may have moved once more.
CurrentRow(m) == IF Backend = "redis" THEN reply[m].current ELSE store

Unchanged(m) == pc[m] = "cas" /\ reply[m] # None /\ ~reply[m].changed

ResolveApplied(m) ==
  /\ Unchanged(m) /\ CurrentRow(m) # None /\ Proves(CurrentRow(m), txn[m].op)
  /\ pc' = [pc EXCEPT ![m] = "publish"]
  /\ reply' = [reply EXCEPT ![m] = None]
  /\ UNCHANGED <<storeVars, wire, ops, nextOp, life, active, epoch, flagVars, healthVars,
                 exported, cont, obs, txn, budget>>

\* The answered update lost: judge the winner the answer carries.
ResolveConflict(m) ==
  /\ Unchanged(m) /\ CurrentRow(m) # None /\ ~Proves(CurrentRow(m), txn[m].op)
  /\ ~txn[m].uncertain /\ CurrentRow(m).epoch = ops[txn[m].op].epoch
  /\ obs' = [obs EXCEPT ![m] = CurrentRow(m)]
  /\ cont' = [cont EXCEPT ![m] = "conflict"]
  /\ pc' = [pc EXCEPT ![m] = "judge"]
  /\ reply' = [reply EXCEPT ![m] = None]
  /\ UNCHANGED <<storeVars, wire, ops, nextOp, life, active, epoch, flagVars, healthVars,
                 exported, txn, budget>>

\* The conflicting row belongs to another authority.
ResolveForeign(m) ==
  /\ Unchanged(m) /\ CurrentRow(m) # None /\ ~txn[m].uncertain
  /\ CurrentRow(m).epoch # ops[txn[m].op].epoch
  /\ Fail(m, "authority_changed") /\ Unknown(m)
  /\ UNCHANGED <<storeVars, life, active, epoch, stopping, withdrawing, tcpOpen, exported, budget>>

\* Mutant: an unproven outcome is published.
UnknownIsApplied(m) ==
  /\ Unchanged(m) /\ txn[m].uncertain
  /\ pc' = [pc EXCEPT ![m] = "publish"]
  /\ reply' = [reply EXCEPT ![m] = None]
  /\ UNCHANGED <<storeVars, wire, ops, nextOp, life, active, epoch, flagVars, healthVars,
                 exported, cont, obs, txn, budget>>

\* Nothing proves the outcome: an earlier attempt may have committed, the
\* store is empty now, or the recovery read failed.
ResolveUnknown(m) ==
  /\ Unchanged(m)
  /\ \/ CurrentRow(m) = None /\ UNCHANGED budget
     \/ /\ CurrentRow(m) # None /\ txn[m].uncertain
        /\ ~Proves(CurrentRow(m), txn[m].op) /\ UNCHANGED budget
     \/ Backend = "postgres" /\ Spend("unavailable")
  /\ Unknown(m)
  /\ UNCHANGED <<storeVars, life, active, epoch, flagVars, healthVars, exported>>

\* The committed candidate is published, unless the listeners shut down
\* between the commit and its publication.
Publish(m) ==
  /\ pc[m] = "publish"
  /\ IF tcpOpen[m]
     THEN /\ active' = [active EXCEPT ![m] = ops[txn[m].op].cand]
          /\ RecordOutcome(m, "candidate_activated")
     ELSE UNCHANGED active /\ RecordOutcome(m, "indeterminate")
  /\ Release(m)
  /\ UNCHANGED <<storeVars, life, epoch, flagVars, healthVars, exported, budget>>

----------------------------------------------------------------------------
(* The operator's hand on the store *)

Backup ==
  /\ store # None /\ "restore" \in Disruptions /\ budget > 0
  /\ saved' = store
  /\ UNCHANGED <<store, nextEpoch, history, restored, written, casVars, life, active, epoch,
                 flagVars, healthVars, exported, taskVars, budget>>

\* A backup taken under the same bootstrap brings an earlier revision back.
Restore ==
  /\ saved # None /\ saved # store /\ Spend("restore")
  /\ store' = saved /\ restored' = TRUE
  /\ UNCHANGED <<saved, nextEpoch, history, written, casVars, life, active, epoch,
                 flagVars, healthVars, exported, taskVars>>

Wipe ==
  /\ store # None /\ Spend("wipe")
  /\ store' = None
  /\ UNCHANGED <<saved, nextEpoch, history, restored, written, casVars, life, active, epoch,
                 flagVars, healthVars, exported, taskVars>>

ReadRevisions == {h.config.revision : h \in history}

Lifecycle(m) ==
  \/ StartLoad(m) \/ \E s \in Submission : StartBootstrap(m, s)
  \/ \E n \in Managers : StartInherited(m, n)
  \/ Crash(m) \/ Exit(m) \/ Freeze(m) \/ Export(m) \/ Resume(m) \/ Withdraw(m)
  \/ StopAccepting(m)

Reconcile(m) ==
  \/ Poll(m) \/ CatchUp(m) \/ JudgeForeign(m) \/ JudgeRollback(m) \/ JudgeAgrees(m)
  \/ JudgeDiverged(m) \/ JudgeFrozen(m) \/ JudgeNewer(m) \/ Adopt(m)
  \/ AdoptUnpreparable(m) \/ AdoptRefused(m) \/ AbandonPoll(m)
  \/ GraceLapse(m) \/ GraceTimer(m)

Write(m) ==
  \/ \E s \in Submission, x \in ReadRevisions : ApplyBegin(m, s, x)
  \/ ApplyRefused(m) \/ ApplyAccept(m) \/ CasUnanswered(m) \/ CasRejected(m)
  \/ CasChanged(m) \/ ResolveApplied(m) \/ ResolveConflict(m) \/ ResolveForeign(m)
  \/ ResolveUnknown(m) \/ Publish(m)

Next ==
  \/ \E m \in Managers : Lifecycle(m) \/ Reconcile(m) \/ Write(m)
  \/ \E o \in OpIds, attempt \in {1, 2} : Execute(o, attempt)
  \/ Backup \/ Restore \/ Wipe

Spec == Init /\ [][Next]_vars

\* Scheduling the code guarantees: the poll loop ticks and `writes` is a fair
\* mutex, so a poll is not overtaken for ever; a started transaction runs on;
\* a request the store received is executed; a process that is down is started.
FairSpec ==
  /\ Spec
  /\ \A m \in Managers :
       /\ SF_vars(Poll(m))
       /\ WF_vars(CatchUp(m) \/ JudgeForeign(m) \/ JudgeRollback(m) \/ JudgeAgrees(m)
                  \/ JudgeDiverged(m) \/ JudgeFrozen(m) \/ JudgeNewer(m) \/ Adopt(m)
                  \/ AdoptUnpreparable(m) \/ AdoptRefused(m))
       /\ WF_vars(ApplyRefused(m) \/ ApplyAccept(m) \/ CasChanged(m) \/ ResolveApplied(m)
                  \/ ResolveConflict(m) \/ ResolveForeign(m) \/ ResolveUnknown(m) \/ Publish(m))
       /\ WF_vars(GraceTimer(m))
  /\ \A o \in OpIds, attempt \in {1, 2} : WF_vars(Execute(o, attempt))

----------------------------------------------------------------------------
(* Properties *)

StoreType ==
  /\ store \in Row \cup {None} /\ saved \in Row \cup {None}
  /\ nextEpoch \in Nat /\ restored \in BOOLEAN
  /\ history \subseteq [epoch : Nat, config : Config] /\ written \subseteq OpIds
JournalType ==
  /\ wire \subseteq OpIds \X {1, 2}
  /\ ops \in [OpIds -> Op \cup {None}] /\ nextOp \in 0..MaxOps
ProcessType ==
  /\ life \in [Managers -> {"down", "seeding", "serving", "freezing", "frozen",
                             "retiring", "withdrawn"}]
  /\ active \in [Managers -> Config \cup {None}]
  /\ epoch \in [Managers -> Nat \cup {None}]
  /\ exported \in [Managers -> [config : Config, epoch : Nat \cup {None}] \cup {None}]
FlagType ==
  /\ ready \in [Managers -> BOOLEAN] /\ stopping \in [Managers -> BOOLEAN]
  /\ withdrawing \in [Managers -> BOOLEAN] /\ tcpOpen \in [Managers -> BOOLEAN]
  /\ grace \in [Managers -> {"never", "fresh", "lapsed"}]
  /\ failure \in [Managers -> Transport \cup Disagreement \cup {None}]
  /\ budget \in Nat
TaskType ==
  /\ pc \in [Managers -> {"idle", "catchup", "judge", "adopt", "precond", "cas", "publish"}]
  /\ cont \in [Managers -> {"poll", "precond", "conflict", None}]
  /\ obs \in [Managers -> Row \cup {None}]
  /\ txn \in [Managers -> Txn]
  /\ reply \in [Managers -> [changed : BOOLEAN, current : Row \cup {None}] \cup {None}]

\* The shape of every variable: the journal never outgrows its capacity and
\* every candidate that is numbered, sent or published is a document.
TypeOK == StoreType /\ JournalType /\ ProcessType /\ FlagType /\ TaskType

\* An instance only ever serves a document that was durable under the
\* authority it follows: nothing is published before its CAS is proven, and
\* no unknown outcome is taken for a commit.
ActiveWasCommitted ==
  \A m \in Managers : Up(m) =>
     \E h \in history : h.config = active[m] /\ (epoch[m] = None \/ h.epoch = epoch[m])

\* Without a restored backup, two instances of one authority that serve the
\* same revision serve the same document, whichever acknowledgements were lost.
OneDocumentPerRevision ==
  ~restored =>
  \A m, n \in Managers :
     /\ Up(m) /\ Up(n) /\ epoch[m] # None /\ epoch[m] = epoch[n]
     /\ active[m].revision = active[n].revision
     => active[m] = active[n]

\* No lost update: a document that replaces the durable one was prepared on
\* exactly that document (restored backups aside).
BuiltOnCurrent ==
  [][\A o \in written' \ written : ~restored => ops[o].base = store.config]_vars

\* The invalidation fence of the authority never falls (restored backups
\* aside): turning the cache off, on again, or rolling the document back
\* cannot bring purged entries back.
CacheFence(c) == Larger(c.floor, Generation(c))
FenceNeverFalls ==
  [][~restored' /\ store # None /\ store' # None /\ store'.epoch = store.epoch =>
       /\ CacheFence(store'.config) >= CacheFence(store.config)
       /\ store'.config # store.config /\ store'.config.cache # Off =>
            store'.config.cache >= CacheFence(store.config)]_vars

\* Instances that follow one authority never disagree about a revision, and
\* no update is lost, an invalidation included.
NoLostUpdate == []OneDocumentPerRevision /\ BuiltOnCurrent /\ FenceNeverFalls

\* A journalled conflict is final: the operation's update was not applied
\* and never will be, even by a statement still on the wire.
ConflictNeverWritten ==
  \A o \in OpIds : ops[o] # None /\ ops[o].state = "conflict" => o \notin written

\* A journalled activation was durable under the epoch it was accepted for;
\* a store that stamps operations attests this very operation.
ActivatedWasDurable ==
  \A o \in OpIds : ops[o] # None /\ ops[o].state = "candidate_activated" =>
     /\ [epoch |-> ops[o].epoch, config |-> ops[o].cand] \in history
     /\ Backend = "postgres" => o \in written

\* What the journal says of an operation's outcome is true and stays true:
\* of conflicts and activations, whatever answers were lost and retried.
JournalTruthful == ConflictNeverWritten /\ ActivatedWasDurable

\* While it follows one authority a process never serves an older revision,
\* nor another document of the same revision.
ActiveMovesForward ==
  [][\A m \in Managers :
       life[m] # "down" /\ life'[m] # "down" /\ epoch[m] # None /\ epoch'[m] = epoch[m] =>
         active'[m] = active[m] \/ active'[m].revision > active[m].revision]_vars

\* The snapshot exported for a handoff stays the published one until the
\* replacement is decided: a transaction that passed its `stopping` check
\* before the freeze cannot publish behind the export.
HandoffSnapshotCurrent ==
  \A m \in Managers : life[m] = "frozen" => exported[m].config = active[m]

\* Readiness is only advertised by an instance that confirmed agreement, has
\* met no disagreement since, and is not being withdrawn.
ReadyJustified ==
  \A m \in Managers : ready[m] =>
     Up(m) /\ ~withdrawing[m] /\ grace[m] # "never" /\ failure[m] \notin Disagreement

\* What an instance hands over is what it serves, and what it advertises is
\* what it confirmed.
InstancesHonest == HandoffSnapshotCurrent /\ ReadyJustified

\* Once disruptions and writes end, every serving instance agrees with the
\* authority and is ready.
Converges ==
  <>[](\A m \in Managers : life[m] = "serving" =>
         ready[m] /\ store # None /\ active[m] = store.config)

\* The shared store, seen through the documents its instances serve, is the
\* authority of module Authority.
Abs == INSTANCE Authority WITH
  Instances <- Managers, Documents <- Config, None <- None, past <- history,
  current <- IF store = None THEN None ELSE [epoch |-> store.epoch, config |-> store.config],
  view <- [m \in Managers |-> IF Up(m) THEN [epoch |-> epoch[m], config |-> active[m]] ELSE None]

\* Every behaviour of the instances and their store is one of the authority.
ImplementsAuthority == Abs!ASpec

\* docs/SCALE_OUT.md on a restored backup: running instances stay unready
\* until restarted.
RollbackNeedsRestart ==
  [][\A m \in Managers : failure[m] = "rollback" /\ life'[m] # "down" => ~ready'[m]]_vars

\* Instances, and document bodies, are interchangeable.
Symmetry == Permutations(Managers) \cup Permutations(Bodies)
=============================================================================
