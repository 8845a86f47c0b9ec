--------------------------- MODULE AcmeValidations ---------------------------
(***************************************************************************)
(* How the gateway proves to an ACME server that it controls a name: the     *)
(* token of HTTP-01 and, in the second half, the orders of DNS-01.           *)
(*                                                                           *)
(* One HTTP-01 token in HttpChallengeStore (acme.rs): its local entry, the   *)
(* record the fleet answers from in the shared store, and the installations, *)
(* refreshes and removals that mutate the record in turn.  A mutation that   *)
(* outlives its caller keeps the token's lock until the store is done.       *)
(*                                                                           *)
(* The network stores give a statement up after their own timeout and report *)
(* a transport failure; such a statement may still execute (`given`), and    *)
(* the token's lock does not wait for it.                                    *)
(***************************************************************************)
EXTENDS Integers, Sequences, FiniteSets

CONSTANTS
  Removers,       \* callers of remove and cleanup_many
  Installs,       \* bound on insert calls
  Attempts,       \* SHARED_PUBLISH_ATTEMPTS
  GivenUp,        \* bound on statements a store gives up on
  ChallengeFaults \* bound on failures, timeouts and cancelled callers

ASSUME ChallengeAssumption ==
  /\ {Installs, GivenUp, ChallengeFaults} \subseteq Nat /\ Attempts \in Nat \ {0}
  /\ \A r \in Removers : r \notin Int

VARIABLES
  entry,     \* entries[key].owner, 0 for none
  inserts,   \* installations, by owner id: step and publication attempts
  cancelled, \* owners whose keepalive token is cancelled
  removal,   \* callers of remove, by step
  turns,     \* the mutation lock: its holder and, in order, those who wait
  flight,    \* the mutation the holder has in the store
  record,    \* the owner of the shared record, 0 for none
  given,     \* mutations a store gave up on that may still execute
  insertedOk, \* history: installations whose insert returned Ok
  lapsed,    \* history: the record was lost to its time to live
  late,      \* history: a given-up mutation executed after the last success
  excused,   \* history: since the last withdrawal a mutation failed or was skipped
  troubles

challengeVars == <<entry, inserts, cancelled, removal, turns, flight, record, given, insertedOk,
                   lapsed, late, excused, troubles>>

Owners == 1..Installs
Withdrawal == 0      \* the mutation that leaves no owner; a publication is its owner
NoneInFlight == -1           \* nothing in flight
Background == 0      \* the holder whose caller has gone
Issued == Len(inserts)

ChallengesInit ==
  /\ entry = 0 /\ inserts = <<>> /\ cancelled = {} /\ removal = [r \in Removers |-> "none"]
  /\ turns = <<>> /\ flight = NoneInFlight /\ record = 0 /\ given = {}
  /\ insertedOk = {} /\ lapsed = FALSE /\ late = FALSE /\ excused = FALSE /\ troubles = 0

Queued == {turns[k] : k \in DOMAIN turns}
Holds(p) == turns # <<>> /\ Head(turns) = p
Waits(p) == p \in Queued /\ ~Holds(p)
\* The lock is released, or the place in its queue given up.
Leaves(p) ==
  \/ p \notin Queued /\ UNCHANGED turns
  \/ \E k \in DOMAIN turns :
       turns[k] = p /\ turns' = SubSeq(turns, 1, k - 1) \o SubSeq(turns, k + 1, Len(turns))
Proceeds(i, step) == inserts' = [inserts EXCEPT ![i].at = step]
Trouble == troubles < ChallengeFaults /\ troubles' = troubles + 1 /\ excused' = TRUE
NoTrouble == UNCHANGED <<troubles, excused>>
store == <<record, given, lapsed, late>>

----------------------------------------------------------------------------
(* The shared store *)

Executed(op) == record' = op /\ lapsed' = (lapsed /\ op = Withdrawal)
\* publish_challenge and withdraw_challenge replace or delete the record.
Succeeds(op) == Executed(op) /\ late' = FALSE /\ UNCHANGED given
\* A failed mutation did not execute, did, or may yet.
Fails(op) ==
  \/ UNCHANGED store
  \/ Executed(op) /\ UNCHANGED <<given, late>>
  \/ /\ Cardinality(given) < GivenUp /\ given' = given \cup {op}
     /\ UNCHANGED <<record, lapsed, late>>

\* Records live for shared_ttl.
Lapse ==
  /\ record # 0 /\ record' = 0 /\ lapsed' = TRUE
  /\ UNCHANGED <<entry, inserts, cancelled, removal, turns, flight, given, insertedOk, late, excused,
                 troubles>>

GivenUpExecutes(op) ==
  /\ op \in given /\ given' = given \ {op} /\ Executed(op) /\ late' = TRUE
  /\ UNCHANGED <<entry, inserts, cancelled, removal, turns, flight, insertedOk, excused, troubles>>

----------------------------------------------------------------------------
(* insert *)

\* The entry is replaced and the previous installation stops refreshing.
InstallToken ==
  /\ Issued < Installs
  /\ LET i == Issued + 1
     IN entry' = i /\ inserts' = Append(inserts, [at |-> "installed", attempts |-> 0])
  /\ cancelled' = cancelled \cup ({entry} \ {0})
  /\ UNCHANGED <<removal, turns, flight, store, insertedOk>> /\ NoTrouble

\* MutationGuard::acquire queues; the lock is fair.
InsertQueues(i) ==
  /\ inserts[i].at = "installed" /\ Proceeds(i, "waiting") /\ turns' = Append(turns, i)
  /\ UNCHANGED <<entry, cancelled, removal, flight, store, insertedOk>> /\ NoTrouble

RollBack(i) ==
  /\ entry' = IF entry = i THEN 0 ELSE entry
  /\ cancelled' = cancelled \cup {i}

\* The turn does not come within the limit.
InsertTimesOut(i) ==
  /\ inserts[i].at = "waiting" /\ Waits(i) /\ Trouble
  /\ Leaves(i) /\ Proceeds(i, "ended") /\ RollBack(i)
  /\ UNCHANGED <<removal, flight, store, insertedOk>>

\* owns, then the first publication attempt.
InsertTurn(i) ==
  /\ inserts[i].at = "waiting" /\ Holds(i)
  /\ \/ /\ entry = i /\ flight' = i /\ UNCHANGED turns
        /\ inserts' = [inserts EXCEPT ![i] = [at |-> "publishing", attempts |-> 1]]
     \/ entry # i /\ Leaves(i) /\ Proceeds(i, "ended") /\ UNCHANGED flight
  /\ UNCHANGED <<entry, cancelled, removal, store, insertedOk>> /\ NoTrouble

\* The store acknowledged: Ok only while the installation is still current.
InsertPublished(i) ==
  /\ inserts[i].at = "publishing" /\ Succeeds(i)
  /\ flight' = NoneInFlight /\ Leaves(i)
  /\ \/ entry = i /\ Proceeds(i, "kept") /\ insertedOk' = insertedOk \cup {i}
     \/ entry # i /\ Proceeds(i, "ended") /\ UNCHANGED insertedOk
  /\ UNCHANGED <<entry, cancelled, removal>> /\ NoTrouble

\* publish_acknowledged retries a transport failure, keeping the lock.
PublishRetries(i) ==
  /\ inserts[i].at \in {"publishing", "refreshing"} /\ inserts[i].attempts < Attempts
  /\ Trouble /\ Fails(i)
  /\ inserts' = [inserts EXCEPT ![i].attempts = @ + 1]
  /\ UNCHANGED <<entry, cancelled, removal, turns, flight, insertedOk>>

\* A rejection, an overdue failure or the last attempt.
PublishFails(i) ==
  /\ inserts[i].at = "publishing" /\ Trouble /\ Fails(i)
  /\ flight' = NoneInFlight /\ Leaves(i) /\ Proceeds(i, "ended") /\ RollBack(i)
  /\ UNCHANGED <<removal, insertedOk>>

\* mutate: the caller gives up or is dropped, the mutation keeps the lock.
Detached(p) == turns' = [turns EXCEPT ![1] = Background] /\ UNCHANGED flight
PublishAbandoned(i) ==
  /\ inserts[i].at = "publishing" /\ Trouble
  /\ Detached(i) /\ Proceeds(i, "ended") /\ RollBack(i)
  /\ UNCHANGED <<removal, store, insertedOk>>

\* The order is dropped while insert waits: its entry stays for the cleanup.
InsertDropped(i) ==
  /\ inserts[i].at \in {"installed", "waiting", "publishing"} /\ Trouble
  /\ Proceeds(i, "ended")
  /\ IF inserts[i].at = "publishing" THEN Detached(i) ELSE Leaves(i) /\ UNCHANGED flight
  /\ UNCHANGED <<entry, cancelled, removal, store, insertedOk>>

\* The store completes a mutation whose caller has gone.
BackgroundCompletes ==
  /\ Holds(Background)
  /\ Succeeds(flight) \/ Fails(flight)
  /\ flight' = NoneInFlight /\ turns' = Tail(turns)
  /\ UNCHANGED <<entry, inserts, cancelled, removal, insertedOk>> /\ NoTrouble

----------------------------------------------------------------------------
(* spawn_keepalive *)

RefreshDue(i) ==
  /\ inserts[i].at = "kept" /\ i \notin cancelled
  /\ Proceeds(i, "refresh due") /\ turns' = Append(turns, i)
  /\ UNCHANGED <<entry, cancelled, removal, flight, store, insertedOk>> /\ NoTrouble

\* Cancelled, or running for longer than any order may.
KeepaliveEnds(i) ==
  /\ \/ inserts[i].at = "kept"
     \/ inserts[i].at = "refresh due" /\ Waits(i) /\ i \in cancelled
  /\ Proceeds(i, "ended") /\ Leaves(i)
  /\ UNCHANGED <<entry, cancelled, removal, flight, store, insertedOk>> /\ NoTrouble

RefreshSkipped(i) ==
  /\ inserts[i].at = "refresh due" /\ Waits(i) /\ Trouble
  /\ Leaves(i) /\ Proceeds(i, "kept")
  /\ UNCHANGED <<entry, cancelled, removal, flight, store, insertedOk>>

RefreshTurn(i) ==
  /\ inserts[i].at = "refresh due" /\ Holds(i)
  /\ \/ /\ i \notin cancelled /\ entry = i /\ flight' = i /\ UNCHANGED turns
        /\ inserts' = [inserts EXCEPT ![i] = [at |-> "refreshing", attempts |-> 1]]
     \/ /\ i \in cancelled \/ entry # i
        /\ Leaves(i) /\ Proceeds(i, "ended") /\ UNCHANGED flight
  /\ UNCHANGED <<entry, cancelled, removal, store, insertedOk>> /\ NoTrouble

\* After the refresh: sleep again; after a removal withdraw what the refresh
\* may have brought back; leave the record to a replacement.
AfterRefresh(i) ==
  \/ i \notin cancelled /\ Proceeds(i, "kept") /\ Leaves(i) /\ flight' = NoneInFlight
  \/ i \in cancelled /\ entry \in {0, i} /\ Proceeds(i, "withdrawing")
     /\ flight' = Withdrawal /\ UNCHANGED turns
  \/ i \in cancelled /\ entry \notin {0, i} /\ Proceeds(i, "ended") /\ Leaves(i) /\ flight' = NoneInFlight

Refreshed(i) ==
  /\ inserts[i].at = "refreshing"
  /\ (Succeeds(i) /\ NoTrouble) \/ (Fails(i) /\ Trouble)
  /\ AfterRefresh(i)
  /\ UNCHANGED <<entry, cancelled, removal, insertedOk>>

RefreshAbandoned(i) ==
  /\ inserts[i].at \in {"refreshing", "withdrawing"} /\ Trouble
  /\ Detached(i)
  /\ Proceeds(i, IF inserts[i].at = "refreshing" /\ i \notin cancelled THEN "kept" ELSE "ended")
  /\ UNCHANGED <<entry, cancelled, removal, store, insertedOk>>

WithdrawOutcome ==
  \/ Succeeds(Withdrawal) /\ excused' = FALSE /\ UNCHANGED troubles
  \/ Fails(Withdrawal) /\ Trouble
Rewithdrawn(i) ==
  /\ inserts[i].at = "withdrawing" /\ WithdrawOutcome
  /\ flight' = NoneInFlight /\ Leaves(i) /\ Proceeds(i, "ended")
  /\ UNCHANGED <<entry, cancelled, removal, insertedOk>>

----------------------------------------------------------------------------
(* remove and cleanup_many *)

RemoveLocal(r) ==
  /\ removal[r] = "none" /\ removal' = [removal EXCEPT ![r] = "removed"]
  /\ entry' = 0 /\ cancelled' = cancelled \cup ({entry} \ {0})
  /\ UNCHANGED <<inserts, turns, flight, store, insertedOk>> /\ NoTrouble

RemovalQueues(r) ==
  /\ removal[r] = "removed" /\ removal' = [removal EXCEPT ![r] = "waiting"]
  /\ turns' = Append(turns, r)
  /\ UNCHANGED <<entry, inserts, cancelled, flight, store, insertedOk>> /\ NoTrouble

StillRemoved == entry = 0

RemovalTurn(r) ==
  /\ removal[r] = "waiting" /\ Holds(r)
  /\ \/ /\ StillRemoved /\ flight' = Withdrawal /\ UNCHANGED turns
        /\ removal' = [removal EXCEPT ![r] = "withdrawing"]
     \/ /\ ~StillRemoved /\ Leaves(r) /\ UNCHANGED flight
        /\ removal' = [removal EXCEPT ![r] = "none"]
  /\ UNCHANGED <<entry, inserts, cancelled, store, insertedOk>> /\ NoTrouble

\* No turn within the limit, or past the deadline of the cleanup.
RemovalSkipped(r) ==
  /\ removal[r] \in {"removed", "waiting"} /\ ~Holds(r) /\ Trouble
  /\ removal' = [removal EXCEPT ![r] = "none"] /\ Leaves(r)
  /\ UNCHANGED <<entry, inserts, cancelled, flight, store, insertedOk>>

Withdrawn(r) ==
  /\ removal[r] = "withdrawing" /\ WithdrawOutcome
  /\ flight' = NoneInFlight /\ Leaves(r) /\ removal' = [removal EXCEPT ![r] = "none"]
  /\ UNCHANGED <<entry, inserts, cancelled, insertedOk>>

WithdrawalAbandoned(r) ==
  /\ removal[r] = "withdrawing" /\ Trouble
  /\ Detached(r) /\ removal' = [removal EXCEPT ![r] = "none"]
  /\ UNCHANGED <<entry, inserts, cancelled, store, insertedOk>>

ChallengesNext ==
  \/ Lapse \/ InstallToken \/ BackgroundCompletes
  \/ \E op \in given : GivenUpExecutes(op)
  \/ \E i \in 1..Issued :
       \/ InsertQueues(i) \/ InsertTimesOut(i) \/ InsertTurn(i) \/ InsertPublished(i)
       \/ PublishRetries(i) \/ PublishFails(i) \/ PublishAbandoned(i) \/ InsertDropped(i)
       \/ RefreshDue(i) \/ KeepaliveEnds(i) \/ RefreshSkipped(i) \/ RefreshTurn(i) \/ Refreshed(i)
       \/ RefreshAbandoned(i) \/ Rewithdrawn(i)
  \/ \E r \in Removers :
       \/ RemoveLocal(r) \/ RemovalQueues(r) \/ RemovalTurn(r) \/ RemovalSkipped(r)
       \/ Withdrawn(r) \/ WithdrawalAbandoned(r)

ChallengesSpec == ChallengesInit /\ [][ChallengesNext]_challengeVars

----------------------------------------------------------------------------
(* Properties *)

ChallengesTypeOK ==
  /\ entry \in 0..Issued /\ record \in 0..Issued /\ flight \in NoneInFlight..Issued
  /\ cancelled \subseteq Owners /\ insertedOk \subseteq Owners /\ given \subseteq 0..Issued
  /\ Queued \subseteq Owners \cup Removers \cup {Background}

\* An installation the issuer was told is ready, and that is still the
\* token's, is what the fleet answers until its record runs out.
Answerable ==
  entry \in insertedOk /\ ~late => record = entry \/ (record = 0 /\ lapsed)

\* A token that was removed stays out of the store once everyone had a turn:
\* no refresh brings it back.  Only a mutation that failed or was skipped
\* leaves a record behind.
StaysWithdrawn ==
  entry = 0 /\ turns = <<>> /\ ~late /\ ~excused
    /\ (\A r \in Removers : removal[r] = "none") => record = 0

\* What the shared store holds for a token follows its installation.
ChallengesSound == ChallengesTypeOK /\ Answerable /\ StaysWithdrawn

-----------------------------------------------------------------------------
(***************************************************************************)
(* One ACME order after another with DNS-01 proofs (AcmeEngine::issue in      *)
(* acme.rs), and the DNS provider's cleanup ledger: receipts of records it    *)
(* owns, cleanups that failed and wait for another try, and presentations     *)
(* whose request was dropped before its answer.  The zone is external: a      *)
(* request may execute although its answer is lost, or execute late.          *)
(***************************************************************************)

CONSTANTS Values,          \* challenge values (key authorization digests)
          Providers,       \* {"cloudflare"} or {"webhook"} or both
          CleanupAttempts, \* MAX_CLEANUP_ATTEMPTS
          CleanupCapacity, \* the bound on receipts and uncertain presentations
          MaxRecords,      \* bound on records ever created in the zone
          MaxOrders        \* bound on orders

ASSUME AcmeOrdersAssumption ==
  /\ Providers \subseteq {"cloudflare", "webhook"}
  /\ CleanupAttempts \in Nat \ {0} /\ CleanupCapacity \in Nat \ {0}
  /\ MaxRecords \in Nat \ {0} /\ MaxOrders \in Nat
  /\ IsFiniteSet(Values) /\ "foreign" \notin Values

VARIABLES
  dnsProvider, \* which provider is configured
  zone,        \* records of the zone: record id -> challenge value, 0 when absent
  created,     \* records ever created
  ownedReceipts, \* owned: ids of the provider's receipts
  deferred,    \* deferred cleanups: id -> attempts so far, 0 when none is due
  uncertain,   \* uncertain presentations: value -> attempts so far, 0 when none
  order,       \* the order: where it is, the value at hand, what it presented
  orders,      \* orders placed so far
  orderStopping, \* the operation's token is cancelled
  lateCreates, \* values whose dropped request may still execute
  orderExcused \* history: records given up on, created late or forgotten

orderVars == <<dnsProvider, zone, created, ownedReceipts, deferred, uncertain, order,
               orders, orderStopping,
               lateCreates, orderExcused>>

Ids == 1..MaxRecords
ForeignRecord == "foreign"      \* a record of the same name that is not ours

NoOrder == [at |-> "idle", value |-> ForeignRecord, held |-> {}, todo |-> {}]

OrdersInit ==
  /\ dnsProvider \in Providers
  /\ zone = [i \in Ids |-> IF i = 1 THEN {ForeignRecord} ELSE {}] /\ created = 1
  /\ ownedReceipts = {} /\ deferred = [i \in Ids |-> 0] /\ uncertain = [v \in Values |-> 0]
  /\ order = NoOrder /\ orders = 0 /\ orderStopping = FALSE
  /\ lateCreates = {} /\ orderExcused = {}

Matching(v) == {i \in Ids : zone[i] = {v}}
Pending == Cardinality({v \in Values : uncertain[v] > 0})
Step(at) == order' = [order EXCEPT !.at = at]
Ledger == <<deferred, uncertain>>

\* CleanupLedger::defer: once per record; attempts are counted from 1 here.
Deferred(ids) == [i \in Ids |-> IF i \in ids /\ deferred[i] = 0 THEN 1 ELSE deferred[i]]

\* PresentIntent::drop without confirm.
DropIntent(v) == uncertain' = [uncertain EXCEPT ![v] = IF @ = 0 THEN 1 ELSE @]

-----------------------------------------------------------------------------
(* The order. *)

\* issue: earlier cleanups are retried first, then the order is placed.
StartIssue ==
  /\ order.at = "idle" /\ orders < MaxOrders /\ ~orderStopping
  /\ Step("reconciling") /\ orders' = orders + 1
  /\ UNCHANGED <<dnsProvider, zone, created, ownedReceipts, Ledger, orderStopping, lateCreates,
                 orderExcused>>

\* The authority answers with its authorizations; the ones that are valid
\* already need no challenge.
NewOrder(pending) ==
  /\ order.at = "ordered" /\ ~orderStopping
  /\ order' = [order EXCEPT !.at = "authorizing", !.todo = pending]
  /\ UNCHANGED <<dnsProvider, zone, created, ownedReceipts, Ledger, orders, orderStopping,
                 lateCreates, orderExcused>>

\* present: capacity is reserved before the provider is touched.
BeginPresent(v) ==
  /\ order.at = "authorizing" /\ v \in order.todo /\ ~orderStopping
  /\ Cardinality(ownedReceipts) + Pending < CleanupCapacity
  /\ order' = [order EXCEPT !.at = "presenting", !.value = v, !.todo = @ \ {v}]
  /\ UNCHANGED <<dnsProvider, zone, created, ownedReceipts, Ledger, orders, orderStopping,
                 lateCreates, orderExcused>>

\* The zone takes the record, unless it has that exact one and refuses duplicates.
Creates(v) ==
  IF dnsProvider = "cloudflare" /\ Matching(v) # {}
  THEN UNCHANGED <<zone, created>>
  ELSE /\ created < MaxRecords /\ created' = created + 1
       /\ zone' = [zone EXCEPT ![created + 1] = {v}]

\* The answer names the record: its receipt is taken and the intent confirmed.
Presented ==
  /\ order.at = "presenting"
  /\ dnsProvider = "webhook" \/ Matching(order.value) = {}
  /\ Creates(order.value)
  /\ ownedReceipts' = ownedReceipts \cup {created + 1}
  /\ order' = [order EXCEPT !.at = "propagating", !.held = @ \cup {created + 1}]
  /\ UNCHANGED <<dnsProvider, Ledger, orders, orderStopping, lateCreates, orderExcused>>

\* A duplicate refusal: the one exact record is adopted, several are not.
AdoptRecord ==
  /\ order.at = "presenting" /\ dnsProvider = "cloudflare" /\ Matching(order.value) # {}
  /\ IF Cardinality(Matching(order.value)) = 1
     THEN /\ ownedReceipts' = ownedReceipts \cup Matching(order.value)
          /\ order' = [order EXCEPT !.at = "propagating", !.held = @ \cup Matching(order.value)]
          /\ UNCHANGED uncertain
     ELSE Step("failed") /\ DropIntent(order.value) /\ UNCHANGED ownedReceipts
  /\ UNCHANGED <<dnsProvider, zone, created, deferred, orders, orderStopping, lateCreates, orderExcused>>

\* Cancelled, timed out, refused or answered with something else: the record
\* may exist, may yet be created, or not; the presentation stays uncertain.
PresentDropped(outcome) ==
  /\ order.at = "presenting"
  /\ CASE outcome = "executed" -> Creates(order.value) /\ UNCHANGED lateCreates
       [] outcome = "late"     -> lateCreates' = lateCreates \cup {order.value} /\ UNCHANGED <<zone,
                                                                                               created>>
       [] OTHER                -> UNCHANGED <<zone, created, lateCreates>>
  /\ DropIntent(order.value) /\ Step("failed")
  /\ UNCHANGED <<dnsProvider, ownedReceipts, deferred, orders, orderStopping, orderExcused>>

\* A request nobody waits for reaches the provider after all.
LateCreate(v) ==
  /\ v \in lateCreates /\ lateCreates' = lateCreates \ {v}
  /\ Creates(v)
  /\ orderExcused' = IF created' # created /\ uncertain[v] = 0
                    THEN orderExcused \cup {created'} ELSE orderExcused
  /\ UNCHANGED <<dnsProvider, ownedReceipts, Ledger, order, orders, orderStopping>>

\* wait_for_txt: the resolver shows the value, and the authority is told.
Propagated ==
  /\ order.at = "propagating" /\ ~orderStopping
  /\ Matching(order.value) # {}
  /\ Step("authorizing")
  /\ UNCHANGED <<dnsProvider, zone, created, ownedReceipts, Ledger, orders, orderStopping,
                 lateCreates, orderExcused>>

\* Every challenge is ready: the order is polled, finalized and collected.
Collects ==
  /\ order.at = "authorizing" /\ order.todo = {} /\ Step("cleaning")
  /\ UNCHANGED <<dnsProvider, zone, created, ownedReceipts, Ledger, orders, orderStopping,
                 lateCreates, orderExcused>>

\* Any step before that fails, times out or sees the token.
OrderFails ==
  /\ order.at \in {"ordered", "authorizing", "propagating"} /\ Step("failed")
  /\ UNCHANGED <<dnsProvider, zone, created, ownedReceipts, Ledger, orders, orderStopping,
                 lateCreates, orderExcused>>

CancelIssue ==
  /\ ~orderStopping /\ orderStopping' = TRUE
  /\ UNCHANGED <<dnsProvider, zone, created, ownedReceipts, Ledger, order, orders, lateCreates,
                 orderExcused>>

-----------------------------------------------------------------------------
(* Cleaning up: what the order holds, and what earlier attempts left. *)

\* Mutant: a cleanup that failed is not queued for another try.
CleanupForgets(failed) == deferred

\* cleanup: every record of the order is tried once, failures are deferred.
CleanupDefers(failed) == Deferred(failed)

\* DnsProvider::cleanup of one record: only what we own, as it was presented.
Deletable(i) == i \in ownedReceipts

\* The records of ids are deleted, those of failed are not; of the deleted
\* ones `unheard` keep their receipt because the answer was lost.
Cleaned(ids, failed, unheard) ==
  /\ zone' = [i \in Ids |-> IF i \in ids \ failed /\ Deletable(i) THEN {} ELSE zone[i]]
  /\ ownedReceipts' = ownedReceipts \ (ids \ (failed \cup unheard))

CleanUp(failed, unheard) ==
  /\ order.at \in {"failed", "cleaning"} /\ failed \subseteq order.held
  /\ unheard \subseteq order.held \ failed
  /\ Cleaned(order.held, failed, unheard)
  /\ deferred' = CleanupDefers(failed \cup unheard)
  /\ order' = NoOrder
  /\ UNCHANGED <<dnsProvider, created, uncertain, orders, orderStopping, lateCreates, orderExcused>>

Busy == order.at \notin {"idle", "reconciling"}

\* run_cleanup_retries, first half: an uncertain presentation is looked up (or
\* deleted by name and value) and its records are queued for deletion.
ReconcileRecord(v) ==
  /\ ~Busy /\ uncertain[v] > 0
  /\ IF dnsProvider = "cloudflare"
     THEN ownedReceipts' = ownedReceipts \cup Matching(v) /\ deferred' = Deferred(Matching(v))
          /\ UNCHANGED zone
     ELSE zone' = [i \in Ids |-> IF i \in Matching(v) THEN {} ELSE zone[i]] /\ UNCHANGED <<ownedReceipts,
                                                                                           deferred>>
  /\ uncertain' = [uncertain EXCEPT ![v] = 0]
  /\ UNCHANGED <<dnsProvider, created, order, orders, orderStopping, lateCreates, orderExcused>>

\* fail_uncertain: given up on after the last attempt.
ReconcileFails(v) ==
  /\ ~Busy /\ uncertain[v] > 0
  /\ uncertain' = [uncertain EXCEPT ![v] = IF @ >= CleanupAttempts THEN 0 ELSE @ + 1]
  /\ orderExcused' = IF uncertain[v] >= CleanupAttempts
                    THEN orderExcused \cup Matching(v) ELSE orderExcused
  /\ UNCHANGED <<dnsProvider, zone, created, ownedReceipts, deferred, order, orders,
                 orderStopping, lateCreates>>

\* Second half: a deferred cleanup succeeds; a record already gone counts.
RetryCleanup(i) ==
  /\ ~Busy /\ deferred[i] > 0 /\ Deletable(i)
  /\ Cleaned({i}, {}, {}) /\ deferred' = [deferred EXCEPT ![i] = 0]
  /\ UNCHANGED <<dnsProvider, created, uncertain, order, orders, orderStopping, lateCreates,
                 orderExcused>>

\* fail_deferred: the receipt goes with the last attempt.  The answer may be
\* all that failed.
RetryFails(i, gone) ==
  /\ ~Busy /\ deferred[i] > 0
  /\ zone' = IF gone /\ Deletable(i) THEN [zone EXCEPT ![i] = {}] ELSE zone
  /\ IF deferred[i] >= CleanupAttempts
     THEN /\ deferred' = [deferred EXCEPT ![i] = 0] /\ ownedReceipts' = ownedReceipts \ {i}
          /\ orderExcused' = orderExcused \cup {i}
     ELSE deferred' = [deferred EXCEPT ![i] = @ + 1] /\ UNCHANGED <<ownedReceipts, orderExcused>>
  /\ UNCHANGED <<dnsProvider, created, uncertain, order, orders, orderStopping, lateCreates>>

RetriesDone ==
  /\ order.at = "reconciling" /\ Step(IF orderStopping THEN "failed" ELSE "ordered")
  /\ UNCHANGED <<dnsProvider, zone, created, ownedReceipts, Ledger, orders, orderStopping,
                 lateCreates, orderExcused>>

\* The settings changed or the process ended: a new provider has an empty ledger.
ProviderReplaced ==
  /\ order.at = "idle" /\ orderStopping' = FALSE
  /\ ownedReceipts' = {} /\ deferred' = [i \in Ids |-> 0] /\ uncertain' = [v \in Values |-> 0]
  /\ orderExcused' = orderExcused \cup {i \in Ids : zone[i] \notin {{}, {ForeignRecord}}}
  /\ UNCHANGED <<dnsProvider, zone, created, order, orders, lateCreates>>

OrdersNext ==
  \/ StartIssue \/ RetriesDone \/ Presented \/ AdoptRecord \/ Propagated \/ Collects \/ OrderFails
  \/ CancelIssue \/ ProviderReplaced
  \/ \E pending \in SUBSET Values : NewOrder(pending)
  \/ \E v \in Values : BeginPresent(v) \/ LateCreate(v) \/ ReconcileRecord(v) \/ ReconcileFails(v)
  \/ \E outcome \in {"executed", "late", "never"} : PresentDropped(outcome)
  \/ \E failed, unheard \in SUBSET order.held : CleanUp(failed, unheard)
  \/ \E i \in Ids : RetryCleanup(i) \/ \E gone \in BOOLEAN : RetryFails(i, gone)

OrdersSpec == OrdersInit /\ [][OrdersNext]_orderVars

-----------------------------------------------------------------------------
(* Properties. *)

\* Whatever is cancelled, timed out, refused or answered late (issue, cleanup,
\* PresentIntent, run_cleanup_retries): a record the provider created for us
\* stays somebody's to remove (held by the order, deferred, or uncertain) unless
\* all attempts at it failed, it appeared after it was looked for, or its ledger
\* is gone; a record that is not ours is never touched; and the bookkeeping
\* stays within its capacity.
OrdersAccounted ==
  /\ \A i \in Ids : zone[i] \notin {{}, {ForeignRecord}} =>
       \/ i \in order.held \/ deferred[i] > 0 \/ i \in orderExcused
       \/ \E v \in Values : zone[i] = {v} /\ uncertain[v] > 0
  /\ zone[1] = {ForeignRecord}
  /\ \A i \in order.held : i \in ownedReceipts
  /\ \A i \in Ids : deferred[i] > 0 /\ zone[i] # {} => i \in ownedReceipts
  /\ Cardinality(ownedReceipts) + Pending <= CleanupCapacity

\* What the issuer put into the challenge store and into DNS zones follows its
\* installations and orders, and is cleaned up or remembered (acme.rs).
ValidationsAccounted == ChallengesSound /\ OrdersAccounted
=============================================================================
