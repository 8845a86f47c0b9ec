---------------------------- MODULE ReceiptRelease ---------------------------
(***************************************************************************)
(* The operation journal of one instance (admin_users.rs), the receipts the *)
(* shared SQL store keeps for it (config_store.rs) and the release that     *)
(* lets both forget (config_receipt_release.rs): local intent, then the     *)
(* store's evidence, then the local acknowledgement that permits pruning.   *)
(* Answers are lost, statements execute late, processes crash and callers   *)
(* retry at any step.                                                       *)
(*                                                                          *)
(* Operations carry version 2 receipts; what a compare-and-swap answers is  *)
(* the subject of ConfigPublication.                                        *)
(***************************************************************************)
EXTENDS Integers, FiniteSets, FiniteSetsExt

CONSTANTS
  Releasers,     \* concurrent callers of release
  JournalRoom,   \* CONFIG_OPERATION_CAPACITY
  ReceiptRoom,   \* receipts the store keeps
  LedgerRoom,    \* release evidence the store keeps
  LastOp,        \* bound on operations
  LastRelease,   \* bound on release identities
  ReleaseFaults  \* bound on lost answers, failures and crashes

VARIABLES
  journal,    \* admin_config_operations: state and release work, by sequence
  nextSeq,    \* admin_config_operation_meta.next_id
  history,    \* admin_config_operation_meta.history_revision
  writer,     \* the operation under the writes lock, 0 for none
  receipts,   \* hangang_sequenced_receipts: pinned or not, by sequence
  highWater,  \* hangang_sequenced_authorities.high_water
  ledger,     \* hangang_receipt_releases: the receipt released, by release id
  issued,     \* release ids generated so far
  sentCas,    \* compare-and-swap statements the store may still execute
  sentRel,    \* release statements the store may still execute
  releaser,   \* callers of release
  decision,   \* what an administrator read before pruning
  mishaps

releaseVars == <<journal, nextSeq, history, writer, receipts, highWater, ledger, issued, sentCas,
                 sentRel, releaser, decision, mishaps>>

NoDecision == [latest |-> 0, history |-> 0, eligible |-> {}]
Resting == [at |-> "idle", op |-> 0, release |-> 0, acknowledged |-> FALSE]
Kept == DOMAIN journal
\* prune_config_operations deletes only settled operations whose release the
\* store acknowledged.  A failed operation is treated as a conflicting one.
\* Mutant: a prepared release is as good as an acknowledged one.
EligiblePending(o) == journal[o].state \in {"candidate_activated", "conflict"} /\ journal[o].release # 0
Eligible(o) == journal[o].state \in {"candidate_activated", "conflict"} /\ journal[o].acknowledged

ReleaseInit ==
  /\ journal = [o \in {} |-> 0] /\ nextSeq = 1 /\ history = 0 /\ writer = 0
  /\ receipts = [o \in {} |-> FALSE] /\ highWater = 0 /\ ledger = [r \in {} |-> 0] /\ issued = 0
  /\ sentCas = {} /\ sentRel = {} /\ mishaps = 0
  /\ releaser = [t \in Releasers |-> Resting] /\ decision = NoDecision

Mishap == mishaps < ReleaseFaults /\ mishaps' = mishaps + 1
storeSide == <<receipts, highWater, ledger>>

----------------------------------------------------------------------------
(* Operations and their receipts *)

\* accept_config: a full journal accepts nothing; then the update is sent.
AcceptOperation ==
  /\ writer = 0 /\ nextSeq <= LastOp /\ Cardinality(Kept) < JournalRoom
  /\ journal' = [o \in Kept \cup {nextSeq} |->
                   IF o = nextSeq THEN [state |-> "accepted", release |-> 0, acknowledged |-> FALSE]
                   ELSE journal[o]]
  /\ nextSeq' = nextSeq + 1 /\ history' = history + 1 /\ writer' = nextSeq
  /\ sentCas' = sentCas \cup {nextSeq}
  /\ UNCHANGED <<storeSide, issued, sentRel, releaser, decision, mishaps>>

\* compare_and_swap_operation_v2: a sequence at or below the high water is
\* refused, a full store refuses, another document may have won.
CasExecutes(o) ==
  /\ o \in sentCas /\ sentCas' = sentCas \ {o}
  /\ \/ /\ o > highWater /\ Cardinality(DOMAIN receipts) < ReceiptRoom
        /\ receipts' = [q \in DOMAIN receipts \cup {o} |-> IF q = o THEN TRUE ELSE receipts[q]]
        /\ highWater' = o
     \/ UNCHANGED <<receipts, highWater>>
  /\ UNCHANGED <<journal, nextSeq, history, writer, ledger, issued, sentRel, releaser, decision,
                 mishaps>>

\* finish_config: what the writer knows when its outcome is decided.
FinishOperation(state) ==
  /\ writer # 0 /\ journal[writer].state = "accepted"
  /\ \/ state = "candidate_activated" /\ writer \in DOMAIN receipts
     \/ state = "conflict" /\ writer \notin DOMAIN receipts \cup sentCas
     \/ state = "indeterminate"
  /\ journal' = [journal EXCEPT ![writer].state = state]
  /\ history' = history + 1 /\ writer' = 0
  /\ UNCHANGED <<nextSeq, storeSide, issued, sentCas, sentRel, releaser, decision, mishaps>>

----------------------------------------------------------------------------
(* release *)

\* The local row is read; without an intent the store is asked for the
\* receipt.
Begin(t, o) ==
  /\ releaser[t].at = "idle" /\ journal[o].state = "candidate_activated"
  /\ releaser' = [releaser EXCEPT ![t] =
       [Resting EXCEPT !.at = IF journal[o].release # 0 THEN "prepare" ELSE "lookup", !.op = o]]
  /\ UNCHANGED <<journal, nextSeq, history, writer, storeSide, issued, sentCas, sentRel, decision,
                 mishaps>>

LookupReceipt(t) ==
  /\ releaser[t].at = "lookup"
  /\ releaser' = IF releaser[t].op \in DOMAIN receipts
                 THEN [releaser EXCEPT ![t].at = "prepare"]
                 ELSE [releaser EXCEPT ![t] = Resting]
  /\ UNCHANGED <<journal, nextSeq, history, writer, storeSide, issued, sentCas, sentRel, decision,
                 mishaps>>

\* prepare_config_release_authorized: the durable intent, created once.
PrepareIntent(t) ==
  LET o == releaser[t].op
      takes(r, known) == [releaser EXCEPT ![t].at = "evidence", ![t].release = r,
                                          ![t].acknowledged = known]
  IN /\ releaser[t].at = "prepare"
     /\ \/ /\ o \in Kept /\ journal[o].release # 0
           /\ releaser' = takes(journal[o].release, journal[o].acknowledged)
           /\ UNCHANGED <<journal, history, issued>>
        \/ /\ o \in Kept /\ journal[o].release = 0 /\ issued < LastRelease
           /\ issued' = issued + 1 /\ history' = history + 1
           /\ journal' = [journal EXCEPT ![o].release = issued + 1]
           /\ releaser' = takes(issued + 1, FALSE)
        \/ /\ o \notin Kept /\ releaser' = [releaser EXCEPT ![t] = Resting]
           /\ UNCHANGED <<journal, history, issued>>
     /\ UNCHANGED <<nextSeq, writer, storeSide, sentCas, sentRel, decision, mishaps>>

\* lookup_receipt_release_v2: evidence already there, none for an
\* acknowledged release (an error), or the release statement is sent.
LookupEvidence(t) ==
  LET r == releaser[t].release
  IN /\ releaser[t].at = "evidence"
     /\ \/ /\ r \in DOMAIN ledger /\ ledger[r] = releaser[t].op
           /\ releaser' = [releaser EXCEPT ![t].at = "acknowledge"] /\ UNCHANGED sentRel
        \/ /\ r \notin DOMAIN ledger /\ releaser[t].acknowledged
           /\ releaser' = [releaser EXCEPT ![t] = Resting] /\ UNCHANGED sentRel
        \/ /\ r \notin DOMAIN ledger /\ ~releaser[t].acknowledged
           /\ releaser' = [releaser EXCEPT ![t].at = "sent"]
           /\ sentRel' = sentRel \cup {<<r, releaser[t].op, t>>}
     /\ UNCHANGED <<journal, nextSeq, history, writer, storeSide, issued, sentCas, decision, mishaps>>

\* The answer reaches the caller if it still waits for this statement.
Answered(t, r, step) ==
  releaser' = IF releaser[t].at # "sent" \/ releaser[t].release # r THEN releaser
              ELSE IF step = "idle" THEN [releaser EXCEPT ![t] = Resting]
              ELSE [releaser EXCEPT ![t].at = step]

\* hangang_release_receipt_v2: evidence of this very release decides; without
\* it the receipt must be pinned and the ledger have room.
ReleaseOutcome(r, o) ==
  IF r \in DOMAIN ledger THEN (IF ledger[r] = o THEN "proved" ELSE "refused")
  ELSE IF o \in DOMAIN receipts /\ receipts[o] /\ Cardinality(DOMAIN ledger) < LedgerRoom
  THEN "released" ELSE "refused"

\* release_commit_receipt_v2: evidence and unpinning in one transaction; a
\* second statement of the same release finds the evidence of the first.
ReleaseExecutes(r, o, t) ==
  LET outcome == ReleaseOutcome(r, o)
  IN /\ <<r, o, t>> \in sentRel /\ sentRel' = sentRel \ {<<r, o, t>>}
     /\ Answered(t, r, IF outcome = "refused" THEN "idle" ELSE "acknowledge")
     /\ IF outcome = "released"
        THEN /\ ledger' = [q \in DOMAIN ledger \cup {r} |-> IF q = r THEN o ELSE ledger[q]]
             /\ receipts' = [receipts EXCEPT ![o] = FALSE]
        ELSE UNCHANGED <<receipts, ledger>>
     /\ UNCHANGED <<journal, nextSeq, history, writer, highWater, issued, sentCas, decision,
                    mishaps>>

\* acknowledge_config_release: for the very work it was prepared as.
Acknowledge(t) ==
  LET o == releaser[t].op
  IN /\ releaser[t].at = "acknowledge" /\ releaser' = [releaser EXCEPT ![t] = Resting]
     /\ IF o \in Kept /\ journal[o].release = releaser[t].release /\ ~journal[o].acknowledged
        THEN /\ journal' = [journal EXCEPT ![o].acknowledged = TRUE]
             /\ history' = history + 1
        ELSE UNCHANGED <<journal, history>>
     /\ UNCHANGED <<nextSeq, writer, storeSide, issued, sentCas, sentRel, decision, mishaps>>

\* A read, a transaction or an answer fails; the caller may retry later.
ReleaseFails(t) ==
  /\ releaser[t].at # "idle" /\ Mishap
  /\ releaser' = [releaser EXCEPT ![t] = Resting]
  /\ UNCHANGED <<journal, nextSeq, history, writer, storeSide, issued, sentCas, sentRel, decision>>

\* The process dies: durable state and sent statements remain.
CrashRelease ==
  /\ Mishap /\ writer' = 0 /\ releaser' = [t \in Releasers |-> Resting]
  /\ UNCHANGED <<journal, nextSeq, history, storeSide, issued, sentCas, sentRel, decision>>

----------------------------------------------------------------------------
(* Retention *)

\* An administrator reads the journal before deciding what to prune.
ReadJournal ==
  /\ decision' = [latest |-> nextSeq - 1, history |-> history,
                  eligible |-> {o \in Kept : Eligible(o)}]
  /\ decision' # decision
  /\ UNCHANGED <<journal, nextSeq, history, writer, storeSide, issued, sentCas, sentRel, releaser,
                 mishaps>>

PruneOperations(through) ==
  LET removed == {o \in Kept : o <= through /\ Eligible(o)}
  IN /\ through \in 1..(nextSeq - 1)
     /\ decision.latest = nextSeq - 1 /\ decision.history = history
     /\ removed # {}
     /\ journal' = [o \in Kept \ removed |-> journal[o]] /\ history' = history + 1
     /\ UNCHANGED <<nextSeq, writer, storeSide, issued, sentCas, sentRel, releaser, decision, mishaps>>

ReleaseNext ==
  \/ AcceptOperation \/ CrashRelease \/ ReadJournal
  \/ \E o \in 1..LastOp : CasExecutes(o) \/ PruneOperations(o)
  \/ \E state \in {"candidate_activated", "conflict", "indeterminate"} : FinishOperation(state)
  \/ \E t \in Releasers :
       \/ \E o \in Kept : Begin(t, o)
       \/ LookupReceipt(t) \/ PrepareIntent(t) \/ LookupEvidence(t) \/ Acknowledge(t) \/ ReleaseFails(t)
  \/ \E s \in sentRel : ReleaseExecutes(s[1], s[2], s[3])

ReleaseSpec == ReleaseInit /\ [][ReleaseNext]_releaseVars

----------------------------------------------------------------------------
(* Properties *)

\* Nothing is forgotten without evidence.  A receipt is unpinned exactly when
\* one release of it is on the ledger; while its operation is in the journal
\* that release is the one a retry will look for, and an acknowledgement is
\* never ahead of it; an operation that left the journal has been released;
\* and the receipt of an operation without a known outcome stays pinned.
EvidenceKept ==
  /\ \A o \in DOMAIN receipts : ~receipts[o] <=> \E r \in DOMAIN ledger : ledger[r] = o
  /\ \A r, q \in DOMAIN ledger : ledger[r] = ledger[q] => r = q
  /\ \A r \in DOMAIN ledger : ledger[r] \in Kept => journal[ledger[r]].release = r
  /\ \A o \in Kept : journal[o].acknowledged =>
       journal[o].release \in DOMAIN ledger /\ ledger[journal[o].release] = o
  /\ \A o \in (1..(nextSeq - 1)) \ Kept : \E r \in DOMAIN ledger : ledger[r] = o
  /\ \A o \in DOMAIN receipts : o \in Kept /\ journal[o].state # "candidate_activated" => receipts[o]

\* An administrator prunes what they saw: an operation that became eligible
\* after the page was read is not removed by the decision taken on that page.
PrunedAsDecided == Kept \ DOMAIN journal' \subseteq decision.eligible

ReleaseStep == EvidenceKept' /\ PrunedAsDecided

\* Receipts, ledger and journal forget in step, and only what an administrator's
\* decision covered (release, prune_config_operations, release_sequenced_receipt).
ReleasesKept == [][ReleaseStep]_releaseVars
=============================================================================
