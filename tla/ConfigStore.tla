----------------------------- MODULE ConfigStore -----------------------------
(***************************************************************************)
(* The SQL configuration store of src/src/config_store.rs: the one document  *)
(* row, its legacy upgrade, unconditional and identified compare-and-swap,   *)
(* the retained receipts, and the PostgreSQL client that resends a statement *)
(* whose answer it did not see.  ConfigPublication models the instances      *)
(* above the store and the sequenced swap; ReceiptRelease the release of     *)
(* sequenced receipts.  Here the question is whether what a call reports is  *)
(* what happened, with other writers, an older program version, a lost or    *)
(* late statement, a reseeded row and a restored backup.                     *)
(***************************************************************************)
EXTENDS Naturals, Sequences, FiniteSets

CONSTANTS Writers,          \* one call of compare_and_swap or bootstrap each
          StoreKinds,       \* kinds of call considered
          Operations,       \* operation identities, also naming the document
          ReceiptCapacity,  \* COMMIT_RECEIPT_CAPACITY
          MaxStoreRevision, MaxStoreEpoch, MaxSequence

ASSUME ConfigStoreAssumption ==
  /\ StoreKinds \subseteq {"plain", "identified", "old", "seed"}
  /\ Operations \subseteq Nat \ {0}
  /\ ReceiptCapacity \in Nat /\ MaxStoreRevision \in Nat /\ MaxStoreEpoch \in Nat /\ MaxSequence \in Nat

VARIABLES
  row,        \* hangang_config: epoch, revision, document, stamp
  receipts,   \* hangang_commit_receipts
  sequenced,  \* hangang_sequenced_receipts: acceptance sequence numbers
  highWater,  \* hangang_sequenced_authorities.high_water
  stored,     \* hangang_commit_receipt_meta.stored_records
  backup,     \* a backup that may be restored: the whole database
  epochs,     \* epochs handed out so far
  durable,    \* every <<epoch, revision, document>> that was ever the row
  writer,     \* the calls
  export      \* a paged reading of the sequenced receipts

configStoreVars == <<row, receipts, sequenced, highWater, stored, backup, epochs, durable, writer,
                     export>>
database  == <<row, receipts, sequenced, highWater, stored>>

Legacy   == 0     \* the empty epoch of a row written before epochs
NoStamp  == 0
Sequenced  == 99    \* the document and stamp of a sequenced commit
NoRow    == [epoch |-> 0, revision |-> 0, document |-> 0, stamp |-> 0]
Present  == row.revision > 0

\* The document of operation o is o; a seeded or foreign document is 0.
FreshEpoch == epochs + 1

Idle(kind, op) ==
  [kind |-> kind, op |-> op, pc |-> "start", load |-> "select", epoch |-> 0, expected |-> 0, document |-> 0,
   late |-> FALSE, sends |-> 0, uncertain |-> FALSE, committed |-> FALSE, result |-> "none"]

\* A seed carries no operation identity; the others are numbered as they are
\* used, since one operation is like another.
StoreCalls == {Idle(k, o) : k \in StoreKinds \ {"seed"}, o \in Operations}
              \cup {Idle(k, 0) : k \in StoreKinds \cap {"seed"}}

NothingExported == [open |-> FALSE, limit |-> 0, snapshot |-> 0, after |-> 0, got |-> <<>>, more |-> TRUE,
             answer |-> "none", across |-> FALSE]

StoreInit ==
  /\ row \in {NoRow, [NoRow EXCEPT !.revision = 1], [NoRow EXCEPT !.epoch = 1, !.revision = 1]}
  /\ receipts = {} /\ sequenced = {1, 2} /\ highWater = 2 /\ stored = 2
  /\ epochs = row.epoch /\ backup = <<>>
  /\ durable = IF Present THEN {<<row.epoch, row.revision, row.document>>} ELSE {}
  /\ writer \in [Writers -> StoreCalls]
  /\ \A w \in Writers : writer[w].op > 1 => \E v \in Writers : writer[v].op = writer[w].op - 1
  /\ export = NothingExported

WriterMoves(w, next) == writer' = [writer EXCEPT ![w] = next]
Written(next) == row' = next /\ durable' = durable \cup {<<next.epoch, next.revision, next.document>>}

-----------------------------------------------------------------------------
(* load_stored: a legacy row gets its epoch once, then is read again whole;  *)
(* load_stored_with_proof reads the row once more, with its stamp.           *)

LegacyRow == Present /\ row.epoch = Legacy

WithProof(w) == writer[w].pc \in {"proven", "capacity", "current"}
Loading(w) ==
  \/ writer[w].pc = "start" /\ writer[w].kind # "seed"
  \/ writer[w].pc = "read" /\ writer[w].kind # "identified"
  \/ WithProof(w)

\* The reading that decides: the first that finds no legacy row, or the one
\* behind the upgrade; with a proof, always the second.
Decides(w) ==
  /\ Loading(w) /\ (Present => row.epoch # Legacy)
  /\ \/ writer[w].load = "proof"
     \/ ~WithProof(w) /\ (writer[w].load = "select" \/ (writer[w].load = "reread" /\ Present))

\* What the first SELECT, and the whole row behind an upgrade, lead to.
LoadRow(w) ==
  /\ Loading(w)
  /\ \/ /\ writer[w].load = "select" /\ LegacyRow
        /\ WriterMoves(w, [writer[w] EXCEPT !.load = "upgrade",
                             !.document = IF writer[w].pc = "start" THEN row.document ELSE @])
     \/ /\ WithProof(w) /\ ~LegacyRow
        /\ writer[w].load = "select" \/ (writer[w].load = "reread" /\ Present)
        /\ WriterMoves(w, [writer[w] EXCEPT !.load = "proof"])
  /\ UNCHANGED <<database, backup, epochs, durable, export>>

\* UPDATE ... SET epoch WHERE epoch = '': one winner among concurrent upgraders.
UpgradeEpoch(w) ==
  /\ Loading(w) /\ writer[w].load = "upgrade"
  /\ WriterMoves(w, [writer[w] EXCEPT !.load = "reread"])
  /\ IF LegacyRow
     THEN epochs < MaxStoreEpoch /\ epochs' = FreshEpoch /\ Written([row EXCEPT !.epoch = FreshEpoch])
     ELSE UNCHANGED <<row, epochs, durable>>
  /\ UNCHANGED <<receipts, sequenced, highWater, stored, backup, export>>

Concluded(w, result) == [writer[w] EXCEPT !.pc = "done", !.result = result]

\* check_epoch: a row that vanished, or that a restore made legacy again,
\* between two readings of one load.
UnreadableRow(w) ==
  /\ Loading(w)
  /\ \/ writer[w].load = "reread" /\ ~Present
     \/ writer[w].load \in {"reread", "proof"} /\ LegacyRow
  /\ WriterMoves(w, Concluded(w, IF writer[w].uncertain THEN "indeterminate" ELSE "invalid"))
  /\ UNCHANGED <<database, backup, epochs, durable, export>>

\* Mutant: the upgraded epoch is paired with the document read before it.
RereadEpochOnly(w) ==
  [writer[w] EXCEPT !.pc = "ready", !.epoch = row.epoch, !.expected = row.revision,
                    !.document = IF writer[w].load = "reread" THEN @ ELSE row.document]

Reread(w) ==
  [writer[w] EXCEPT !.pc = "ready", !.epoch = row.epoch, !.expected = row.revision,
                    !.document = row.document]

ReadRow(w) ==
  /\ writer[w].pc = "start" /\ Decides(w) /\ Present
  /\ WriterMoves(w, [Reread(w) EXCEPT !.load = "select"])
  /\ UNCHANGED <<database, backup, epochs, durable, export>>

-----------------------------------------------------------------------------
(* The statements.  Each is one atomic statement of the server. *)

Guarded(w) == Present /\ row.revision = writer[w].expected /\ row.epoch = writer[w].epoch

NextRow(w, stamp) ==
  [epoch |-> row.epoch, revision |-> row.revision + 1, document |-> writer[w].op, stamp |-> stamp]

Receipt(w) == [op |-> writer[w].op, epoch |-> writer[w].epoch, revision |-> writer[w].expected + 1]

ReceiptsOf(w) == {r \in receipts : r.op = writer[w].op}

\* The WHERE clause of the statement.  An older version's UPDATE knows neither
\* stamps nor write generations: the trigger hangang_stamped_write_generation
\* refuses it on a stamped row.
Applies(w) ==
  IF writer[w].kind = "seed" THEN ~Present /\ epochs < MaxStoreEpoch
  ELSE /\ Guarded(w) /\ row.revision < MaxStoreRevision
       /\ writer[w].kind = "old" => row.stamp = NoStamp
       /\ writer[w].kind = "identified" =>
            row.stamp # writer[w].op /\ ReceiptsOf(w) = {} /\ stored < ReceiptCapacity

\* compare_and_swap clears the stamp of the operation it replaces.
PlainSwap(w) ==
  /\ Written(NextRow(w, NoStamp))
  /\ UNCHANGED <<receipts, sequenced, highWater, stored, epochs>>

\* The older version's leaves the columns it does not know as they are.
OldSwap(w) ==
  /\ Written(NextRow(w, row.stamp))
  /\ UNCHANGED <<receipts, sequenced, highWater, stored, epochs>>

\* compare_and_swap_operation: document, stamp, receipt and count together.
IdentifiedSwap(w) ==
  /\ Written(NextRow(w, writer[w].op))
  /\ receipts' = receipts \cup {Receipt(w)} /\ stored' = stored + 1
  /\ UNCHANGED <<sequenced, highWater, epochs>>

\* bootstrap: INSERT ... ON CONFLICT DO NOTHING.
SeedRow(w) ==
  /\ epochs' = FreshEpoch
  /\ Written([NoRow EXCEPT !.epoch = FreshEpoch, !.revision = 1])
  /\ UNCHANGED <<receipts, sequenced, highWater, stored>>

Statement(w) ==
  CASE writer[w].kind = "plain"      -> PlainSwap(w)
    [] writer[w].kind = "old"        -> OldSwap(w)
    [] writer[w].kind = "identified" -> IdentifiedSwap(w)
    [] writer[w].kind = "seed"       -> SeedRow(w)

Sendable(w) == writer[w].pc = "ready" \/ (writer[w].pc = "start" /\ writer[w].kind = "seed")

\* run: the answer arrives.  A changed row is our document, whatever became
\* of an earlier attempt; an unchanged one is looked into.
Answered(w) ==
  /\ Sendable(w) \/ writer[w].pc = "resend"
  /\ IF Applies(w)
     THEN /\ Statement(w)
          /\ WriterMoves(w, [writer[w] EXCEPT !.pc = IF @ = "start" \/ writer[w].kind = "seed"
                                            THEN "read" ELSE "done",
                                       !.committed = TRUE, !.sends = @ + 1,
                                       !.result = IF writer[w].kind = "seed" THEN "none" ELSE "applied"])
     ELSE /\ WriterMoves(w, [writer[w] EXCEPT !.pc = "read", !.sends = @ + 1])
          /\ UNCHANGED <<database, epochs, durable>>
  /\ UNCHANGED <<backup, export>>

\* The answer is lost or late: the statement executed, or will, or never does.
Unanswered(w) ==
  /\ Sendable(w)
  /\ \/ /\ Applies(w) /\ Statement(w)
        /\ WriterMoves(w, [writer[w] EXCEPT !.pc = "resend", !.committed = TRUE,
                                         !.uncertain = TRUE, !.sends = 1])
     \/ /\ \E late \in BOOLEAN :
             WriterMoves(w, [writer[w] EXCEPT !.pc = "resend", !.late = late,
                                              !.uncertain = TRUE, !.sends = 1])
        /\ UNCHANGED <<database, epochs, durable>>
  /\ UNCHANGED <<backup, export>>

\* The server refused the statement; it is sent once more all the same.
Rejected(w) ==
  /\ Sendable(w)
  /\ WriterMoves(w, [writer[w] EXCEPT !.pc = "resend", !.sends = 1])
  /\ UNCHANGED <<database, epochs, durable, backup, export>>

\* settle: what two failed attempts leave.
Settled(uncertain) == IF uncertain THEN "indeterminate" ELSE "unavailable"

\* The second attempt is refused, not sent at all, or not answered either.
ResendFails(w) ==
  /\ writer[w].pc = "resend"
  /\ \/ /\ WriterMoves(w, [writer[w] EXCEPT !.pc = "done", !.result = Settled(writer[w].uncertain)])
        /\ UNCHANGED <<database, epochs, durable>>
     \/ /\ Applies(w) /\ Statement(w)
        /\ WriterMoves(w, [writer[w] EXCEPT !.pc = "done", !.committed = TRUE, !.result = Settled(TRUE)])
  /\ UNCHANGED <<backup, export>>

\* A statement that timed out reaches the server after all.
LateStatement(w) ==
  /\ writer[w].late /\ Applies(w) /\ Statement(w)
  /\ WriterMoves(w, [writer[w] EXCEPT !.late = FALSE, !.committed = TRUE])
  /\ UNCHANGED <<backup, export>>

-----------------------------------------------------------------------------
(* The readings after an attempt that changed nothing. *)

IsOurs(w) == row.epoch = writer[w].epoch /\ row.revision = writer[w].expected + 1
             /\ row.document = writer[w].op

\* resolve_unchanged_cas: after an unanswered attempt only our own document
\* proves anything.
ResolveUnchanged(w) ==
  IF Present /\ IsOurs(w) THEN "applied"
  ELSE IF writer[w].uncertain THEN "indeterminate"
  ELSE IF Present THEN "conflict" ELSE "invalid"

\* resolve_bootstrap_read
ResolveBootstrap(w) ==
  IF Present THEN "applied" ELSE IF writer[w].uncertain THEN "indeterminate" ELSE "invalid"

ReadOutcome(w) ==
  /\ writer[w].pc = "read" /\ Decides(w)
  /\ WriterMoves(w, Concluded(w, IF writer[w].kind = "seed"
                              THEN ResolveBootstrap(w) ELSE ResolveUnchanged(w)))
  /\ UNCHANGED <<database, backup, epochs, durable, export>>

\* The recovery reading itself fails.
ReadBackFails(w) ==
  /\ writer[w].pc \in {"read", "proven", "capacity", "current"}
  /\ WriterMoves(w, Concluded(w, Settled(writer[w].uncertain)))
  /\ UNCHANGED <<database, backup, epochs, durable, export>>

\* An identified swap reads its receipt first ...
ReadReceipt(w) ==
  /\ writer[w].pc = "read" /\ writer[w].kind = "identified"
  /\ WriterMoves(w, IF ReceiptsOf(w) = {}
             THEN [writer[w] EXCEPT !.pc = IF stored >= ReceiptCapacity /\ ~writer[w].uncertain
                                           THEN "capacity" ELSE "current"]
             ELSE IF ReceiptsOf(w) = {Receipt(w)} THEN [writer[w] EXCEPT !.pc = "proven"]
             ELSE Concluded(w, IF writer[w].uncertain THEN "indeterminate" ELSE "invalid"))
  /\ UNCHANGED <<database, backup, epochs, durable, export>>

\* ... and the current document: a receipt of ours with our document current
\* is the outcome, a receipt with another document is history.
ReadProven(w) ==
  /\ writer[w].pc = "proven" /\ Decides(w)
  /\ WriterMoves(w, Concluded(w, IF ~Present THEN "indeterminate"
                          ELSE IF IsOurs(w) /\ row.stamp = writer[w].op THEN "applied"
                          ELSE IF writer[w].uncertain THEN "indeterminate" ELSE "conflict"))
  /\ UNCHANGED <<database, backup, epochs, durable, export>>

\* No receipt and no room for one: unavailable, unless the row moved on.
ReadCapacity(w) ==
  /\ writer[w].pc = "capacity" /\ Decides(w)
  /\ WriterMoves(w, IF Guarded(w) THEN Concluded(w, "unavailable")
                    ELSE [writer[w] EXCEPT !.pc = "current", !.load = "select"])
  /\ UNCHANGED <<database, backup, epochs, durable, export>>

\* resolve_operation_cas
ReadCurrent(w) ==
  /\ writer[w].pc = "current" /\ Decides(w)
  /\ WriterMoves(w, Concluded(w,
       IF Present /\ row.stamp = writer[w].op /\ IsOurs(w) THEN "applied"
       ELSE IF writer[w].uncertain THEN "indeterminate"
       ELSE IF ~Present \/ row.stamp = writer[w].op THEN "invalid" ELSE "conflict"))
  /\ UNCHANGED <<database, backup, epochs, durable, export>>

-----------------------------------------------------------------------------
(* Sequenced receipts and their export. *)

\* A sequenced commit of another instance; refused swaps leave gaps.
SequencedCommit ==
  /\ Present /\ row.revision < MaxStoreRevision /\ stored < ReceiptCapacity
  /\ \E seq \in highWater + 1..MaxSequence :
       sequenced' = sequenced \cup {seq} /\ highWater' = seq
  /\ Written([row EXCEPT !.revision = @ + 1, !.document = Sequenced, !.stamp = Sequenced])
  /\ stored' = stored + 1
  /\ UNCHANGED <<receipts, backup, epochs, writer, export>>

\* The receipts of one page: after the cursor, up to the snapshot's fence.
PageRows(after, fence, limit) ==
  LET eligible == {s \in sequenced : s > after /\ s <= fence}
      Rank(s)  == Cardinality({t \in eligible : t <= s})
      count    == IF Cardinality(eligible) < limit THEN Cardinality(eligible) ELSE limit
  IN [i \in 1..count |-> CHOOSE s \in eligible : Rank(s) = i]

\* sequenced_export_snapshot and sequenced_export_page: the first page fixes
\* the fence, a continuation is refused when the fence is gone.
ExportPage ==
  LET fence == IF export.open THEN export.snapshot ELSE highWater
      limit == IF export.open THEN export.limit ELSE 1
      rows  == PageRows(export.after, fence, limit)
      after == IF rows = <<>> THEN export.after ELSE rows[Len(rows)]
  IN
  /\ export.more
  /\ IF export.open /\ export.snapshot > highWater
     THEN export' = [export EXCEPT !.more = FALSE, !.answer = "changed"]
     ELSE export' = [open |-> TRUE, limit |-> limit, snapshot |-> fence, after |-> after,
                     got |-> export.got \o rows,
                     more |-> \E s \in sequenced : s > after /\ s <= fence, answer |-> "page",
                     across |-> export.across]
  /\ UNCHANGED <<database, backup, epochs, durable, writer>>

-----------------------------------------------------------------------------
(* What an operator does to the database. *)

TakeBackup ==
  /\ backup = <<>> /\ Present
  /\ backup' = <<row, receipts, sequenced, highWater, stored>>
  /\ UNCHANGED <<database, epochs, durable, writer, export>>

\* The whole database comes back as it was, also under an export that is open.
RestoreBackup ==
  /\ backup # <<>>
  /\ row' = backup[1] /\ receipts' = backup[2] /\ sequenced' = backup[3]
  /\ highWater' = backup[4] /\ stored' = backup[5]
  /\ export' = [export EXCEPT !.across = export.open]
  /\ UNCHANGED <<backup, epochs, durable, writer>>

\* The row is wiped; a bootstrap reseeds it under another epoch.
WipeStore ==
  /\ Present /\ row' = NoRow
  /\ UNCHANGED <<receipts, sequenced, highWater, stored, backup, epochs, durable, writer, export>>

OperatorActs == TakeBackup \/ RestoreBackup \/ WipeStore

StoreNext ==
  \/ \E w \in Writers :
       \/ LoadRow(w) \/ UpgradeEpoch(w) \/ UnreadableRow(w) \/ ReadRow(w) \/ Answered(w) \/ Unanswered(w)
       \/ Rejected(w) \/ ResendFails(w) \/ LateStatement(w) \/ ReadOutcome(w) \/ ReadBackFails(w)
       \/ ReadReceipt(w) \/ ReadProven(w) \/ ReadCapacity(w) \/ ReadCurrent(w)
  \/ OperatorActs

\* The sequenced ledger, which other instances write, is explored on its own.
LedgerNext == SequencedCommit \/ ExportPage \/ OperatorActs

-----------------------------------------------------------------------------
\* What a call reports is what happened.  "Applied" means its document was the
\* durable one under its epoch; for an identified operation, that a call with
\* this identity wrote it.  A conflict, a refusal or an unavailability means
\* that no attempt of this call has changed or ever changes anything; only a
\* seed whose insert was answered may still fail in the read behind it.
OutcomeTruthful ==
  \A w \in Writers :
    /\ writer[w].result = "applied" /\ writer[w].kind # "seed" =>
         /\ <<writer[w].epoch, writer[w].expected + 1, writer[w].op>> \in durable
         /\ writer[w].kind = "identified" =>
              \E v \in Writers : writer[v].op = writer[w].op /\ writer[v].kind = "identified"
                                 /\ writer[v].committed
    /\ writer[w].result \in {"conflict", "invalid", "unavailable"} =>
         ~writer[w].committed \/ (writer[w].kind = "seed" /\ ~writer[w].uncertain)

\* The row's stamp and the receipts agree: a stamp stands only over the
\* document its operation wrote, and nothing of the older version's writes.
StampCurrent == row.stamp # NoStamp => row.document = row.stamp

\* An epoch is only ever reported with a document that carried it.
PairsReal ==
  \A w \in Writers : writer[w].pc = "ready" =>
    <<writer[w].epoch, writer[w].expected, writer[w].document>> \in durable

\* Receipts are counted exactly, within the capacity both ledgers share.
ReceiptsCounted ==
  /\ stored = Cardinality(receipts) + Cardinality(sequenced)
  /\ stored <= ReceiptCapacity
  /\ \A r, s \in receipts : r.op = s.op => r = s

\* An export that ended holds every sequenced receipt up to its fence, once,
\* unless the receipts themselves were rolled back under it.
ExportExact ==
  export.answer = "page" /\ ~export.more /\ ~export.across =>
    export.got = PageRows(0, export.snapshot, Cardinality(sequenced))

\* The store as its callers rely on it.
StoreTruthful == OutcomeTruthful /\ StampCurrent /\ PairsReal /\ ReceiptsCounted /\ ExportExact
=============================================================================
