----------------------- MODULE ConfigAuthorityProofs -----------------------
(***************************************************************************)
(* What the shared configuration authority guarantees, proved for any      *)
(* number of instances, documents, operations, epochs and faults: the      *)
(* journal is truthful, no update is lost, instances hand over what they   *)
(* serve and advertise what they confirmed, documents move forward, and    *)
(* the whole implements module Authority.                                  *)
(*                                                                         *)
(* SInv, the second inductive invariant, adds to IInv of                   *)
(* ConfigPublicationProofs what can still happen to an operation: which    *)
(* statements are under way, who waits for them, and what an answer that   *)
(* was, or was not, received proves.                                       *)
(***************************************************************************)
EXTENDS ConfigPublicationProofs

----------------------------------------------------------------------------
(* The second inductive invariant *)

\* Operation o was never applied, and no statement of it is under way.
Settled(o) == o \notin written /\ \A a \in {1, 2} : <<o, a>> \notin wire

\* An accepted operation names the next revision of a document that was
\* durable under its epoch, and never lowers that document's fence.
Prepared(o) ==
  /\ ops[o].base.revision = ops[o].expected /\ ops[o].cand.revision = ops[o].expected + 1
  /\ Committed(ops[o].epoch, ops[o].base)
  /\ CacheFence(ops[o].cand) >= CacheFence(ops[o].base)
  /\ ops[o].cand.cache # Off => ops[o].cand.cache >= CacheFence(ops[o].base)
OpInv == \A o \in OpIds : o <= nextOp => Prepared(o)

\* A transaction past its acceptance works for an operation of its own, was
\* prepared on what its instance still serves, and has no outcome yet.
TxnInv ==
  \A m \in Managers : InFlight(m) =>
    ops[txn[m].op].owner = m /\ ops[txn[m].op].base = active[m]
    /\ ops[txn[m].op].state = "accepted"

\* While no attempt went unanswered, only the current one can be under way,
\* and an update that was applied has been answered as such.
CertainInv ==
  \A m \in Managers : pc[m] = "cas" /\ ~txn[m].uncertain =>
    /\ \A a \in {1, 2} : <<txn[m].op, a>> \in wire => a = txn[m].attempt /\ reply[m] = None
    /\ txn[m].op \in written => reply[m].changed /\ \A a \in {1, 2} : <<txn[m].op, a>> \notin wire

\* A conflict is only concluded of an operation that can no longer apply.
ConflictInv ==
  /\ written \subseteq 1..nextOp
  /\ \A m \in Managers : cont[m] = "conflict" => Settled(txn[m].op)
  /\ \A o \in OpIds : ops[o] # None /\ ops[o].state = "conflict" => Settled(o)

\* What an activation rests on: an answer that says so, or the stamp that a
\* stamping store carries.
StampInv ==
  /\ Backend = "postgres" /\ store # None => store.stamp \in written \cup {0}
  /\ Backend = "postgres" /\ saved # None => saved.stamp \in written \cup {0}
  /\ \A m \in Managers :
       /\ reply[m] # None /\ reply[m].changed => txn[m].op \in written
       /\ pc[m] = "publish" /\ Backend = "postgres" => txn[m].op \in written
  /\ ActivatedWasDurable

\* The operation journal, its transactions and their statements.
OutcomeInv == OpInv /\ TxnInv /\ CertainInv /\ ConflictInv /\ StampInv

\* Epochs are drawn once; without a restored backup a history holds one
\* document per revision and the store holds its newest.
HistoryInv ==
  /\ \A h \in history : h.epoch <= nextEpoch
  /\ ~restored =>
       /\ \A g, h \in history :
            g.epoch = h.epoch /\ g.config.revision = h.config.revision => g = h
       /\ store # None =>
            \A h \in history : h.epoch = store.epoch => h.config.revision <= store.config.revision

\* A document under adoption is newer than the one it replaces, and an
\* instance that serves nothing follows nobody.
AdoptInv ==
  \A m \in Managers :
    /\ pc[m] = "adopt" /\ epoch[m] # None => obs[m].config.revision > active[m].revision
    /\ ~Up(m) => epoch[m] = None

\* Between the freeze and its end no write begins, and after the export no
\* document is published.
FrozenInv ==
  \A m \in Managers :
    /\ life[m] \in {"freezing", "frozen"} => stopping[m]
    /\ life[m] = "frozen" =>
         /\ pc[m] \in {"idle", "judge"} /\ cont[m] \in {None, "poll"}
         /\ exported[m].config = active[m]

HonestInv == FrozenInv /\ ReadyJustified

----------------------------------------------------------------------------
(* Steps that send, answer and accept nothing *)

\* State x is a true outcome of operation o.
Justified(o, x) ==
  \/ x \in {"accepted", "indeterminate"}
  \/ x = "conflict" /\ Settled(o)
  \/ /\ x = "candidate_activated" /\ Committed(ops[o].epoch, ops[o].cand)
     /\ Backend = "postgres" => o \in written

SameOperation(o) ==
  /\ ops'[o].owner = ops[o].owner /\ ops'[o].epoch = ops[o].epoch
  /\ ops'[o].expected = ops[o].expected
  /\ ops'[o].base = ops[o].base /\ ops'[o].cand = ops[o].cand

\* Operation o is left alone, or gets an outcome as its transaction ends.
Recorded(o) ==
  \/ ops'[o] = ops[o]
  \/ /\ ops[o] \in Op /\ ops'[o] \in Op /\ SameOperation(o)
     /\ Justified(o, ops'[o].state)
     /\ \A n \in Managers : InFlight(n)' => txn'[n].op # o

\* Transactions of n go on as they were, or end.
Continues(n) ==
  /\ InFlight(n)' => InFlight(n) /\ txn'[n] = txn[n] /\ active'[n] = active[n]
  /\ pc'[n] \in {"cas", "publish"} => pc'[n] = pc[n] /\ reply'[n] = reply[n]
  /\ cont'[n] = "conflict" => cont[n] = "conflict"

QuietStep ==
  /\ UNCHANGED <<written, nextOp>> /\ history \subseteq history' /\ wire' \subseteq wire
  /\ \A o \in OpIds : Recorded(o)
  /\ \A n \in Managers : Continues(n)
  /\ store' \in {store, saved, None} \/ store'.stamp = 0
  /\ saved' \in {saved, store}

\* A quiet step keeps what is known of the journal and its transactions.
LEMMA QuietKeepsOutcomes ==
  ASSUME IInv, IInv', OutcomeInv, QuietStep
  PROVE  OutcomeInv'
<1>1. \A o : Settled(o) => Settled(o)'
  BY DEF Settled, QuietStep
<1>2. \A e, c : Committed(e, c) => Committed(e, c)'
  BY DEF Committed, QuietStep
<1>3. OpInv'
  <2> SUFFICES ASSUME NEW o \in OpIds, o <= nextOp
               PROVE  Prepared(o)'
    BY DEF OpInv, QuietStep
  <2>1. Prepared(o)
    BY DEF OutcomeInv, OpInv
  <2>2. SameOperation(o)
    BY DEF QuietStep, Recorded, SameOperation
  <2> QED BY <1>2, <2>1, <2>2 DEF Prepared, SameOperation
<1>4. TxnInv'
  <2> SUFFICES ASSUME NEW m \in Managers, InFlight(m)'
               PROVE  /\ ops'[txn'[m].op].owner = m /\ ops'[txn'[m].op].base = active'[m]
                      /\ ops'[txn'[m].op].state = "accepted"
    BY DEF TxnInv
  <2>1. InFlight(m) /\ txn'[m] = txn[m] /\ active'[m] = active[m]
    BY DEF QuietStep, Continues
  <2>2. txn[m].op \in OpIds
    BY <2>1, InFlightAccepted
  <2>3. ops'[txn[m].op] = ops[txn[m].op]
    BY <2>1, <2>2 DEF QuietStep, Recorded
  <2> QED BY <2>1, <2>3 DEF OutcomeInv, TxnInv
<1>5. CertainInv'
  <2> SUFFICES ASSUME NEW m \in Managers, pc'[m] = "cas", ~txn'[m].uncertain
               PROVE  /\ \A a \in {1, 2} : <<txn'[m].op, a>> \in wire' =>
                                             a = txn'[m].attempt /\ reply'[m] = None
                      /\ txn'[m].op \in written' =>
                           reply'[m].changed /\ \A a \in {1, 2} : <<txn'[m].op, a>> \notin wire'
    BY DEF CertainInv
  <2>1. pc[m] = "cas" /\ txn'[m] = txn[m] /\ reply'[m] = reply[m]
    BY DEF QuietStep, Continues, InFlight
  <2> QED BY <2>1 DEF OutcomeInv, CertainInv, QuietStep
<1>6. ConflictInv'
  <2>1. ASSUME NEW m \in Managers, cont'[m] = "conflict"
        PROVE  Settled(txn[m].op)'
    <3>1. cont[m] = "conflict" /\ txn'[m] = txn[m]
      BY <2>1 DEF QuietStep, Continues, InFlight
    <3>2. Settled(txn[m].op)
      BY <3>1 DEF OutcomeInv, ConflictInv
    <3> QED BY <3>1, <3>2 DEF Settled, QuietStep
  <2>2. ASSUME NEW o \in OpIds, ops'[o] # None, ops'[o].state = "conflict"
        PROVE  Settled(o)'
    <3>1. CASE ops'[o] = ops[o]
      BY <1>1, <2>2, <3>1 DEF OutcomeInv, ConflictInv
    <3>2. CASE Justified(o, ops'[o].state)
      BY <1>1, <2>2, <3>2 DEF Justified
    <3> QED BY <3>1, <3>2 DEF QuietStep, Recorded
  <2> QED BY <2>1, <2>2 DEF OutcomeInv, ConflictInv, QuietStep
<1>7. StampInv'
  <2>1. /\ Backend = "postgres" /\ store' # None => store'.stamp \in written' \cup {0}
        /\ Backend = "postgres" /\ saved' # None => saved'.stamp \in written' \cup {0}
    BY DEF OutcomeInv, StampInv, QuietStep
  <2>2. ASSUME NEW m \in Managers
        PROVE  /\ reply'[m] # None /\ reply'[m].changed => txn'[m].op \in written'
               /\ pc'[m] = "publish" /\ Backend = "postgres" => txn'[m].op \in written'
    <3>1. reply'[m] # None => pc'[m] = "cas"
      BY DEF IInv, TaskInv
    <3>2. pc'[m] \in {"cas", "publish"} =>
            pc'[m] = pc[m] /\ reply'[m] = reply[m] /\ txn'[m] = txn[m]
      BY DEF QuietStep, Continues, InFlight
    <3> QED BY <3>1, <3>2 DEF OutcomeInv, StampInv, QuietStep
  <2>3. ASSUME NEW o \in OpIds, ops'[o] # None, ops'[o].state = "candidate_activated"
        PROVE  /\ [epoch |-> ops'[o].epoch, config |-> ops'[o].cand] \in history'
               /\ Backend = "postgres" => o \in written'
    <3>1. CASE ops'[o] = ops[o]
      <4>1. Committed(ops[o].epoch, ops[o].cand) /\ (Backend = "postgres" => o \in written)
        BY <2>3, <3>1 DEF OutcomeInv, StampInv, ActivatedWasDurable, Committed
      <4> QED BY <4>1, <3>1 DEF QuietStep, Committed
    <3>2. CASE SameOperation(o) /\ Justified(o, ops'[o].state)
      BY <2>3, <3>2 DEF Justified, SameOperation, QuietStep, Committed
    <3> QED BY <3>1, <3>2 DEF QuietStep, Recorded
  <2> QED BY <2>1, <2>2, <2>3 DEF StampInv, ActivatedWasDurable
<1> QED BY <1>3, <1>4, <1>5, <1>6, <1>7 DEF OutcomeInv

\* A step that touches neither tasks nor statements is quiet when running
\* instances keep their document.
LEMMA StillStep ==
  ASSUME IInv, UNCHANGED <<casVars, taskVars, written>>, history \subseteq history',
         \A n \in Managers : Up(n) => active'[n] = active[n],
         store' \in {store, saved, None} \/ store'.stamp = 0, saved' \in {saved, store}
  PROVE  QuietStep
<1>1. \A n \in Managers : InFlight(n) => Up(n)
  BY NoneAssumption DEF IInv, TaskInv, InFlight
<1>2. \A n \in Managers : Continues(n)
  BY <1>1 DEF Continues, InFlight, casVars, taskVars
<1> QED BY <1>2 DEF QuietStep, Recorded, casVars, taskVars

\* The holder of `writes` at m gives it up, or is not past its acceptance;
\* other instances do not notice.
Leaves(m) ==
  /\ \A n \in Managers \ {m} :
       /\ pc'[n] = pc[n] /\ cont'[n] = cont[n] /\ txn'[n] = txn[n] /\ reply'[n] = reply[n]
       /\ active'[n] = active[n]
  /\ pc'[m] \notin {"cas", "publish"} /\ cont'[m] # "conflict"

\* The transactions of other instances go on; that of m does not.
LEMMA LeavesContinues ==
  ASSUME NEW m \in Managers, Leaves(m)
  PROVE  \A n \in Managers :
           Continues(n) /\ (InFlight(n)' => n # m /\ InFlight(n) /\ txn'[n] = txn[n])
<1> SUFFICES ASSUME NEW n \in Managers
             PROVE  Continues(n) /\ (InFlight(n)' => n # m /\ InFlight(n) /\ txn'[n] = txn[n])
  OBVIOUS
<1>1. CASE n = m
  BY <1>1 DEF Leaves, Continues, InFlight
<1>2. CASE n # m
  BY <1>2 DEF Leaves, Continues, InFlight
<1> QED BY <1>1, <1>2

\* finish_config with a justified outcome, as the transaction of m ends.
LEMMA OutcomeRecorded ==
  ASSUME IInv, OutcomeInv, NEW m \in Managers, InFlight(m), NEW x \in OpStates,
         Justified(txn[m].op, x), RecordOutcome(m, x), Leaves(m)
  PROVE  \A o \in OpIds : Recorded(o)
<1> DEFINE p == txn[m].op
<1>1. p \in OpIds /\ ops[p] \in Op
  BY InFlightAccepted
<1>2. PICK y \in {x, "accepted"} : ops' = [ops EXCEPT ![p].state = y]
  BY DEF RecordOutcome
<1>3. y \in OpStates /\ Justified(p, y)
  BY DEF Justified, OpStates
<1>4. ops \in [OpIds -> Op \cup {None}]
  BY DEF IInv, TypeOK, JournalType
<1>5. \A n \in Managers : InFlight(n)' => txn'[n].op # p
  <2> SUFFICES ASSUME NEW n \in Managers, InFlight(n)', txn'[n].op = p
               PROVE  FALSE
    OBVIOUS
  <2>1. n # m /\ InFlight(n) /\ txn'[n] = txn[n]
    BY LeavesContinues
  <2> QED BY <2>1 DEF OutcomeInv, TxnInv
<1> HIDE DEF p
<1>6. [ops[p] EXCEPT !.state = y] \in Op
  BY <1>1, <1>3 DEF Op
<1>7. ops'[p] = [ops[p] EXCEPT !.state = y]
  BY <1>1, <1>2, <1>4
<1>8. SameOperation(p) /\ ops'[p].state = y
  BY <1>1, <1>7 DEF SameOperation, Op
<1>9. Recorded(p)
  BY <1>1, <1>3, <1>5, <1>6, <1>7, <1>8 DEF Recorded
<1>10. \A o \in OpIds \ {p} : ops'[o] = ops[o]
  BY <1>2, <1>4
<1> QED BY <1>9, <1>10 DEF Recorded

\* A task that ends is quiet when what it records is justified.
LEMMA LeavesQuiet ==
  ASSUME IInv, NEW m \in Managers, Leaves(m), \A o \in OpIds : Recorded(o),
         UNCHANGED <<storeVars, nextOp>>, wire' \subseteq wire
  PROVE  QuietStep
BY LeavesContinues DEF QuietStep, storeVars

\* A released lock leaves no transaction behind.
LEMMA ReleaseLeaves ==
  ASSUME IInv, NEW m \in Managers, Release(m),
         \A n \in Managers \ {m} : active'[n] = active[n]
  PROVE  Leaves(m)
<1>1. /\ pc'[m] = "idle" /\ cont'[m] = None
      /\ \A n \in Managers \ {m} :
           pc'[n] = pc[n] /\ cont'[n] = cont[n] /\ txn'[n] = txn[n] /\ reply'[n] = reply[n]
  BY DEF Release, IInv, TypeOK, TaskType
<1> QED BY <1>1, NoneAssumption DEF Leaves

\* A task that ends without an outcome is quiet.
LEMMA ReleaseQuiet ==
  ASSUME IInv, OutcomeInv, NEW m \in Managers, Release(m), UNCHANGED <<storeVars, ops>>,
         \A n \in Managers \ {m} : active'[n] = active[n]
  PROVE  QuietStep
<1>1. Leaves(m)
  BY ReleaseLeaves
<1>2. \A o \in OpIds : Recorded(o)
  BY DEF Recorded
<1> QED BY <1>1, <1>2, LeavesQuiet DEF Release

\* A task that ends with a justified outcome is quiet.
LEMMA OutcomeQuiet ==
  ASSUME IInv, OutcomeInv, NEW m \in Managers, InFlight(m), NEW x \in OpStates,
         Justified(txn[m].op, x), RecordOutcome(m, x), Release(m), UNCHANGED storeVars,
         \A n \in Managers \ {m} : active'[n] = active[n]
  PROVE  QuietStep
BY ReleaseLeaves, OutcomeRecorded, LeavesQuiet DEF Release

\* A reconciliation that returns is quiet: a conflict it records is settled.
LEMMA ReturnQuiet ==
  ASSUME IInv, OutcomeInv, NEW m \in Managers, NEW ok \in BOOLEAN, Return(m, ok),
         pc[m] \notin {"cas", "publish"}, UNCHANGED storeVars,
         \A n \in Managers \ {m} : active'[n] = active[n]
  PROVE  QuietStep
<1>1. CASE cont[m] = "precond" /\ ok
  <2>1. /\ pc'[m] = "precond" /\ cont'[m] = None /\ UNCHANGED <<txn, reply>>
        /\ \A n \in Managers \ {m} : pc'[n] = pc[n] /\ cont'[n] = cont[n]
    BY <1>1 DEF Return, IInv, TypeOK, TaskType
  <2>2. Leaves(m)
    BY <2>1, NoneAssumption DEF Leaves
  <2>3. \A o \in OpIds : Recorded(o)
    BY <1>1 DEF Return, Recorded
  <2> QED BY <1>1, <2>2, <2>3, LeavesQuiet DEF Return
<1>2. CASE ~(cont[m] = "precond" /\ ok) /\ cont[m] = "conflict"
  <2>1. Release(m) /\ RecordOutcome(m, IF ok THEN "conflict" ELSE "indeterminate")
    BY <1>2 DEF Return
  <2>2. InFlight(m)
    BY <1>2 DEF InFlight
  <2>3. Justified(txn[m].op, IF ok THEN "conflict" ELSE "indeterminate")
    BY <1>2 DEF OutcomeInv, ConflictInv, Justified
  <2>4. (IF ok THEN "conflict" ELSE "indeterminate") \in OpStates
    BY DEF OpStates
  <2> QED BY <2>1, <2>2, <2>3, <2>4, OutcomeQuiet
<1>3. CASE ~(cont[m] = "precond" /\ ok) /\ cont[m] # "conflict"
  BY <1>3, ReleaseQuiet DEF Return
<1> QED BY <1>1, <1>2, <1>3

----------------------------------------------------------------------------
(* The journal and its transactions, action by action *)

\* Startup, handoff, shutdown and crashes leave the journal alone.
LEMMA LifecycleQuiet ==
  ASSUME IInv, OutcomeInv, NEW m \in Managers, Lifecycle(m)
  PROVE  QuietStep
<1>t. active \in [Managers -> Config \cup {None}]
  BY DEF IInv, TypeOK, ProcessType
<1>1. CASE StartLoad(m)
  <2>1. \A n \in Managers : Up(n) => active'[n] = active[n]
    BY <1>1, <1>t DEF StartLoad, Begin, Up
  <2> QED BY <1>1, <2>1, StillStep DEF StartLoad, storeVars
<1>2. ASSUME NEW s \in Submission, StartBootstrap(m, s) PROVE QuietStep
  <2>1. \A n \in Managers : Up(n) => active'[n] = active[n]
    BY <1>2, <1>t DEF StartBootstrap, Begin, Up
  <2>2. history \subseteq history' /\ (store' = store \/ store'.stamp = 0)
    BY <1>2 DEF StartBootstrap
  <2> QED BY <1>2, <2>1, <2>2, StillStep DEF StartBootstrap
<1>3. ASSUME NEW n \in Managers, StartInherited(m, n) PROVE QuietStep
  <2>1. \A k \in Managers : Up(k) => active'[k] = active[k]
    BY <1>3, <1>t DEF StartInherited, Up
  <2> QED BY <1>3, <2>1, StillStep DEF StartInherited, storeVars
<1>4. CASE Crash(m) \/ Exit(m)
  <2>1. \A n \in Managers \ {m} : active'[n] = active[n]
    BY <1>4, <1>t DEF Crash, Exit, Gone
  <2> QED BY <1>4, <2>1, ReleaseQuiet DEF Crash, Exit, Gone
<1>5. CASE Freeze(m) \/ Export(m) \/ Resume(m) \/ Withdraw(m) \/ StopAccepting(m)
  BY <1>5, StillStep DEF Freeze, Export, Resume, Withdraw, StopAccepting, storeVars
<1> QED BY <1>1, <1>2, <1>3, <1>4, <1>5 DEF Lifecycle

\* A read puts the row before the holder of `writes`.
LEMMA ReadQuiet ==
  ASSUME IInv, NEW m \in Managers, NEW caller \in {"poll", "precond"}, Read(m, caller),
         UNCHANGED <<storeVars, active>>
  PROVE  QuietStep
<1>1. /\ pc'[m] = "judge" /\ cont'[m] = caller /\ UNCHANGED <<txn, reply>>
      /\ \A n \in Managers \ {m} : pc'[n] = pc[n] /\ cont'[n] = cont[n]
  BY DEF Read, casVars, IInv, TypeOK, TaskType
<1>2. Leaves(m)
  BY <1>1 DEF Leaves
<1>3. \A o \in OpIds : Recorded(o)
  BY DEF Recorded, Read, casVars
<1> QED BY <1>2, <1>3, LeavesQuiet DEF Read, casVars

\* So do polls and adoptions, apart from the conflicts they conclude.
LEMMA ReconcileQuiet ==
  ASSUME IInv, OutcomeInv, NEW m \in Managers, Reconcile(m)
  PROVE  QuietStep
<1>t. active \in [Managers -> Config \cup {None}]
  BY DEF IInv, TypeOK, ProcessType
<1>1. CASE Poll(m) \/ CatchUp(m)
  <2>1. CASE Read(m, "poll") \/ Read(m, "precond")
    BY <1>1, <2>1, ReadQuiet DEF Poll, CatchUp
  <2>2. CASE ReadFails(m)
    BY <1>1, <2>2, ReturnQuiet DEF Poll, CatchUp, ReadFails
  <2> QED BY <1>1, <2>1, <2>2 DEF Poll, CatchUp
<1>2. CASE JudgeForeign(m) \/ JudgeRollback(m) \/ JudgeDiverged(m) \/ JudgeFrozen(m)
  <2>1. pc[m] = "judge" /\ Return(m, FALSE) /\ UNCHANGED <<storeVars, active>>
    BY <1>2 DEF JudgeForeign, JudgeRollback, JudgeDiverged, JudgeFrozen, JudgeFails
  <2> QED BY <2>1, ReturnQuiet
<1>3. CASE JudgeAgrees(m)
  BY <1>3, ReturnQuiet DEF JudgeAgrees
<1>4. CASE JudgeNewer(m)
  <2>1. /\ pc[m] = "judge" /\ pc'[m] = "adopt" /\ UNCHANGED <<txn, reply, cont, active>>
        /\ \A n \in Managers \ {m} : pc'[n] = pc[n]
    BY <1>4 DEF JudgeNewer, casVars, IInv, TypeOK, TaskType
  <2>2. ASSUME NEW n \in Managers PROVE Continues(n)
    <3>1. CASE n = m
      BY <2>1, <3>1 DEF Continues, InFlight
    <3>2. CASE n # m
      BY <2>1, <3>2 DEF Continues, InFlight
    <3> QED BY <3>1, <3>2
  <2> QED BY <1>4, <2>2 DEF JudgeNewer, QuietStep, Recorded, storeVars, casVars
<1>5. CASE Adopt(m)
  <2>1. \A n \in Managers \ {m} : active'[n] = active[n]
    BY <1>5, <1>t DEF Adopt
  <2> QED BY <1>5, <2>1, ReturnQuiet DEF Adopt
<1>6. CASE AdoptUnpreparable(m) \/ AdoptRefused(m)
  BY <1>6, ReturnQuiet DEF AdoptUnpreparable, AdoptRefused
<1>7. CASE AbandonPoll(m)
  <2>1. \A n \in Managers \ {m} : active'[n] = active[n]
    BY <1>7, <1>t DEF AbandonPoll
  <2> QED BY <1>7, <2>1, ReleaseQuiet DEF AbandonPoll
<1>8. CASE GraceLapse(m) \/ GraceTimer(m)
  BY <1>8, StillStep DEF GraceLapse, GraceTimer, storeVars
<1> QED BY <1>1, <1>2, <1>3, <1>4, <1>5, <1>6, <1>7, <1>8 DEF Reconcile

\* So do backups, their restoration and a wipe.
LEMMA OperatorQuiet ==
  ASSUME IInv, Backup \/ Restore \/ Wipe
  PROVE  QuietStep
BY StillStep DEF Backup, Restore, Wipe

\* The transaction of m takes a step on its own operation: it resends, or
\* learns from the answer.
Advances(m) ==
  /\ UNCHANGED <<storeVars, ops, nextOp, active>>
  /\ wire' \subseteq wire \cup {<<txn[m].op, 2>>}
  /\ \A n \in Managers \ {m} :
       pc'[n] = pc[n] /\ cont'[n] = cont[n] /\ txn'[n] = txn[n] /\ reply'[n] = reply[n]
  /\ txn'[m].op = txn[m].op /\ reply'[m] = None
  /\ pc'[m] = "cas" /\ ~txn'[m].uncertain =>
       /\ txn[m].op \notin written
       /\ \A a \in {1, 2} : <<txn[m].op, a>> \in wire' => a = txn'[m].attempt
  /\ cont'[m] = "conflict" => Settled(txn[m].op) /\ wire' = wire
  /\ pc'[m] = "publish" /\ Backend = "postgres" => txn[m].op \in written

\* Such a step keeps what is known of every operation.
LEMMA AdvanceKeepsOutcomes ==
  ASSUME IInv, OutcomeInv, NEW m \in Managers, InFlight(m), Advances(m)
  PROVE  OutcomeInv'
<1> DEFINE p == txn[m].op
<1>1. p \in OpIds /\ ops[p] \in Op /\ p \in 1..nextOp
  BY InFlightAccepted
<1>2. ops[p].owner = m /\ ops[p].base = active[m] /\ ops[p].state = "accepted"
  BY DEF OutcomeInv, TxnInv
<1>3. \A n \in Managers \ {m} : InFlight(n) => txn[n].op # p
  BY <1>2 DEF OutcomeInv, TxnInv
<1>4. \A n \in Managers \ {m} : (InFlight(n)' <=> InFlight(n)) /\ txn'[n] = txn[n]
  BY DEF Advances, InFlight
<1>5. /\ txn'[m].op = p /\ reply'[m] = None
      /\ UNCHANGED <<history, written, store, saved, ops, nextOp, active>>
  BY DEF Advances, storeVars
<1>6. \A o, a : o # p /\ <<o, a>> \in wire' => <<o, a>> \in wire
  BY DEF Advances
<1>7. \A o : o # p /\ Settled(o) => Settled(o)'
  BY <1>5, <1>6 DEF Settled
<1>8. OpInv'
  BY <1>5 DEF OutcomeInv, OpInv, Prepared, Committed, CacheFence, Larger, Generation
<1>9. TxnInv'
  BY <1>2, <1>4, <1>5 DEF OutcomeInv, TxnInv
<1>10. CertainInv'
  <2> SUFFICES ASSUME NEW n \in Managers, pc'[n] = "cas", ~txn'[n].uncertain
               PROVE  /\ \A a \in {1, 2} : <<txn'[n].op, a>> \in wire' =>
                                             a = txn'[n].attempt /\ reply'[n] = None
                      /\ txn'[n].op \in written' =>
                           reply'[n].changed /\ \A a \in {1, 2} : <<txn'[n].op, a>> \notin wire'
    BY DEF CertainInv
  <2>1. CASE n = m
    BY <1>5, <2>1 DEF Advances, storeVars
  <2>2. CASE n # m
    <3>1. pc[n] = "cas" /\ txn'[n] = txn[n] /\ reply'[n] = reply[n] /\ txn[n].op # p
      BY <2>2, <1>3 DEF Advances, InFlight
    <3> QED BY <3>1, <1>5, <1>6 DEF OutcomeInv, CertainInv
  <2> QED BY <2>1, <2>2
<1>11. ConflictInv'
  <2>1. ASSUME NEW n \in Managers, cont'[n] = "conflict"
        PROVE  Settled(txn[n].op)'
    <3>1. CASE n = m
      BY <2>1, <3>1, <1>5 DEF Advances, Settled
    <3>2. CASE n # m
      <4>1. cont[n] = "conflict" /\ txn'[n] = txn[n] /\ txn[n].op # p
        BY <2>1, <3>2, <1>3 DEF Advances, InFlight
      <4>2. Settled(txn[n].op)
        BY <4>1 DEF OutcomeInv, ConflictInv
      <4> QED BY <4>1, <4>2, <1>5, <1>6 DEF Settled
    <3> QED BY <3>1, <3>2
  <2>2. \A o \in OpIds : ops'[o] # None /\ ops'[o].state = "conflict" => Settled(o)'
    BY <1>2, <1>5, <1>7 DEF OutcomeInv, ConflictInv
  <2> QED BY <2>1, <2>2, <1>5 DEF OutcomeInv, ConflictInv
<1>12. StampInv'
  <2>1. ASSUME NEW n \in Managers
        PROVE  /\ reply'[n] # None /\ reply'[n].changed => txn'[n].op \in written'
               /\ pc'[n] = "publish" /\ Backend = "postgres" => txn'[n].op \in written'
    <3>1. CASE n = m
      BY <3>1, <1>5 DEF Advances
    <3>2. CASE n # m
      BY <3>2, <1>5 DEF Advances, OutcomeInv, StampInv
    <3> QED BY <3>1, <3>2
  <2> QED BY <2>1, <1>5 DEF OutcomeInv, StampInv, ActivatedWasDurable
<1> QED BY <1>8, <1>9, <1>10, <1>11, <1>12 DEF OutcomeInv

\* The retry of an unanswered or of a refused attempt.
LEMMA ResendAdvances ==
  ASSUME IInv, OutcomeInv, NEW m \in Managers, NEW u \in BOOLEAN, Resend(m, u), pc[m] = "cas",
         u \/ (~txn[m].uncertain /\ <<txn[m].op, txn[m].attempt>> \in wire),
         UNCHANGED <<storeVars, active>>
  PROVE  InFlight(m) /\ Advances(m)
<1>1. txn \in [Managers -> Txn] /\ reply' = [reply EXCEPT ![m] = None]
      /\ txn' = [txn EXCEPT ![m] = [@ EXCEPT !.attempt = 2, !.uncertain = u]]
  BY DEF Resend, IInv, TypeOK, TaskType
<1>2. txn'[m] = [txn[m] EXCEPT !.attempt = 2, !.uncertain = u] /\ txn[m] \in Txn
  BY <1>1
<1>3. txn'[m].op = txn[m].op /\ txn'[m].attempt = 2 /\ txn'[m].uncertain = u
  BY <1>2 DEF Txn
<1>4. reply'[m] = None /\ \A n \in Managers \ {m} : txn'[n] = txn[n] /\ reply'[n] = reply[n]
  BY <1>1 DEF IInv, TypeOK, TaskType
<1>5. cont[m] # "conflict"
  BY NoneAssumption DEF IInv, TaskInv
<1>6. ~u => txn[m].op \notin written /\ \A a \in {1, 2} : <<txn[m].op, a>> \in wire' => a = 2
  BY DEF Resend, OutcomeInv, CertainInv
<1>7. wire' \subseteq wire \cup {<<txn[m].op, 2>>} /\ UNCHANGED <<pc, cont, ops, nextOp>>
  BY DEF Resend
<1> QED BY <1>3, <1>4, <1>5, <1>6, <1>7 DEF Advances, InFlight

\* The answer was judged: the task of m moves on with its operation.
LEMMA AnswerAdvances ==
  ASSUME IInv, OutcomeInv, NEW m \in Managers,
         CasChanged(m) \/ ResolveApplied(m) \/ ResolveConflict(m)
  PROVE  InFlight(m) /\ Advances(m)
<1>1. pc[m] = "cas" /\ reply[m] # None /\ UNCHANGED <<storeVars, wire, ops, nextOp, active, txn>>
  BY DEF CasChanged, ResolveApplied, ResolveConflict, Unchanged
<1>2. /\ reply'[m] = None
      /\ \A n \in Managers \ {m} :
           reply'[n] = reply[n] /\ pc'[n] = pc[n] /\ cont'[n] = cont[n]
  BY DEF CasChanged, ResolveApplied, ResolveConflict, IInv, TypeOK, TaskType
<1>3. pc'[m] \in {"publish", "judge"}
  BY DEF CasChanged, ResolveApplied, ResolveConflict, IInv, TypeOK, TaskType
<1>4. cont'[m] = "conflict" => Settled(txn[m].op)
  <2>1. CASE ResolveConflict(m)
    BY <1>1, <2>1 DEF ResolveConflict, Unchanged, OutcomeInv, CertainInv, Settled
  <2>2. CASE CasChanged(m) \/ ResolveApplied(m)
    BY <1>1, <2>2, NoneAssumption DEF CasChanged, ResolveApplied, IInv, TaskInv
  <2> QED BY <2>1, <2>2
<1>5. pc'[m] = "publish" /\ Backend = "postgres" => txn[m].op \in written
  <2>1. CASE CasChanged(m)
    BY <2>1 DEF CasChanged, OutcomeInv, StampInv
  <2>2. CASE ResolveApplied(m)
    <3>1. txn[m].op \in 1..nextOp
      BY <1>1, InFlightAccepted DEF InFlight
    <3>2. Backend = "postgres" => store # None /\ store.stamp = txn[m].op
      BY <2>2 DEF ResolveApplied, CurrentRow, Proves
    <3> QED BY <3>1, <3>2 DEF OutcomeInv, StampInv
  <2>3. CASE ResolveConflict(m)
    BY <2>3 DEF ResolveConflict, IInv, TypeOK, TaskType
  <2> QED BY <2>1, <2>2, <2>3
<1> QED BY <1>1, <1>2, <1>3, <1>4, <1>5 DEF Advances, InFlight

\* normalize_cache_generation never lowers the fence of the document it
\* starts from, and revives no generation below it.
LEMMA NormalizeFence ==
  ASSUME NEW base \in Config, NEW s \in Submission
  PROVE  LET n == Normalize(base, s)
         IN  /\ n.revision = base.revision + 1
             /\ CacheFence(n) >= CacheFence(base)
             /\ n.cache # Off => n.cache >= CacheFence(base)
<1>1. Caches \ {Off} \subseteq Nat /\ Floors \subseteq Nat
  BY CachesAssumption
<1>2. Generation(base) \in Nat /\ Generation(s) \in Nat
  BY <1>1 DEF Config, Submission, Generation
<1>3. base.floor \in Nat /\ s.floor \in Nat
  BY <1>1 DEF Config, Submission
<1> DEFINE floor == Larger(Larger(base.floor, s.floor), Larger(Generation(base), Generation(s)))
           cache == IF s.cache = Off THEN Off ELSE Larger(s.cache, floor)
           n == Normalize(base, s)
<1>4. floor \in Nat /\ floor >= base.floor /\ floor >= Generation(base)
  BY <1>2, <1>3 DEF Larger
<1>5. CacheFence(base) \in Nat /\ floor >= CacheFence(base)
  BY <1>2, <1>3, <1>4 DEF CacheFence, Larger
<1>6. s.cache # Off => s.cache \in Nat
  BY <1>1 DEF Submission
<1>7. n.revision = base.revision + 1 /\ n.floor = floor /\ n.cache = cache
  BY DEF Normalize
<1> HIDE DEF floor, n
<1>8. cache # Off => cache \in Nat /\ cache >= floor
  BY <1>4, <1>6 DEF Larger
<1>9. Generation(n) \in Nat /\ n.floor \in Nat
  BY <1>4, <1>7, <1>8 DEF Generation
<1>10. CacheFence(n) >= n.floor /\ CacheFence(n) \in Nat
  BY <1>9 DEF CacheFence, Larger
<1>11. n.cache # Off => n.cache >= CacheFence(base)
  BY <1>4, <1>5, <1>7, <1>8
<1>12. CacheFence(n) >= CacheFence(base)
  BY <1>4, <1>5, <1>7, <1>10
<1> QED BY <1>7, <1>11, <1>12 DEF n

\* Acceptance opens a new operation that nothing has been sent for.
LEMMA AcceptKeepsOutcomes ==
  ASSUME IInv, IInv', OutcomeInv, NEW m \in Managers, ApplyAccept(m)
  PROVE  OutcomeInv'
<1> DEFINE p == nextOp + 1
           c == Normalize(active[m], txn[m].sub)
<1>1. pc[m] = "precond" /\ UNCHANGED <<storeVars, active, reply, cont>> /\ nextOp' = p
  BY DEF ApplyAccept
<1>2. Up(m) /\ txn[m].sub \in Submission /\ epoch[m] \in Nat /\ cont[m] = None
  BY <1>1, NoneAssumption DEF IInv, TaskInv
<1>3. active[m] \in Config /\ Backed(epoch[m], active[m])
  BY <1>2 DEF IInv, ServingInv
<1>4. Committed(epoch[m], active[m])
  <2>1. PICK h \in history : h.config = active[m] /\ h.epoch = epoch[m]
    BY <1>2, <1>3, NoneAssumption DEF Backed
  <2>2. h \in [epoch : Nat, config : Config]
    BY DEF IInv, TypeOK, StoreType
  <2> QED BY <2>1, <2>2 DEF Committed
<1>5. nextOp \in 0..MaxOps /\ MaxOps \in Nat /\ nextOp < MaxOps
  BY BoundsAssumption DEF IInv, TypeOK, JournalType, ApplyAccept
<1>6. p \in OpIds /\ p \in Nat
  BY <1>5 DEF OpIds
<1>7. ops \in [OpIds -> Op \cup {None}] /\ txn \in [Managers -> Txn]
  BY DEF IInv, TypeOK, JournalType, TaskType
<1>8. ops'[p] = [owner |-> m, epoch |-> epoch[m], expected |-> txn[m].expected,
                 base |-> active[m], cand |-> c, state |-> "accepted"]
  BY <1>6, <1>7 DEF ApplyAccept
<1>9. \A o \in OpIds \ {p} : ops'[o] = ops[o]
  BY <1>6, <1>7 DEF ApplyAccept
<1>10. wire' = wire \cup {<<p, 1>>}
  BY DEF ApplyAccept
<1>11. txn'[m] = [txn[m] EXCEPT !.op = p, !.attempt = 1] /\ txn[m] \in Txn
  BY <1>7 DEF ApplyAccept
<1>12. /\ pc'[m] = "cas"
       /\ \A n \in Managers \ {m} : pc'[n] = pc[n] /\ txn'[n] = txn[n]
  BY <1>7 DEF ApplyAccept, IInv, TypeOK, TaskType
<1>13. txn'[m].op = p /\ txn'[m].attempt = 1
  BY <1>11 DEF Txn
<1>14. p \notin written /\ \A a : <<p, a>> \notin wire
  BY <1>5 DEF OutcomeInv, ConflictInv, IInv, JournalInv
<1>15. \A n \in Managers \ {m} : InFlight(n)' => InFlight(n) /\ txn'[n] = txn[n] /\ txn[n].op # p
  <2> SUFFICES ASSUME NEW n \in Managers \ {m}, InFlight(n)'
               PROVE  InFlight(n) /\ txn'[n] = txn[n] /\ txn[n].op # p
    OBVIOUS
  <2>1. InFlight(n) /\ txn'[n] = txn[n]
    BY <1>1, <1>12 DEF InFlight
  <2>2. txn[n].op \in 1..nextOp
    BY <2>1, InFlightAccepted
  <2> QED BY <2>1, <2>2, <1>5
<1>16. /\ c.revision = active[m].revision + 1 /\ CacheFence(c) >= CacheFence(active[m])
       /\ c.cache # Off => c.cache >= CacheFence(active[m])
  BY <1>2, <1>3, NormalizeFence
<1> HIDE DEF p, c
<1>17. OpInv'
  <2> SUFFICES ASSUME NEW o \in OpIds, o <= p
               PROVE  Prepared(o)'
    BY <1>1 DEF OpInv
  <2>1. CASE o = p
    <3>1. active[m].revision = txn[m].expected
      BY DEF ApplyAccept
    <3> QED BY <2>1, <3>1, <1>1, <1>4, <1>8, <1>16 DEF Prepared, Committed, storeVars
  <2>2. CASE o # p
    <3>1. o <= nextOp
      BY <2>2, <1>5 DEF p, OpIds
    <3>2. Prepared(o)
      BY <3>1 DEF OutcomeInv, OpInv
    <3> QED BY <2>2, <3>2, <1>1, <1>9 DEF Prepared, Committed, storeVars
  <2> QED BY <2>1, <2>2
<1>18. TxnInv'
  <2> SUFFICES ASSUME NEW n \in Managers, InFlight(n)'
               PROVE  /\ ops'[txn'[n].op].owner = n /\ ops'[txn'[n].op].base = active'[n]
                      /\ ops'[txn'[n].op].state = "accepted"
    BY DEF TxnInv
  <2>1. CASE n = m
    BY <2>1, <1>1, <1>8, <1>13
  <2>2. CASE n # m
    <3>1. InFlight(n) /\ txn'[n] = txn[n] /\ txn[n].op # p /\ txn[n].op \in OpIds
      BY <2>2, <1>15, InFlightAccepted
    <3> QED BY <3>1, <1>1, <1>9 DEF OutcomeInv, TxnInv
  <2> QED BY <2>1, <2>2
<1>19. CertainInv'
  <2> SUFFICES ASSUME NEW n \in Managers, pc'[n] = "cas", ~txn'[n].uncertain
               PROVE  /\ \A a \in {1, 2} : <<txn'[n].op, a>> \in wire' =>
                                             a = txn'[n].attempt /\ reply'[n] = None
                      /\ txn'[n].op \in written' =>
                           reply'[n].changed /\ \A a \in {1, 2} : <<txn'[n].op, a>> \notin wire'
    BY DEF CertainInv
  <2>1. CASE n = m
    <3>1. reply[m] = None
      BY <1>1 DEF IInv, TaskInv
    <3> QED BY <2>1, <3>1, <1>1, <1>10, <1>13, <1>14 DEF storeVars
  <2>2. CASE n # m
    <3>1. pc[n] = "cas" /\ txn'[n] = txn[n] /\ txn[n].op # p
      BY <2>2, <1>12, <1>15 DEF InFlight
    <3> QED BY <3>1, <1>1, <1>10 DEF OutcomeInv, CertainInv, storeVars
  <2> QED BY <2>1, <2>2
<1>20. ConflictInv'
  <2>1. ASSUME NEW n \in Managers, cont'[n] = "conflict"
        PROVE  Settled(txn[n].op)'
    <3>1. n # m /\ cont[n] = "conflict"
      BY <2>1, <1>1, <1>2, NoneAssumption
    <3>2. txn'[n] = txn[n] /\ txn[n].op # p
      BY <2>1, <3>1, <1>15 DEF InFlight
    <3>3. Settled(txn[n].op)
      BY <3>1 DEF OutcomeInv, ConflictInv
    <3> QED BY <3>2, <3>3, <1>1, <1>10 DEF Settled, storeVars
  <2>2. ASSUME NEW o \in OpIds, ops'[o] # None, ops'[o].state = "conflict"
        PROVE  Settled(o)'
    <3>1. o # p
      BY <2>2, <1>8
    <3>2. Settled(o)
      BY <2>2, <3>1, <1>9 DEF OutcomeInv, ConflictInv
    <3> QED BY <3>1, <3>2, <1>1, <1>10 DEF Settled, storeVars
  <2>3. written' \subseteq 1..nextOp'
    BY <1>1, <1>5 DEF OutcomeInv, ConflictInv, storeVars, p
  <2> QED BY <2>1, <2>2, <2>3 DEF ConflictInv
<1>21. StampInv'
  <2>1. ASSUME NEW n \in Managers
        PROVE  /\ reply'[n] # None /\ reply'[n].changed => txn'[n].op \in written'
               /\ pc'[n] = "publish" /\ Backend = "postgres" => txn'[n].op \in written'
    <3>1. CASE n = m
      BY <3>1, <1>1, <1>12 DEF IInv, TaskInv
    <3>2. CASE n # m
      BY <3>2, <1>1, <1>12 DEF OutcomeInv, StampInv, storeVars
    <3> QED BY <3>1, <3>2
  <2>2. ASSUME NEW o \in OpIds, ops'[o] # None, ops'[o].state = "candidate_activated"
        PROVE  /\ [epoch |-> ops'[o].epoch, config |-> ops'[o].cand] \in history'
               /\ Backend = "postgres" => o \in written'
    <3>1. o # p
      BY <2>2, <1>8
    <3> QED BY <2>2, <3>1, <1>1, <1>9 DEF OutcomeInv, StampInv, ActivatedWasDurable, storeVars
  <2> QED BY <2>1, <2>2, <1>1 DEF OutcomeInv, StampInv, ActivatedWasDurable, storeVars
<1> QED BY <1>17, <1>18, <1>19, <1>20, <1>21 DEF OutcomeInv

\* Every step of an administrative write keeps what is known of the journal.
LEMMA WriteKeepsOutcomes ==
  ASSUME IInv, IInv', OutcomeInv, NEW m \in Managers, Write(m)
  PROVE  OutcomeInv'
<1>t. active \in [Managers -> Config \cup {None}]
  BY DEF IInv, TypeOK, ProcessType
<1>1. ASSUME NEW s \in Submission, NEW x \in ReadRevisions, ApplyBegin(m, s, x) PROVE OutcomeInv'
  <2>1. /\ pc'[m] \in {"catchup", "precond"} /\ UNCHANGED <<reply, cont, active>> /\ cont[m] = None
        /\ \A n \in Managers \ {m} : pc'[n] = pc[n] /\ txn'[n] = txn[n]
    BY <1>1 DEF ApplyBegin, casVars, IInv, TypeOK, TaskType, TaskInv
  <2>2. Leaves(m)
    BY <2>1, NoneAssumption DEF Leaves
  <2>3. \A o \in OpIds : Recorded(o)
    BY <1>1 DEF ApplyBegin, casVars, Recorded
  <2> QED BY <1>1, <2>2, <2>3, LeavesQuiet, QuietKeepsOutcomes DEF ApplyBegin, casVars
<1>2. CASE ApplyRefused(m)
  BY <1>2, ReleaseQuiet, QuietKeepsOutcomes DEF ApplyRefused
<1>3. CASE ApplyAccept(m)
  BY <1>3, AcceptKeepsOutcomes
<1>4. ASSUME pc[m] \in {"cas", "publish"}, Unknown(m), UNCHANGED <<storeVars, active>>
      PROVE  OutcomeInv'
  BY <1>4, OutcomeQuiet, QuietKeepsOutcomes DEF Unknown, InFlight, Justified, OpStates
<1>5. CASE CasUnanswered(m)
  BY <1>4, <1>5, ResendAdvances, AdvanceKeepsOutcomes DEF CasUnanswered
<1>6. CASE CasRejected(m)
  <2>1. CASE Resend(m, txn[m].uncertain)
    <3>1. txn[m].uncertain \in BOOLEAN
      BY DEF IInv, TypeOK, TaskType, Txn
    <3> QED BY <1>6, <2>1, <3>1, ResendAdvances, AdvanceKeepsOutcomes DEF CasRejected
  <2>2. CASE RecordOutcome(m, "indeterminate") /\ ~Resend(m, txn[m].uncertain)
    <3>1. /\ pc'[m] = "idle" /\ UNCHANGED <<cont, nextOp, active, storeVars>> /\ cont[m] = None
          /\ \A n \in Managers \ {m} : pc'[n] = pc[n] /\ txn'[n] = txn[n] /\ reply'[n] = reply[n]
          /\ wire' \subseteq wire /\ pc[m] = "cas"
      BY <1>6, <2>2 DEF CasRejected, IInv, TypeOK, TaskType, TaskInv
    <3>2. Leaves(m)
      BY <3>1, NoneAssumption DEF Leaves
    <3>3. \A o \in OpIds : Recorded(o)
      BY <2>2, <3>1, <3>2, OutcomeRecorded DEF InFlight, Justified, OpStates
    <3> QED BY <3>1, <3>2, <3>3, LeavesQuiet, QuietKeepsOutcomes
  <2> QED BY <1>6, <2>1, <2>2 DEF CasRejected
<1>7. CASE CasChanged(m) \/ ResolveApplied(m) \/ ResolveConflict(m)
  BY <1>7, AnswerAdvances, AdvanceKeepsOutcomes
<1>8. CASE ResolveForeign(m) \/ ResolveUnknown(m)
  BY <1>4, <1>8 DEF ResolveForeign, ResolveUnknown, Unchanged
<1>9. CASE Publish(m)
  <2>1. pc[m] = "publish" /\ InFlight(m) /\ Release(m) /\ UNCHANGED storeVars
    BY <1>9 DEF Publish, InFlight
  <2>2. \A n \in Managers \ {m} : active'[n] = active[n]
    BY <1>9, <1>t DEF Publish
  <2>3. Justified(txn[m].op, "candidate_activated")
    BY <2>1 DEF IInv, EvidenceInv, OutcomeInv, StampInv, Justified
  <2>4. PICK x \in {"candidate_activated", "indeterminate"} : RecordOutcome(m, x)
    BY <1>9 DEF Publish
  <2>5. x \in OpStates /\ Justified(txn[m].op, x)
    BY <2>3 DEF OpStates, Justified
  <2> QED BY <2>1, <2>2, <2>4, <2>5, OutcomeQuiet, QuietKeepsOutcomes
<1> QED BY <1>1, <1>2, <1>3, <1>5, <1>6, <1>7, <1>8, <1>9 DEF Write

\* The store executes a statement: whoever still waits for it learns whether
\* it applied.
LEMMA ExecuteKeepsOutcomes ==
  ASSUME IInv, OutcomeInv, NEW o \in OpIds, NEW attempt \in {1, 2}, Execute(o, attempt)
  PROVE  OutcomeInv'
<1> DEFINE w == ops[o].owner
           waits == pc[w] = "cas" /\ txn[w].op = o /\ txn[w].attempt = attempt
<1>1. /\ <<o, attempt>> \in wire /\ wire' = wire \ {<<o, attempt>>}
      /\ UNCHANGED <<saved, ops, nextOp, active, pc, cont, txn>>
  BY DEF Execute, taskVars
<1>2. o <= nextOp /\ nextOp \in Nat /\ o \in Nat /\ o >= 1
  BY <1>1 DEF IInv, JournalInv, TypeOK, JournalType, OpIds
<1>3. ops[o] \in Op /\ w \in Managers
  BY <1>2 DEF IInv, JournalInv, Op
<1>4. /\ CasGuard(o) => CasApply(o) /\ written' = written \cup {o}
      /\ ~CasGuard(o) => UNCHANGED <<store, history, written>>
  BY DEF Execute, CasApply
<1>5. history \subseteq history'
  BY <1>4 DEF CasApply
<1>6. \A n \in Managers : n # w \/ ~waits => reply'[n] = reply[n]
  BY DEF Execute, IInv, TypeOK, TaskType
<1>7. waits => reply'[w] = [changed |-> CasGuard(o), current |-> store]
  BY <1>3 DEF Execute, IInv, TypeOK, TaskType
<1>8. /\ waits /\ CasGuard(o) => reply'[w].changed
      /\ waits /\ ~CasGuard(o) => ~reply'[w].changed
  BY <1>7
<1>9. \A n \in Managers : InFlight(n) /\ txn[n].op = o => n = w
  BY DEF OutcomeInv, TxnInv
<1>10. \A q : Settled(q) => Settled(q)'
  BY <1>1, <1>4 DEF Settled
<1>11. OpInv'
  BY <1>1, <1>5 DEF OutcomeInv, OpInv, Prepared, Committed
<1>12. TxnInv'
  BY <1>1 DEF OutcomeInv, TxnInv, InFlight
<1> HIDE DEF w, waits
<1>13. CertainInv'
  <2> SUFFICES ASSUME NEW n \in Managers, pc[n] = "cas", ~txn[n].uncertain
               PROVE  /\ \A a \in {1, 2} : <<txn[n].op, a>> \in wire' =>
                                             a = txn[n].attempt /\ reply'[n] = None
                      /\ txn[n].op \in written' =>
                           reply'[n].changed /\ \A a \in {1, 2} : <<txn[n].op, a>> \notin wire'
    BY <1>1 DEF CertainInv
  <2>1. CASE txn[n].op = o
    <3>1. n = w
      BY <2>1, <1>9 DEF InFlight
    <3>2. attempt = txn[n].attempt /\ \A a \in {1, 2} : <<o, a>> \in wire => a = attempt
      BY <2>1, <1>1 DEF OutcomeInv, CertainInv
    <3>3. o \notin written
      BY <2>1, <1>1 DEF OutcomeInv, CertainInv
    <3>4. waits
      BY <2>1, <3>1, <3>2 DEF waits
    <3>5. \A a \in {1, 2} : <<o, a>> \notin wire'
      BY <3>2, <1>1
    <3>6. o \in written' => reply'[n].changed
      BY <3>1, <3>3, <3>4, <1>4, <1>8
    <3> QED BY <2>1, <3>5, <3>6
  <2>2. CASE txn[n].op # o
    <3>1. reply'[n] = reply[n]
      BY <2>2, <1>6 DEF waits
    <3>2. txn[n].op \in written' => txn[n].op \in written
      BY <2>2, <1>4
    <3> QED BY <3>1, <3>2, <1>1 DEF OutcomeInv, CertainInv
  <2> QED BY <2>1, <2>2
<1>14. ConflictInv'
  <2>1. ASSUME NEW n \in Managers, cont'[n] = "conflict"
        PROVE  Settled(txn[n].op)'
    <3>1. Settled(txn[n].op)
      BY <2>1, <1>1 DEF OutcomeInv, ConflictInv
    <3> QED BY <3>1, <1>1, <1>4 DEF Settled
  <2>2. \A q \in OpIds : ops'[q] # None /\ ops'[q].state = "conflict" => Settled(q)'
    BY <1>1, <1>10 DEF OutcomeInv, ConflictInv
  <2>3. written' \subseteq 1..nextOp'
    <3>1. written \subseteq 1..nextOp /\ written' \subseteq written \cup {o}
      BY <1>4 DEF OutcomeInv, ConflictInv
    <3>2. o \in 1..nextOp
      BY <1>2
    <3> QED BY <3>1, <3>2, <1>1
  <2> QED BY <2>1, <2>2, <2>3 DEF ConflictInv
<1>15. StampInv'
  <2>1. Backend = "postgres" /\ store' # None => store'.stamp \in written' \cup {0}
    <3>1. CASE CasGuard(o)
      <4>1. store \in Row
        BY <3>1 DEF CasGuard, IInv, TypeOK, StoreType
      <4>2. Backend = "postgres" => store'.stamp = o
        BY <3>1, <4>1, <1>4 DEF CasApply, Row
      <4> QED BY <3>1, <4>2, <1>4
    <3>2. CASE ~CasGuard(o)
      BY <3>2, <1>4 DEF OutcomeInv, StampInv
    <3> QED BY <3>1, <3>2
  <2>2. Backend = "postgres" /\ saved' # None => saved'.stamp \in written' \cup {0}
    BY <1>1, <1>4 DEF OutcomeInv, StampInv
  <2>3. ASSUME NEW n \in Managers
        PROVE  /\ reply'[n] # None /\ reply'[n].changed => txn'[n].op \in written'
               /\ pc'[n] = "publish" /\ Backend = "postgres" => txn'[n].op \in written'
    <3>1. pc'[n] = "publish" /\ Backend = "postgres" => txn'[n].op \in written'
      BY <1>1, <1>4 DEF OutcomeInv, StampInv
    <3>2. CASE n = w /\ waits
      <4>1. txn[n].op = o
        BY <3>2 DEF waits
      <4>2. reply'[n].changed => o \in written'
        BY <3>2, <1>4, <1>8
      <4> QED BY <3>1, <4>1, <4>2, <1>1
    <3>3. CASE ~(n = w /\ waits)
      BY <3>1, <3>3, <1>1, <1>4, <1>6 DEF OutcomeInv, StampInv
    <3> QED BY <3>2, <3>3
  <2>4. ActivatedWasDurable'
    BY <1>1, <1>4, <1>5 DEF OutcomeInv, StampInv, ActivatedWasDurable
  <2> QED BY <2>1, <2>2, <2>3, <2>4 DEF StampInv
<1> QED BY <1>11, <1>12, <1>13, <1>14, <1>15 DEF OutcomeInv

----------------------------------------------------------------------------
(* The history of the store *)

\* Steps that leave the store alone keep its history.
LEMMA HistoryKept ==
  ASSUME HistoryInv, UNCHANGED <<store, nextEpoch, history, restored>>
  PROVE  HistoryInv'
BY DEF HistoryInv

\* A bootstrap opens an epoch nobody has seen.
LEMMA BootstrapKeepsHistory ==
  ASSUME IInv, HistoryInv, NEW m \in Managers, NEW s \in Submission, StartBootstrap(m, s)
  PROVE  HistoryInv'
<1>1. CASE store # None
  BY <1>1, HistoryKept DEF StartBootstrap
<1>2. CASE store = None
  <2> DEFINE seed == [revision |-> 0, body |-> s.body, cache |-> s.cache, floor |-> s.floor]
             new == [epoch |-> nextEpoch + 1, config |-> seed]
  <2>1. /\ nextEpoch' = nextEpoch + 1 /\ history' = history \cup {new} /\ restored' = restored
        /\ store' = [epoch |-> nextEpoch + 1, config |-> seed, stamp |-> 0, receipts |-> {}]
    BY <1>2 DEF StartBootstrap
  <2>2. nextEpoch \in Nat /\ history \subseteq [epoch : Nat, config : Config]
    BY DEF IInv, TypeOK, StoreType
  <2>3. \A h \in history : h.epoch \in Nat /\ h.epoch <= nextEpoch
    BY <2>2 DEF HistoryInv
  <2>4. new.epoch = nextEpoch + 1 /\ store'.epoch = nextEpoch + 1
        /\ store'.config = seed /\ new.config = seed
    BY <2>1
  <2> HIDE DEF new
  <2>5. \A h \in history' : h.epoch <= nextEpoch'
    BY <2>1, <2>2, <2>3, <2>4
  <2>6. \A h \in history : h.epoch # new.epoch
    BY <2>2, <2>3, <2>4
  <2>7. ~restored =>
          \A g, h \in history' :
            g.epoch = h.epoch /\ g.config.revision = h.config.revision => g = h
    BY <2>1, <2>6 DEF HistoryInv
  <2>8. \A h \in history' : h.epoch = store'.epoch => h.config.revision <= store'.config.revision
    BY <2>1, <2>4, <2>6
  <2> QED BY <2>1, <2>5, <2>7, <2>8 DEF HistoryInv
<1> QED BY <1>1, <1>2

\* What an applied update writes is one revision after what it replaces.
LEMMA AppliedIsNext ==
  ASSUME IInv, OutcomeInv, NEW o \in OpIds, NEW attempt \in {1, 2}, Execute(o, attempt), CasGuard(o)
  PROVE  /\ ops[o] \in Op /\ store \in Row /\ store' \in Row
         /\ store'.epoch = store.epoch /\ store'.config = ops[o].cand
         /\ ops[o].epoch = store.epoch /\ ops[o].base.revision = store.config.revision
         /\ store'.config.revision = store.config.revision + 1
         /\ history' = history \cup {[epoch |-> store.epoch, config |-> ops[o].cand]}
         /\ Prepared(o)
<1>1. o <= nextOp
  BY DEF Execute, IInv, JournalInv
<1>2. ops[o] \in Op /\ Prepared(o)
  BY <1>1 DEF IInv, JournalInv, OutcomeInv, OpInv
<1>3. store # None /\ store.epoch = ops[o].epoch /\ store.config.revision = ops[o].expected
  BY DEF CasGuard
<1>4. store \in Row
  BY <1>3 DEF IInv, TypeOK, StoreType
<1>5. /\ store' = [store EXCEPT !.config = ops[o].cand,
                            !.stamp = IF Backend = "postgres" THEN o ELSE 0,
                            !.receipts = IF Backend = "postgres" THEN @ \cup {o} ELSE @]
      /\ history' = history \cup {[epoch |-> store.epoch, config |-> ops[o].cand]}
  BY DEF Execute, CasApply
<1>6. o \in Nat /\ ops[o].cand \in Config
  BY <1>2 DEF Op, OpIds
<1>7. store' \in Row /\ store'.epoch = store.epoch /\ store'.config = ops[o].cand
  BY <1>4, <1>5, <1>6 DEF Row
<1> QED BY <1>2, <1>3, <1>4, <1>5, <1>7 DEF Prepared

\* An applied update extends the history by its newest revision.
LEMMA ExecuteKeepsHistory ==
  ASSUME IInv, OutcomeInv, HistoryInv, NEW o \in OpIds, NEW attempt \in {1, 2}, Execute(o, attempt)
  PROVE  HistoryInv'
<1>1. CASE ~CasGuard(o)
  BY <1>1, HistoryKept DEF Execute
<1>2. CASE CasGuard(o)
  <2> DEFINE new == [epoch |-> store.epoch, config |-> ops[o].cand]
  <2>1. /\ store \in Row /\ store'.epoch = store.epoch /\ store'.config = ops[o].cand
        /\ store'.config.revision = store.config.revision + 1
        /\ history' = history \cup {new} /\ ops[o] \in Op
    BY <1>2, AppliedIsNext
  <2>2. new.epoch = store.epoch /\ new.config = ops[o].cand
    OBVIOUS
  <2>3. UNCHANGED <<nextEpoch, restored>> /\ nextEpoch \in Nat
    BY DEF Execute, IInv, TypeOK, StoreType
  <2>4. store # None /\ store.epoch <= nextEpoch
    <3>1. store # None /\ [epoch |-> store.epoch, config |-> store.config] \in history
      BY <1>2 DEF CasGuard, IInv, EvidenceInv, Committed
    <3> QED BY <3>1 DEF HistoryInv
  <2>5. store.config.revision \in Nat
    BY <2>1 DEF Row, Config
  <2>6. \A h \in history : h.config.revision \in Nat
    BY DEF IInv, TypeOK, StoreType, Config
  <2> HIDE DEF new
  <2>7. \A h \in history' : h.epoch <= nextEpoch'
    BY <2>1, <2>2, <2>3, <2>4 DEF HistoryInv
  <2>8. ASSUME ~restored
        PROVE  \A h \in history : h.epoch = new.epoch => h.config.revision < new.config.revision
    BY <2>1, <2>2, <2>4, <2>5, <2>6, <2>8 DEF HistoryInv
  <2>9. ~restored =>
          \A g, h \in history' :
            g.epoch = h.epoch /\ g.config.revision = h.config.revision => g = h
    BY <2>1, <2>2, <2>5, <2>6, <2>8 DEF HistoryInv
  <2>10. ~restored =>
           \A h \in history' : h.epoch = store'.epoch => h.config.revision <= store'.config.revision
    BY <2>1, <2>2, <2>5, <2>6, <2>8
  <2> QED BY <2>3, <2>7, <2>9, <2>10 DEF HistoryInv
<1> QED BY <1>1, <1>2

\* Every step keeps the history.
LEMMA StepKeepsHistory ==
  ASSUME IInv, OutcomeInv, HistoryInv, [Next]_vars
  PROVE  HistoryInv'
<1>1. ASSUME NEW m \in Managers, Lifecycle(m) PROVE HistoryInv'
  <2>1. ASSUME NEW s \in Submission, StartBootstrap(m, s) PROVE HistoryInv'
    BY <2>1, BootstrapKeepsHistory
  <2>2. CASE UNCHANGED storeVars
    BY <2>2, HistoryKept DEF storeVars
  <2> QED BY <1>1, <2>1, <2>2 DEF Lifecycle, StartLoad, StartInherited, Crash, Exit, Gone, Freeze,
             Export, Resume, Withdraw, StopAccepting
<1>2. ASSUME NEW m \in Managers, Reconcile(m) PROVE HistoryInv'
  <2>1. UNCHANGED storeVars
    BY <1>2 DEF Reconcile, Poll, CatchUp, JudgeForeign, JudgeRollback, JudgeAgrees, JudgeDiverged,
                JudgeFrozen, JudgeFails, JudgeNewer, Adopt, AdoptUnpreparable, AdoptRefused,
                AbandonPoll, GraceLapse, GraceTimer
  <2> QED BY <2>1, HistoryKept DEF storeVars
<1>3. ASSUME NEW m \in Managers, Write(m) PROVE HistoryInv'
  <2>1. UNCHANGED storeVars
    BY <1>3 DEF Write, ApplyBegin, ApplyRefused, ApplyAccept, CasUnanswered, CasRejected,
       CasChanged,
                ResolveApplied, ResolveConflict, ResolveForeign, ResolveUnknown, Publish
  <2> QED BY <2>1, HistoryKept DEF storeVars
<1>4. ASSUME NEW o \in OpIds, NEW attempt \in {1, 2}, Execute(o, attempt) PROVE HistoryInv'
  BY <1>4, ExecuteKeepsHistory
<1>5. CASE Backup \/ Restore \/ Wipe
  BY <1>5 DEF Backup, Restore, Wipe, HistoryInv
<1>6. CASE UNCHANGED vars
  BY <1>6, HistoryKept DEF vars
<1> QED BY <1>1, <1>2, <1>3, <1>4, <1>5, <1>6 DEF Next

----------------------------------------------------------------------------
(* Adoption *)

\* Nobody but m is touched, and m does not come to adopt.
Elsewhere(m) ==
  /\ \A n \in Managers \ {m} :
       /\ pc'[n] = pc[n] /\ obs'[n] = obs[n] /\ active'[n] = active[n] /\ epoch'[n] = epoch[n]
       /\ life'[n] = life[n]
  /\ pc'[m] # "adopt" /\ (Up(m)' \/ epoch'[m] = None)

\* Such a step keeps what is known of adoptions.
LEMMA ElsewhereKeepsAdoption ==
  ASSUME AdoptInv, NEW m \in Managers, Elsewhere(m)
  PROVE  AdoptInv'
<1> SUFFICES ASSUME NEW n \in Managers
             PROVE  /\ pc'[n] = "adopt" /\ epoch'[n] # None =>
                         obs'[n].config.revision > active'[n].revision
                    /\ ~Up(n)' => epoch'[n] = None
  BY DEF AdoptInv
<1>1. CASE n = m
  BY <1>1 DEF Elsewhere
<1>2. CASE n # m
  BY <1>2 DEF Elsewhere, AdoptInv, Up
<1> QED BY <1>1, <1>2

\* So does one that touches neither tasks nor documents.
LEMMA AdoptionKept ==
  ASSUME AdoptInv, UNCHANGED <<pc, obs, life, active, epoch>>
  PROVE  AdoptInv'
BY DEF AdoptInv, Up

\* A returning task of m does not adopt.
LEMMA ReturnElsewhere ==
  ASSUME IInv, NEW m \in Managers, NEW ok \in BOOLEAN, Return(m, ok) \/ Release(m)
  PROVE  /\ pc'[m] # "adopt"
         /\ \A n \in Managers \ {m} : pc'[n] = pc[n] /\ obs'[n] = obs[n]
BY DEF Return, Release, IInv, TypeOK, TaskType

\* Every step keeps what is known of adoptions; JudgeNewer establishes it.
LEMMA StepKeepsAdoption ==
  ASSUME IInv, AdoptInv, [Next]_vars
  PROVE  AdoptInv'
<1>t. /\ active \in [Managers -> Config \cup {None}] /\ epoch \in [Managers -> Nat \cup {None}]
      /\ DOMAIN life = Managers /\ DOMAIN pc = Managers /\ DOMAIN obs = Managers
      /\ pc = [n \in Managers |-> pc[n]] /\ life = [n \in Managers |-> life[n]]
      /\ obs = [n \in Managers |-> obs[n]]
  BY DEF IInv, TypeOK, ProcessType, TaskType
<1>u. \A n \in Managers : pc[n] # "idle" => Up(n)
  BY DEF IInv, TaskInv
<1>1. ASSUME NEW m \in Managers, Lifecycle(m) PROVE AdoptInv'
  <2>1. CASE StartLoad(m) \/ \E s \in Submission : StartBootstrap(m, s)
    <3>1. pc[m] = "idle" /\ UNCHANGED <<pc, obs>> /\ epoch[m] = None
      BY <2>1, <1>u DEF StartLoad, StartBootstrap, taskVars, Up, AdoptInv
    <3>2. \A n \in Managers \ {m} :
            active'[n] = active[n] /\ epoch'[n] = epoch[n] /\ life'[n] = life[n]
      BY <2>1, <1>t DEF StartLoad, StartBootstrap, Begin
    <3>3. Up(m)' \/ epoch'[m] = None
      BY <2>1, <3>1, <1>t DEF StartLoad, StartBootstrap, Begin, Up
    <3> QED BY <3>1, <3>2, <3>3, ElsewhereKeepsAdoption DEF Elsewhere
  <2>2. ASSUME NEW k \in Managers, StartInherited(m, k) PROVE AdoptInv'
    <3>1. pc[m] = "idle" /\ UNCHANGED <<pc, obs>>
      BY <2>2, <1>u DEF StartInherited, taskVars, Up
    <3>2. /\ \A n \in Managers \ {m} : active'[n] = active[n] /\ epoch'[n] = epoch[n]
          /\ \A n \in Managers \ {m, k} : life'[n] = life[n]
          /\ life'[k] \in {"retiring", "serving"} /\ life'[m] \in {"retiring", "serving"}
          /\ life[k] = "frozen"
      BY <2>2, <1>t DEF StartInherited
    <3> QED BY <3>1, <3>2 DEF AdoptInv, Up
  <2>3. CASE Crash(m) \/ Exit(m)
    <3>1. \A n \in Managers \ {m} :
            active'[n] = active[n] /\ epoch'[n] = epoch[n] /\ life'[n] = life[n]
      BY <2>3, <1>t DEF Crash, Exit, Gone
    <3>2. epoch'[m] = None /\ Release(m)
      BY <2>3, <1>t DEF Crash, Exit, Gone
    <3> QED BY <3>1, <3>2, ReturnElsewhere, ElsewhereKeepsAdoption DEF Elsewhere
  <2>4. CASE Freeze(m) \/ Export(m) \/ Resume(m) \/ Withdraw(m) \/ StopAccepting(m)
    <3>1. /\ UNCHANGED <<pc, obs, active, epoch>>
          /\ \A n \in Managers : (Up(n) <=> Up(n)')
      BY <2>4, <1>t DEF Freeze, Export, Resume, Withdraw, StopAccepting, taskVars, Up
    <3> QED BY <3>1 DEF AdoptInv
  <2> QED BY <1>1, <2>1, <2>2, <2>3, <2>4 DEF Lifecycle
<1>2. ASSUME NEW m \in Managers, Reconcile(m) PROVE AdoptInv'
  <2>1. CASE Poll(m) \/ CatchUp(m)
    <3>1. UNCHANGED <<life, active, epoch>>
      BY <2>1 DEF Poll, CatchUp
    <3>2. CASE Read(m, "poll") \/ Read(m, "precond")
      <4>1. pc'[m] # "adopt" /\ \A n \in Managers \ {m} : pc'[n] = pc[n] /\ obs'[n] = obs[n]
        BY <3>2, <1>t DEF Read
      <4> QED BY <3>1, <4>1, ElsewhereKeepsAdoption DEF Elsewhere, AdoptInv, Up
    <3>3. CASE ReadFails(m)
      <4>1. pc'[m] # "adopt" /\ \A n \in Managers \ {m} : pc'[n] = pc[n] /\ obs'[n] = obs[n]
        BY <3>3, ReturnElsewhere DEF ReadFails
      <4> QED BY <3>1, <4>1, ElsewhereKeepsAdoption DEF Elsewhere, AdoptInv, Up
    <3> QED BY <2>1, <3>2, <3>3 DEF Poll, CatchUp
  <2>2. CASE JudgeForeign(m) \/ JudgeRollback(m) \/ JudgeDiverged(m) \/ JudgeFrozen(m)
             \/ AdoptUnpreparable(m) \/ AdoptRefused(m)
    <3>1. Return(m, FALSE) /\ UNCHANGED <<life, active, epoch>>
      BY <2>2 DEF JudgeForeign, JudgeRollback, JudgeDiverged, JudgeFrozen, JudgeFails,
                  AdoptUnpreparable, AdoptRefused
    <3>2. pc'[m] # "adopt" /\ \A n \in Managers \ {m} : pc'[n] = pc[n] /\ obs'[n] = obs[n]
      BY <3>1, ReturnElsewhere
    <3> QED BY <3>1, <3>2, ElsewhereKeepsAdoption DEF Elsewhere, AdoptInv, Up
  <2>3. CASE JudgeAgrees(m) \/ Adopt(m) \/ AbandonPoll(m)
    <3>1. /\ \A n \in Managers \ {m} : active'[n] = active[n] /\ epoch'[n] = epoch[n]
          /\ life' = life /\ pc[m] \in {"judge", "adopt"}
          /\ Return(m, TRUE) \/ Release(m)
      BY <2>3, <1>t DEF JudgeAgrees, Adopt, AbandonPoll
    <3>2. pc'[m] # "adopt" /\ \A n \in Managers \ {m} : pc'[n] = pc[n] /\ obs'[n] = obs[n]
      BY <3>1, ReturnElsewhere
    <3>3. Up(m)'
      BY <3>1, <1>u DEF Up
    <3> QED BY <3>1, <3>2, <3>3, ElsewhereKeepsAdoption DEF Elsewhere
  <2>4. CASE JudgeNewer(m)
    <3>1. /\ pc[m] = "judge" /\ pc' = [pc EXCEPT ![m] = "adopt"]
          /\ UNCHANGED <<obs, life, active, epoch>>
          /\ Newer(m)
      BY <2>4 DEF JudgeNewer
    <3>2. obs[m] \in Row /\ active[m] \in Config
      BY <3>1, <1>u DEF IInv, TaskInv, ServingInv
    <3>3. obs[m].config.revision \in Nat /\ active[m].revision \in Nat
      BY <3>2 DEF Row, Config
    <3>4. epoch[m] # None => obs[m].config.revision > active[m].revision
      BY <3>1, <3>3 DEF Newer, RolledBack, Diverged, Fresh
    <3>5. \A n \in Managers \ {m} : pc'[n] = pc[n]
      BY <3>1, <1>t
    <3> QED BY <3>1, <3>4, <3>5 DEF AdoptInv, Up
  <2>5. CASE GraceLapse(m) \/ GraceTimer(m)
    BY <2>5, AdoptionKept DEF GraceLapse, GraceTimer, taskVars
  <2> QED BY <1>2, <2>1, <2>2, <2>3, <2>4, <2>5 DEF Reconcile
<1>3. ASSUME NEW m \in Managers, Write(m) PROVE AdoptInv'
  <2>1. UNCHANGED <<life, epoch>> /\ \A n \in Managers \ {m} : active'[n] = active[n]
    BY <1>3, <1>t DEF Write, ApplyBegin, ApplyRefused, ApplyAccept, CasUnanswered, CasRejected,
           CasChanged, ResolveApplied, ResolveConflict, ResolveForeign, ResolveUnknown, Publish
  <2>2. pc'[m] # "adopt" /\ \A n \in Managers \ {m} : pc'[n] = pc[n] /\ obs'[n] = obs[n]
    BY <1>3, <1>t DEF Write, ApplyBegin, ApplyRefused, ApplyAccept, CasUnanswered, CasRejected,
           CasChanged, ResolveApplied, ResolveConflict, ResolveForeign, ResolveUnknown, Publish,
           Release, Unknown, Resend, Unchanged
  <2> QED BY <2>1, <2>2, ElsewhereKeepsAdoption DEF Elsewhere, AdoptInv, Up
<1>4. ASSUME NEW o \in OpIds, NEW attempt \in {1, 2}, Execute(o, attempt) PROVE AdoptInv'
  BY <1>4, AdoptionKept DEF Execute, taskVars
<1>5. CASE Backup \/ Restore \/ Wipe
  BY <1>5, AdoptionKept DEF Backup, Restore, Wipe, taskVars
<1>6. CASE UNCHANGED vars
  BY <1>6, AdoptionKept DEF vars
<1> QED BY <1>1, <1>2, <1>3, <1>4, <1>5, <1>6 DEF Next

----------------------------------------------------------------------------
(* The frozen snapshot *)

\* The task of m moves, without publishing anything behind an export.
Harmless(m) ==
  /\ UNCHANGED <<life, stopping, exported>>
  /\ \A n \in Managers \ {m} : active'[n] = active[n] /\ pc'[n] = pc[n] /\ cont'[n] = cont[n]
  /\ life[m] = "frozen" =>
       pc'[m] \in {"idle", "judge"} /\ cont'[m] \in {None, "poll"} /\ active'[m] = active[m]

\* Such a step keeps the exported snapshot the published one.
LEMMA HarmlessKeepsFrozen ==
  ASSUME FrozenInv, NEW m \in Managers, Harmless(m)
  PROVE  FrozenInv'
<1> SUFFICES ASSUME NEW n \in Managers
             PROVE  /\ life'[n] \in {"freezing", "frozen"} => stopping'[n]
                    /\ life'[n] = "frozen" =>
                         /\ pc'[n] \in {"idle", "judge"} /\ cont'[n] \in {None, "poll"}
                         /\ exported'[n].config = active'[n]
  BY DEF FrozenInv
<1>1. CASE n = m
  BY <1>1 DEF Harmless, FrozenInv
<1>2. CASE n # m
  BY <1>2 DEF Harmless, FrozenInv
<1> QED BY <1>1, <1>2

\* So does one that touches none of it.
LEMMA FrozenKept ==
  ASSUME FrozenInv, UNCHANGED <<life, stopping, exported, active, pc, cont>>
  PROVE  FrozenInv'
BY DEF FrozenInv

\* The lifecycle keeps it; the export, which waits for the lock, establishes it.
LEMMA LifecycleKeepsFrozen ==
  ASSUME IInv, FrozenInv, NEW m \in Managers, Lifecycle(m)
  PROVE  FrozenInv'
<1>t. /\ active = [n \in Managers |-> active[n]] /\ life = [n \in Managers |-> life[n]]
      /\ stopping = [n \in Managers |-> stopping[n]] /\ exported = [n \in Managers |-> exported[n]]
      /\ pc = [n \in Managers |-> pc[n]] /\ cont = [n \in Managers |-> cont[n]]
  BY DEF IInv, TypeOK, ProcessType, FlagType, TaskType
\* The life of m changes, and what belongs to the others does not.
<1> DEFINE Alone == \A n \in Managers \ {m} :
             /\ life'[n] = life[n] /\ stopping'[n] = stopping[n] /\ exported'[n] = exported[n]
             /\ active'[n] = active[n] /\ pc'[n] = pc[n] /\ cont'[n] = cont[n]
<1>a. ASSUME Alone, life'[m] \in {"freezing", "frozen"} => stopping'[m],
             life'[m] = "frozen" =>
               /\ pc'[m] \in {"idle", "judge"} /\ cont'[m] \in {None, "poll"}
               /\ exported'[m].config = active'[m]
      PROVE  FrozenInv'
  <2> SUFFICES ASSUME NEW n \in Managers
               PROVE  /\ life'[n] \in {"freezing", "frozen"} => stopping'[n]
                      /\ life'[n] = "frozen" =>
                           /\ pc'[n] \in {"idle", "judge"} /\ cont'[n] \in {None, "poll"}
                           /\ exported'[n].config = active'[n]
    BY DEF FrozenInv
  <2>1. CASE n = m
    BY <1>a, <2>1
  <2>2. CASE n # m
    BY <1>a, <2>2 DEF FrozenInv
  <2> QED BY <2>1, <2>2
<1>1. CASE StartLoad(m) \/ \E s \in Submission : StartBootstrap(m, s)
  <2>1. Alone
    BY <1>1, <1>t DEF StartLoad, StartBootstrap, Begin, taskVars
  <2>2. life'[m] \in {"serving", "seeding"}
    BY <1>1, <1>t DEF StartLoad, StartBootstrap, Begin
  <2> QED BY <2>1, <2>2, <1>a
<1>2. ASSUME NEW k \in Managers, StartInherited(m, k) PROVE FrozenInv'
  <2>1. \A n \in Managers \ {m, k} :
          /\ life'[n] = life[n] /\ stopping'[n] = stopping[n] /\ exported'[n] = exported[n]
          /\ active'[n] = active[n] /\ pc'[n] = pc[n] /\ cont'[n] = cont[n]
    BY <1>2, <1>t DEF StartInherited, taskVars
  <2>2. life'[m] \in {"serving", "retiring"} /\ life'[k] \in {"serving", "retiring"}
    BY <1>2, <1>t DEF StartInherited
  <2> QED BY <2>1, <2>2 DEF FrozenInv
<1>3. CASE Crash(m) \/ Exit(m)
  <2>1. Alone
    BY <1>3, <1>t DEF Crash, Exit, Gone, Release
  <2>2. life'[m] = "down"
    BY <1>3, <1>t DEF Crash, Exit, Gone
  <2> QED BY <2>1, <2>2, <1>a
<1>4. CASE Freeze(m) \/ Resume(m) \/ Withdraw(m)
  <2>1. Alone
    BY <1>4, <1>t DEF Freeze, Resume, Withdraw, taskVars
  <2>2. life'[m] # "frozen" /\ (life'[m] = "freezing" => stopping'[m])
    BY <1>4, <1>t DEF Freeze, Resume, Withdraw
  <2> QED BY <2>1, <2>2, <1>a
<1>5. CASE Export(m)
  <2>1. Alone /\ stopping' = stopping
    BY <1>5, <1>t DEF Export, taskVars, flagVars
  <2>2. stopping[m] /\ pc'[m] = "idle" /\ cont'[m] = None
    BY <1>5 DEF Export, FrozenInv, IInv, TaskInv, taskVars
  <2>3. exported'[m] = [config |-> active[m], epoch |-> epoch[m]] /\ active' = active
    BY <1>5, <1>t DEF Export
  <2> QED BY <2>1, <2>2, <2>3, <1>a
<1>6. CASE StopAccepting(m)
  BY <1>6, FrozenKept DEF StopAccepting, taskVars
<1> QED BY <1>1, <1>2, <1>3, <1>4, <1>5, <1>6 DEF Lifecycle

\* A poll of a frozen instance judges, and stops before it adopts.
LEMMA ReconcileKeepsFrozen ==
  ASSUME IInv, FrozenInv, NEW m \in Managers, Reconcile(m)
  PROVE  FrozenInv'
<1>t. /\ active = [n \in Managers |-> active[n]]
      /\ pc = [n \in Managers |-> pc[n]] /\ cont = [n \in Managers |-> cont[n]]
  BY DEF IInv, TypeOK, ProcessType, TaskType
<1>u. life[m] = "frozen" => pc[m] \in {"idle", "judge"} /\ cont[m] \in {None, "poll"} /\ stopping[m]
  BY DEF FrozenInv
<1>r. ASSUME NEW ok \in BOOLEAN, Return(m, ok) \/ Release(m)
      PROVE  /\ \A n \in Managers \ {m} : pc'[n] = pc[n] /\ cont'[n] = cont[n]
             /\ life[m] = "frozen" => pc'[m] = "idle" /\ cont'[m] = None
  BY <1>r, <1>t, <1>u, NoneAssumption DEF Return, Release
<1>1. CASE Poll(m) \/ CatchUp(m)
  <2>1. UNCHANGED <<life, stopping, exported, active>> /\ pc[m] \in {"idle", "catchup"}
    BY <1>1 DEF Poll, CatchUp
  <2>2. CASE Read(m, "poll") /\ Poll(m)
    <3>1. /\ pc'[m] = "judge" /\ cont'[m] = "poll"
          /\ \A n \in Managers \ {m} : pc'[n] = pc[n] /\ cont'[n] = cont[n]
      BY <2>2, <1>t DEF Read
    <3> QED BY <2>1, <3>1, HarmlessKeepsFrozen DEF Harmless
  <2>3. CASE Read(m, "precond") /\ CatchUp(m)
    <3>1. /\ life[m] # "frozen"
          /\ \A n \in Managers \ {m} : pc'[n] = pc[n] /\ cont'[n] = cont[n]
      BY <2>3, <1>t, <1>u DEF Read, CatchUp
    <3> QED BY <2>1, <3>1, HarmlessKeepsFrozen DEF Harmless
  <2>4. CASE ReadFails(m)
    <3>1. Return(m, FALSE)
      BY <2>4 DEF ReadFails
    <3> QED BY <2>1, <3>1, <1>r, HarmlessKeepsFrozen DEF Harmless
  <2> QED BY <1>1, <2>2, <2>3, <2>4 DEF Poll, CatchUp
<1>2. CASE JudgeForeign(m) \/ JudgeRollback(m) \/ JudgeDiverged(m) \/ JudgeFrozen(m)
           \/ AdoptUnpreparable(m) \/ AdoptRefused(m)
  <2>1. Return(m, FALSE) /\ UNCHANGED <<life, stopping, exported, active>>
    BY <1>2 DEF JudgeForeign, JudgeRollback, JudgeDiverged, JudgeFrozen, JudgeFails,
                AdoptUnpreparable, AdoptRefused, flagVars
  <2> QED BY <2>1, <1>r, HarmlessKeepsFrozen DEF Harmless
<1>3. CASE JudgeAgrees(m)
  <2>1. Return(m, TRUE) /\ UNCHANGED <<life, stopping, exported, active>>
    BY <1>3 DEF JudgeAgrees
  <2> QED BY <2>1, <1>r, HarmlessKeepsFrozen DEF Harmless
<1>4. CASE JudgeNewer(m) \/ Adopt(m) \/ AbandonPoll(m)
  <2>1. life[m] # "frozen" /\ UNCHANGED <<life, stopping, exported>>
    BY <1>4, <1>u DEF JudgeNewer, Adopt, AbandonPoll, flagVars
  <2>2. \A n \in Managers \ {m} : active'[n] = active[n] /\ pc'[n] = pc[n] /\ cont'[n] = cont[n]
    <3>1. CASE JudgeNewer(m)
      BY <3>1, <1>t DEF JudgeNewer
    <3>2. CASE Adopt(m) \/ AbandonPoll(m)
      <4>1. Return(m, TRUE) \/ Release(m)
        BY <3>2 DEF Adopt, AbandonPoll
      <4>2. \A n \in Managers \ {m} : active'[n] = active[n]
        BY <3>2, <1>t DEF Adopt, AbandonPoll
      <4> QED BY <4>1, <4>2, <1>r
    <3> QED BY <1>4, <3>1, <3>2
  <2> QED BY <2>1, <2>2, HarmlessKeepsFrozen DEF Harmless
<1>5. CASE GraceLapse(m) \/ GraceTimer(m)
  BY <1>5, FrozenKept DEF GraceLapse, GraceTimer, taskVars, flagVars
<1> QED BY <1>1, <1>2, <1>3, <1>4, <1>5 DEF Reconcile

\* Every step keeps it: a frozen instance has no write under way.
LEMMA StepKeepsFrozen ==
  ASSUME IInv, FrozenInv, [Next]_vars
  PROVE  FrozenInv'
<1>1. ASSUME NEW m \in Managers, Lifecycle(m) PROVE FrozenInv'
  BY <1>1, LifecycleKeepsFrozen
<1>2. ASSUME NEW m \in Managers, Reconcile(m) PROVE FrozenInv'
  BY <1>2, ReconcileKeepsFrozen
<1>3. ASSUME NEW m \in Managers, Write(m) PROVE FrozenInv'
  <2>t. /\ active = [n \in Managers |-> active[n]]
        /\ pc = [n \in Managers |-> pc[n]] /\ cont = [n \in Managers |-> cont[n]]
    BY DEF IInv, TypeOK, ProcessType, TaskType
  <2>1. UNCHANGED <<life, stopping, exported>> /\ \A n \in Managers \ {m} : active'[n] = active[n]
    BY <1>3, <2>t DEF Write, ApplyBegin, ApplyRefused, ApplyAccept, CasUnanswered, CasRejected,
           CasChanged, ResolveApplied, ResolveConflict, ResolveForeign, ResolveUnknown, Publish,
           flagVars
  <2>2. \A n \in Managers \ {m} : pc'[n] = pc[n] /\ cont'[n] = cont[n]
    BY <1>3, <2>t DEF Write, ApplyBegin, ApplyRefused, ApplyAccept, CasUnanswered, CasRejected,
           CasChanged, ResolveApplied, ResolveConflict, ResolveForeign, ResolveUnknown, Publish,
           Release, Unknown, Resend
  <2>3. pc[m] \notin {"idle", "judge"} \/ ~stopping[m]
    BY <1>3 DEF Write, ApplyBegin, ApplyRefused, ApplyAccept, CasUnanswered, CasRejected,
           CasChanged, ResolveApplied, ResolveConflict, ResolveForeign, ResolveUnknown, Publish,
           Unchanged
  <2>4. life[m] # "frozen"
    BY <2>3 DEF FrozenInv
  <2> QED BY <2>1, <2>2, <2>4, HarmlessKeepsFrozen DEF Harmless
<1>4. ASSUME NEW o \in OpIds, NEW attempt \in {1, 2}, Execute(o, attempt) PROVE FrozenInv'
  BY <1>4, FrozenKept DEF Execute, taskVars, flagVars
<1>5. CASE Backup \/ Restore \/ Wipe
  BY <1>5, FrozenKept DEF Backup, Restore, Wipe, taskVars, flagVars
<1>6. CASE UNCHANGED vars
  BY <1>6, FrozenKept DEF vars
<1> QED BY <1>1, <1>2, <1>3, <1>4, <1>5, <1>6 DEF Next

----------------------------------------------------------------------------
(* Readiness *)

\* Instance n may advertise readiness.
MayBeReady(n) ==
  Up(n) /\ ~withdrawing[n] /\ grace[n] # "never" /\ failure[n] \notin Disagreement

\* Readiness is unchanged and still justified, or withdrawn.
StillReady(n) == ready'[n] => ready[n] /\ (MayBeReady(n) => MayBeReady(n)')

\* Readiness that is kept or newly justified is justified.
LEMMA StillReadyJustified ==
  ASSUME ReadyJustified, \A n \in Managers : StillReady(n) \/ MayBeReady(n)'
  PROVE  ReadyJustified'
BY DEF ReadyJustified, StillReady, MayBeReady

\* What the step does not touch stays justified.
LEMMA ReadyUntouched ==
  ASSUME UNCHANGED <<ready, withdrawing, healthVars>>, \A n \in Managers : Up(n) => Up(n)'
  PROVE  \A n \in Managers : StillReady(n)
BY DEF StillReady, MayBeReady, healthVars

\* A failure withdraws readiness, or is one of transport within the grace.
LEMMA FailStillReady ==
  ASSUME IInv, NEW m \in Managers, NEW reason \in Transport \cup Disagreement, Fail(m, reason),
         UNCHANGED <<life, withdrawing>>
  PROVE  \A n \in Managers : StillReady(n)
<1>1. /\ \A n \in Managers \ {m} : ready'[n] = ready[n] /\ failure'[n] = failure[n]
      /\ failure'[m] = reason
      /\ ready'[m] => ready[m] /\ reason \in Transport
  BY DEF Fail, IInv, TypeOK, FlagType
<1>2. \A x \in Transport : x \notin Disagreement
  BY DEF Transport, Disagreement
<1> SUFFICES ASSUME NEW n \in Managers PROVE StillReady(n)
  OBVIOUS
<1>3. CASE n = m
  BY <1>1, <1>2, <1>3 DEF StillReady, MayBeReady, Fail, Up
<1>4. CASE n # m
  BY <1>1, <1>4 DEF StillReady, MayBeReady, Fail, Up
<1> QED BY <1>3, <1>4

\* A confirmation justifies the readiness it restores.
LEMMA ConfirmReady ==
  ASSUME IInv, ReadyJustified, NEW m \in Managers, Confirm(m), Up(m), UNCHANGED <<life,
         withdrawing>>
  PROVE  ReadyJustified'
<1>1. /\ \A n \in Managers \ {m} :
           ready'[n] = ready[n] /\ failure'[n] = failure[n] /\ grace'[n] = grace[n]
      /\ failure'[m] = None /\ grace'[m] = "fresh"
      /\ ready'[m] => ready[m] \/ ~withdrawing[m]
  BY DEF Confirm, IInv, TypeOK, FlagType
<1> SUFFICES ASSUME NEW n \in Managers, ready'[n]
             PROVE  /\ Up(n)' /\ ~withdrawing'[n]
                    /\ grace'[n] # "never" /\ failure'[n] \notin Disagreement
  BY DEF ReadyJustified
<1>2. CASE n = m
  BY <1>1, <1>2, NoneAssumption DEF ReadyJustified, Up
<1>3. CASE n # m
  BY <1>1, <1>3 DEF ReadyJustified, Up
<1> QED BY <1>2, <1>3

\* Startup is not ready, and shutdown withdraws readiness.
LEMMA LifecycleKeepsReady ==
  ASSUME IInv, ReadyJustified, NEW m \in Managers, Lifecycle(m)
  PROVE  ReadyJustified'
<1>t. /\ life = [n \in Managers |-> life[n]] /\ ready = [n \in Managers |-> ready[n]]
      /\ withdrawing = [n \in Managers |-> withdrawing[n]]
      /\ grace = [n \in Managers |-> grace[n]] /\ failure = [n \in Managers |-> failure[n]]
  BY DEF IInv, TypeOK, ProcessType, FlagType
<1>1. CASE StartLoad(m) \/ (\E s \in Submission : StartBootstrap(m, s))
           \/ (\E k \in Managers : StartInherited(m, k))
           \/ Freeze(m) \/ Export(m) \/ StopAccepting(m)
  <2>1. UNCHANGED <<ready, withdrawing, healthVars>>
    BY <1>1 DEF StartLoad, StartBootstrap, StartInherited, Freeze, Export, StopAccepting, flagVars
  <2>2. \A n \in Managers : Up(n) => Up(n)'
    BY <1>1, <1>t DEF StartLoad, StartBootstrap, StartInherited, Freeze, Export, StopAccepting,
       Begin, Up
  <2> QED BY <2>1, <2>2, ReadyUntouched, StillReadyJustified
<1>2. CASE Crash(m) \/ Exit(m) \/ Withdraw(m)
  <2>1. ~ready'[m]
    BY <1>2, <1>t DEF Crash, Exit, Gone, Withdraw
  <2>2. \A n \in Managers \ {m} :
          /\ ready'[n] = ready[n] /\ life'[n] = life[n] /\ withdrawing'[n] = withdrawing[n]
          /\ grace'[n] = grace[n] /\ failure'[n] = failure[n]
    BY <1>2, <1>t DEF Crash, Exit, Gone, Withdraw, healthVars
  <2> QED BY <2>1, <2>2 DEF ReadyJustified, Up
<1>3. CASE Resume(m)
  <2>1. \A n \in Managers : (Up(n) => Up(n)') /\ (~withdrawing[n] => ~withdrawing'[n])
    BY <1>3, <1>t DEF Resume, Up
  <2> QED BY <1>3, <2>1 DEF Resume, ReadyJustified, healthVars
<1> QED BY <1>1, <1>2, <1>3 DEF Lifecycle

\* A poll confirms, fails, or leaves readiness alone.
LEMMA ReconcileKeepsReady ==
  ASSUME IInv, ReadyJustified, NEW m \in Managers, Reconcile(m)
  PROVE  ReadyJustified'
<1>1. ASSUME NEW reason \in Transport \cup Disagreement, Fail(m, reason), UNCHANGED <<life,
             withdrawing>>
      PROVE  ReadyJustified'
  BY <1>1, FailStillReady, StillReadyJustified
<1>2. ASSUME UNCHANGED <<life, ready, withdrawing, healthVars>>
      PROVE  ReadyJustified'
  BY <1>2, ReadyUntouched, StillReadyJustified DEF Up
<1>3. CASE Poll(m) \/ CatchUp(m)
  <2>1. UNCHANGED <<life, withdrawing>>
    BY <1>3 DEF Poll, CatchUp
  <2>2. CASE Read(m, "poll") \/ Read(m, "precond")
    BY <1>2, <2>1, <2>2 DEF Read
  <2>3. CASE ReadFails(m)
    BY <1>1, <2>1, <2>3 DEF ReadFails, Transport, Disagreement
  <2> QED BY <1>3, <2>2, <2>3 DEF Poll, CatchUp
<1>4. CASE JudgeForeign(m) \/ JudgeRollback(m) \/ JudgeDiverged(m) \/ JudgeFrozen(m)
           \/ AdoptUnpreparable(m) \/ AbandonPoll(m) \/ GraceTimer(m)
  <2>1. UNCHANGED <<life, withdrawing>>
    BY <1>4 DEF JudgeForeign, JudgeRollback, JudgeDiverged, JudgeFrozen, JudgeFails,
                AdoptUnpreparable, AbandonPoll, GraceTimer
  <2>2. PICK reason \in Transport \cup Disagreement : Fail(m, reason)
    BY <1>4 DEF JudgeForeign, JudgeRollback, JudgeDiverged, JudgeFrozen, JudgeFails,
                AdoptUnpreparable, AbandonPoll, GraceTimer, Transport, Disagreement
  <2> QED BY <1>1, <2>1, <2>2
<1>5. CASE JudgeAgrees(m) \/ Adopt(m)
  <2>1. Up(m) /\ Confirm(m) /\ UNCHANGED <<life, withdrawing>>
    BY <1>5 DEF JudgeAgrees, Adopt, IInv, TaskInv
  <2> QED BY <2>1, ConfirmReady
<1>6. CASE JudgeNewer(m) \/ AdoptRefused(m)
  BY <1>2, <1>6 DEF JudgeNewer, AdoptRefused, flagVars
<1>7. CASE GraceLapse(m)
  <2>1. \A n \in Managers : grace[n] # "never" => grace'[n] # "never"
    BY <1>7 DEF GraceLapse, IInv, TypeOK, FlagType
  <2> QED BY <1>7, <2>1 DEF GraceLapse, ReadyJustified, flagVars, Up
<1> QED BY <1>3, <1>4, <1>5, <1>6, <1>7 DEF Reconcile

\* Every step keeps readiness justified.
LEMMA StepKeepsReady ==
  ASSUME IInv, ReadyJustified, [Next]_vars
  PROVE  ReadyJustified'
<1>0. ASSUME UNCHANGED <<life, ready, withdrawing, healthVars>>
      PROVE  ReadyJustified'
  BY <1>0, ReadyUntouched, StillReadyJustified DEF Up
<1>1. ASSUME NEW m \in Managers, Lifecycle(m) PROVE ReadyJustified'
  BY <1>1, LifecycleKeepsReady
<1>2. ASSUME NEW m \in Managers, Reconcile(m) PROVE ReadyJustified'
  BY <1>2, ReconcileKeepsReady
<1>3. ASSUME NEW m \in Managers, Write(m) PROVE ReadyJustified'
  <2>1. CASE ResolveForeign(m)
    <3>1. "authority_changed" \in Transport \cup Disagreement
      BY DEF Disagreement
    <3> QED BY <2>1, <3>1, FailStillReady, StillReadyJustified DEF ResolveForeign
  <2>2. CASE UNCHANGED <<life, flagVars, healthVars>>
    BY <1>0, <2>2 DEF flagVars
  <2> QED BY <1>3, <2>1, <2>2 DEF Write, ApplyBegin, ApplyRefused, ApplyAccept, CasUnanswered,
             CasRejected, CasChanged, ResolveApplied, ResolveConflict, ResolveUnknown, Publish
<1>4. ASSUME NEW o \in OpIds, NEW attempt \in {1, 2}, Execute(o, attempt) PROVE ReadyJustified'
  BY <1>0, <1>4 DEF Execute, flagVars
<1>5. CASE Backup \/ Restore \/ Wipe
  BY <1>0, <1>5 DEF Backup, Restore, Wipe, flagVars
<1>6. CASE UNCHANGED vars
  BY <1>0, <1>6 DEF vars, healthVars
<1> QED BY <1>1, <1>2, <1>3, <1>4, <1>5, <1>6 DEF Next

----------------------------------------------------------------------------
(* The theorems *)

\* The second inductive invariant: the journal and its statements, the
\* history, the adoptions, and what instances hand over and advertise.
SInv == OutcomeInv /\ HistoryInv /\ AdoptInv /\ FrozenInv /\ ReadyJustified

\* The invariant holds when every process is down and the store is empty.
LEMMA InitSafe == Init => SInv
<1> SUFFICES ASSUME Init PROVE SInv
  OBVIOUS
<1>1. OutcomeInv
  BY NoneAssumption, BoundsAssumption
     DEF Init, OutcomeInv, OpInv, TxnInv, CertainInv, ConflictInv, StampInv, ActivatedWasDurable,
         InFlight, OpIds
<1>2. HistoryInv /\ AdoptInv /\ FrozenInv /\ ReadyJustified
  BY DEF Init, HistoryInv, AdoptInv, FrozenInv, ReadyJustified
<1> QED BY <1>1, <1>2 DEF SInv

\* Every step preserves it.
LEMMA StepSafe ==
  ASSUME IInv, SInv, [Next]_vars
  PROVE  SInv'
<1>0. IInv'
  BY StepInv
<1>1. OutcomeInv'
  <2> USE DEF SInv
  <2>1. ASSUME NEW m \in Managers, Lifecycle(m) PROVE OutcomeInv'
    BY <1>0, <2>1, LifecycleQuiet, QuietKeepsOutcomes
  <2>2. ASSUME NEW m \in Managers, Reconcile(m) PROVE OutcomeInv'
    BY <1>0, <2>2, ReconcileQuiet, QuietKeepsOutcomes
  <2>3. ASSUME NEW m \in Managers, Write(m) PROVE OutcomeInv'
    BY <1>0, <2>3, WriteKeepsOutcomes
  <2>4. ASSUME NEW o \in OpIds, NEW attempt \in {1, 2}, Execute(o, attempt) PROVE OutcomeInv'
    BY <2>4, ExecuteKeepsOutcomes
  <2>5. CASE Backup \/ Restore \/ Wipe
    BY <1>0, <2>5, OperatorQuiet, QuietKeepsOutcomes
  <2>6. CASE UNCHANGED vars
    BY <1>0, <2>6, StillStep, QuietKeepsOutcomes DEF vars, casVars, taskVars
  <2> QED BY <2>1, <2>2, <2>3, <2>4, <2>5, <2>6 DEF Next
<1>2. HistoryInv' /\ AdoptInv' /\ FrozenInv' /\ ReadyJustified'
  BY StepKeepsHistory, StepKeepsAdoption, StepKeepsFrozen, StepKeepsReady DEF SInv
<1> QED BY <1>1, <1>2 DEF SInv

\* Both inductive invariants hold of every behaviour.
LEMMA Safety == Spec => [](IInv /\ SInv)
<1>1. IInv /\ SInv /\ [Next]_vars => SInv'
  BY StepSafe
<1> QED BY <1>1, InitSafe, Invariance, PTL DEF Spec

\* What finish_config records of an operation is true and stays true, for
\* any number of instances, lost answers, retries and late statements.
THEOREM JournalIsTruthful == Spec => []JournalTruthful
<1>1. SInv => JournalTruthful
  BY DEF SInv, OutcomeInv, ConflictInv, StampInv, Settled, JournalTruthful, ConflictNeverWritten
<1> QED BY <1>1, Safety, PTL

\* The snapshot freeze_updates hands over stays the published one, and
\* readiness is advertised only by instances that confirmed agreement.
THEOREM InstancesAreHonest == Spec => []InstancesHonest
<1>1. SInv => InstancesHonest
  BY DEF SInv, FrozenInv, InstancesHonest, HandoffSnapshotCurrent
<1> QED BY <1>1, Safety, PTL

\* Instances of one authority agree on what a revision is.
LEMMA RevisionsAgree ==
  ASSUME IInv, SInv
  PROVE  OneDocumentPerRevision
<1> SUFFICES ASSUME ~restored, NEW m \in Managers, NEW n \in Managers, Up(m), Up(n),
                    epoch[m] # None, epoch[m] = epoch[n], active[m].revision = active[n].revision
             PROVE  active[m] = active[n]
  BY DEF OneDocumentPerRevision
<1>1. PICK g \in history : g.config = active[m] /\ g.epoch = epoch[m]
  BY DEF IInv, ServingInv, Backed
<1>2. PICK h \in history : h.config = active[n] /\ h.epoch = epoch[n]
  BY DEF IInv, ServingInv, Backed
<1> QED BY <1>1, <1>2 DEF SInv, HistoryInv

\* An update only replaces the document it was prepared on.
LEMMA AppliedOnItsBase ==
  ASSUME IInv, SInv, ~restored, NEW o \in OpIds, NEW attempt \in {1, 2}, Execute(o, attempt),
         CasGuard(o)
  PROVE  ops[o].base = store.config
<1>1. /\ ops[o].epoch = store.epoch /\ ops[o].base.revision = store.config.revision /\ Prepared(o)
  BY AppliedIsNext DEF SInv
<1>2. store # None
  BY DEF CasGuard
<1> DEFINE g == [epoch |-> store.epoch, config |-> store.config]
           h == [epoch |-> ops[o].epoch, config |-> ops[o].base]
<1>3. g \in history /\ h \in history
  BY <1>1, <1>2 DEF IInv, EvidenceInv, Committed, Prepared
<1>4. g.epoch = h.epoch /\ g.config.revision = h.config.revision
  BY <1>1
<1>5. g = h
  BY <1>3, <1>4 DEF SInv, HistoryInv
<1>6. g.config = store.config /\ h.config = ops[o].base
  OBVIOUS
<1> QED BY <1>5, <1>6

\* Only the execution of a statement writes; only it and the operator change
\* a store that is not empty.
LEMMA StoreChanges ==
  ASSUME [Next]_vars
  PROVE  \/ UNCHANGED <<store, written>>
         \/ store = None /\ written' = written
         \/ Restore \/ Wipe
         \/ \E o \in OpIds, attempt \in {1, 2} : Execute(o, attempt) /\ CasGuard(o)
<1>1. ASSUME NEW m \in Managers, Lifecycle(m)
      PROVE  UNCHANGED <<store, written>> \/ (store = None /\ written' = written)
  BY <1>1 DEF Lifecycle, StartLoad, StartBootstrap, StartInherited, Crash, Exit, Gone, Freeze,
              Export, Resume, Withdraw, StopAccepting, storeVars
<1>2. ASSUME NEW m \in Managers, Reconcile(m) PROVE UNCHANGED <<store, written>>
  BY <1>2 DEF Reconcile, Poll, CatchUp, JudgeForeign, JudgeRollback, JudgeAgrees, JudgeDiverged,
              JudgeFrozen, JudgeFails, JudgeNewer, Adopt, AdoptUnpreparable, AdoptRefused,
              AbandonPoll, GraceLapse, GraceTimer, storeVars
<1>3. ASSUME NEW m \in Managers, Write(m) PROVE UNCHANGED <<store, written>>
  BY <1>3 DEF Write, ApplyBegin, ApplyRefused, ApplyAccept, CasUnanswered, CasRejected, CasChanged,
              ResolveApplied, ResolveConflict, ResolveForeign, ResolveUnknown, Publish, storeVars
<1>4. ASSUME NEW o \in OpIds, NEW attempt \in {1, 2}, Execute(o, attempt)
      PROVE  UNCHANGED <<store, written>> \/ CasGuard(o)
  BY <1>4 DEF Execute
<1>5. CASE Backup
  BY <1>5 DEF Backup
<1>6. CASE UNCHANGED vars
  BY <1>6 DEF vars
<1> QED BY <1>1, <1>2, <1>3, <1>4, <1>5, <1>6 DEF Next

\* No update is lost: a write replaces exactly the document it was prepared
\* on, revisions name one document, and the invalidation fence never falls.
THEOREM NoUpdateIsLost == Spec => NoLostUpdate
<1>1. IInv /\ SInv /\ [Next]_vars =>
        \A o \in written' \ written : ~restored => ops[o].base = store.config
  <2> SUFFICES ASSUME IInv, SInv, [Next]_vars, NEW o \in written' \ written, ~restored
               PROVE  ops[o].base = store.config
    OBVIOUS
  <2>1. PICK q \in OpIds, attempt \in {1, 2} : Execute(q, attempt) /\ CasGuard(q)
    BY StoreChanges DEF Restore, Wipe
  <2>2. written' = written \cup {q}
    BY <2>1 DEF Execute, CasApply
  <2> QED BY <2>1, <2>2, AppliedOnItsBase
<1>2. IInv /\ SInv /\ [Next]_vars =>
        (~restored' /\ store # None /\ store' # None /\ store'.epoch = store.epoch =>
           /\ CacheFence(store'.config) >= CacheFence(store.config)
           /\ store'.config # store.config /\ store'.config.cache # Off =>
                store'.config.cache >= CacheFence(store.config))
  <2> SUFFICES ASSUME IInv, SInv, [Next]_vars, ~restored', store # None, store' # None
               PROVE  /\ CacheFence(store'.config) >= CacheFence(store.config)
                      /\ store'.config # store.config /\ store'.config.cache # Off =>
                           store'.config.cache >= CacheFence(store.config)
    OBVIOUS
  <2>1. CASE store' = store
    <3>1. store.config \in Config
      BY DEF IInv, TypeOK, StoreType, Row
    <3>2. CacheFence(store.config) \in Nat
      BY <3>1 DEF Config, CacheFence, Larger, Generation
    <3> QED BY <2>1, <3>2
  <2>2. ASSUME NEW o \in OpIds, NEW attempt \in {1, 2}, Execute(o, attempt), CasGuard(o)
        PROVE  /\ CacheFence(store'.config) >= CacheFence(store.config)
               /\ store'.config # store.config /\ store'.config.cache # Off =>
                    store'.config.cache >= CacheFence(store.config)
    <3>1. ~restored
      BY <2>2 DEF Execute
    <3>2. ops[o].base = store.config /\ store'.config = ops[o].cand /\ Prepared(o)
      BY <2>2, <3>1, AppliedOnItsBase, AppliedIsNext DEF SInv
    <3> QED BY <3>2 DEF Prepared
  <2> QED BY <2>1, <2>2, StoreChanges DEF Restore, Wipe
<1>3. IInv /\ SInv => OneDocumentPerRevision
  BY RevisionsAgree
<1> QED BY <1>1, <1>2, <1>3, Safety, PTL DEF Spec, NoLostUpdate, BuiltOnCurrent, FenceNeverFalls

----------------------------------------------------------------------------
(* Refinement: the instances and their store are the abstract authority *)

\* The refinement mapping of module Authority.
Durable == IF store = None THEN None ELSE [epoch |-> store.epoch, config |-> store.config]
View(m) == IF Up(m) THEN [epoch |-> epoch[m], config |-> active[m]] ELSE None
Served == [m \in Managers |-> View(m)]

\* Only what m serves changes.
Only(m) == \A n \in Managers \ {m} : View(n)' = View(n)

\* Then the served documents change at m alone.
LEMMA ServedAt ==
  ASSUME NEW m \in Managers, Only(m)
  PROVE  Served' = [Served EXCEPT ![m] = View(m)']
BY DEF Served, Only

\* Instance m begins to serve a document that was durable.
LEMMA AbsAttach ==
  ASSUME NEW m \in Managers, Only(m), NEW p \in history', NEW e \in {p.epoch, None},
         View(m)' = [epoch |-> e, config |-> p.config],
         View(m) = None \/ View(m).epoch = None
  PROVE  Abs!Attach(m)
<1>1. Served' = [Served EXCEPT ![m] = [epoch |-> e, config |-> p.config]]
  BY ServedAt
<1>2. Served[m] = None \/ Served[m].epoch = None
  BY DEF Served
<1> QED BY <1>1, <1>2 DEF Abs!Attach, Served, View

\* Instance m moves to a later document of its epoch.
LEMMA AbsAdvance ==
  ASSUME NEW m \in Managers, Only(m), NEW p \in history, View(m)' = p, View(m) # None,
         p.epoch = View(m).epoch, p.config.revision > View(m).config.revision,
         UNCHANGED <<store, history>>
  PROVE  Abs!Advance(m)
<1>1. Served' = [Served EXCEPT ![m] = p]
  BY ServedAt
<1>2. Served[m] = View(m)
  BY DEF Served
<1> QED BY <1>1, <1>2 DEF Abs!Advance, Served, View

\* Instance m stops serving.
LEMMA AbsLeave ==
  ASSUME NEW m \in Managers, Only(m), View(m)' = None, UNCHANGED <<store, history>>
  PROVE  Abs!Leave(m)
<1>1. Served' = [Served EXCEPT ![m] = None]
  BY ServedAt
<1> QED BY <1>1 DEF Abs!Leave, Served, View

\* Nothing the authority shows changes.
LEMMA AbsStutter ==
  ASSUME \A n \in Managers : View(n)' = View(n), UNCHANGED <<store, history>>
  PROVE  UNCHANGED Abs!varsA
<1>1. Served' = Served
  BY DEF Served
<1> QED BY <1>1 DEF Abs!varsA, Served, View

\* The durable document is replaced by its successor.
LEMMA AbsCommit ==
  ASSUME UNCHANGED Served, Durable # None,
         Durable' \in [epoch : {Durable.epoch}, config : Config],
         Durable'.config.revision = Durable.config.revision + 1,
         history' = history \cup {Durable'}
  PROVE  Abs!Commit
BY DEF Abs!Commit, Durable, Served, View

\* The empty store is bootstrapped.
LEMMA AbsSeed ==
  ASSUME Durable = None, Durable' \in [epoch : Nat, config : Config],
         \A p \in history : p.epoch # Durable'.epoch, history' = history \cup {Durable'}
  PROVE  Abs!Seed
BY DEF Abs!Seed, Durable

\* The operator empties the store or brings a document back.
LEMMA AbsLoseOrRewind ==
  ASSUME UNCHANGED <<Served, history>>, Durable' = None \/ Durable' \in history
  PROVE  Abs!Lose \/ Abs!Rewind
BY DEF Abs!Lose, Abs!Rewind, Durable, Served, View

\* A view is a record of an epoch and a document, and no absent value.
LEMMA ViewRecord ==
  ASSUME IInv, NEW m \in Managers, Up(m)
  PROVE  /\ View(m) = [epoch |-> epoch[m], config |-> active[m]] /\ View(m) # None
         /\ View(m).epoch = epoch[m] /\ View(m).config = active[m]
<1>1. active[m] \in Config /\ epoch[m] \in Nat \cup {None}
  BY DEF IInv, ServingInv, TypeOK, ProcessType
<1>2. View(m) = [epoch |-> epoch[m], config |-> active[m]]
  BY DEF View
<1>3. View(m) \in [config : Config, epoch : Nat \cup {None}]
  BY <1>1, <1>2
<1> QED BY <1>2, <1>3, NoneAssumption

\* Instance m begins to serve what the store holds.
LEMMA BeginAttaches ==
  ASSUME IInv, NEW m \in Managers, ~Up(m), NEW c, NEW e, Begin(m, c, e), [epoch |-> e,
         config |-> c] \in history'
  PROVE  Abs!Attach(m) /\ Only(m)
<1>1. /\ life'[m] = "serving" /\ active'[m] = c /\ epoch'[m] = e
      /\ \A n \in Managers \ {m} :
           life'[n] = life[n] /\ active'[n] = active[n] /\ epoch'[n] = epoch[n]
  BY DEF Begin, IInv, TypeOK, ProcessType
<1>2. Only(m) /\ View(m) = None /\ View(m)' = [epoch |-> e, config |-> c]
  BY <1>1 DEF Only, View, Up
<1> DEFINE p == [epoch |-> e, config |-> c]
<1>3. p.epoch = e /\ p.config = c
  OBVIOUS
<1> HIDE DEF p
<1>4. p \in history' /\ e \in {p.epoch, None} /\ View(m)' = [epoch |-> e, config |-> p.config]
  BY <1>2, <1>3 DEF p
<1> QED BY <1>2, <1>4, AbsAttach

\* Startup attaches or seeds, an exit leaves, the rest is invisible.
LEMMA LifecycleRefines ==
  ASSUME IInv, IInv', SInv, NEW m \in Managers, Lifecycle(m)
  PROVE  [Abs!ANext]_(Abs!varsA)
<1>t. /\ life = [n \in Managers |-> life[n]] /\ active = [n \in Managers |-> active[n]]
      /\ epoch = [n \in Managers |-> epoch[n]]
  BY DEF IInv, TypeOK, ProcessType
<1>1. CASE StartLoad(m)
  <2>1. CASE store = None
    <3>1. \A n \in Managers : View(n)' = View(n)
      BY <1>1, <2>1, <1>t DEF StartLoad, View, Up
    <3> QED BY <1>1, <3>1, AbsStutter DEF StartLoad, storeVars
  <2>2. CASE store # None
    <3>1. Begin(m, store.config, store.epoch) /\ ~Up(m) /\ UNCHANGED <<store, history>>
      BY <1>1, <2>2 DEF StartLoad, Up, storeVars
    <3>2. [epoch |-> store.epoch, config |-> store.config] \in history'
      BY <2>2, <3>1 DEF IInv, EvidenceInv, Committed
    <3>3. Abs!Attach(m)
      BY <3>1, <3>2, BeginAttaches
    <3> QED BY <3>1, <3>3 DEF Abs!ANext
  <2> QED BY <2>1, <2>2
<1>2. ASSUME NEW s \in Submission, StartBootstrap(m, s) PROVE [Abs!ANext]_(Abs!varsA)
  <2>0. ~Up(m)
    BY <1>2 DEF StartBootstrap, Up
  <2>1. CASE store # None
    <3>1. Begin(m, store.config, store.epoch) /\ UNCHANGED <<store, history>>
      BY <1>2, <2>1 DEF StartBootstrap
    <3>2. [epoch |-> store.epoch, config |-> store.config] \in history'
      BY <2>1, <3>1 DEF IInv, EvidenceInv, Committed
    <3>3. Abs!Attach(m)
      BY <2>0, <3>1, <3>2, BeginAttaches
    <3> QED BY <3>1, <3>3 DEF Abs!ANext
  <2>2. CASE store = None
    <3> DEFINE seed == [revision |-> 0, body |-> s.body, cache |-> s.cache, floor |-> s.floor]
    <3>1. /\ store' = [epoch |-> nextEpoch + 1, config |-> seed, stamp |-> 0, receipts |-> {}]
          /\ history' = history \cup {[epoch |-> nextEpoch + 1, config |-> seed]}
          /\ Begin(m, seed, nextEpoch + 1)
      BY <1>2, <2>2 DEF StartBootstrap
    <3>2. store'.epoch = nextEpoch + 1 /\ store'.config = seed
      BY <3>1
    <3> HIDE DEF seed
    <3>3. [epoch |-> nextEpoch + 1, config |-> seed] \in history'
      BY <3>1
    <3>4. Abs!Attach(m)
      BY <2>0, <3>1, <3>3, BeginAttaches
    <3>5. nextEpoch \in Nat /\ \A p \in history : p.epoch \in Nat /\ p.epoch <= nextEpoch
      BY DEF IInv, TypeOK, StoreType, SInv, HistoryInv
    <3>6. store' \in Row
      <4>1. \A h \in history' : h.config \in Config
        BY DEF IInv, TypeOK, StoreType
      <4>2. seed \in Config
        BY <3>3, <4>1
      <4> QED BY <3>1, <3>5, <4>2 DEF Row
    <3>7. store' # None
      BY <3>6, NoneAssumption
    <3>8. Durable' = [epoch |-> nextEpoch + 1, config |-> seed] /\ seed \in Config
      BY <3>2, <3>6, <3>7 DEF Durable, Row
    <3>9. Durable = None
      BY <2>2 DEF Durable
    <3>10. Durable'.epoch = nextEpoch + 1 /\ Durable' \in [epoch : Nat, config : Config]
      BY <3>5, <3>8
    <3>11. \A p \in history : p.epoch # Durable'.epoch
      BY <3>5, <3>10
    <3>12. history' = history \cup {Durable'}
      BY <3>1, <3>8
    <3>13. Abs!Seed
      BY <3>9, <3>10, <3>11, <3>12, AbsSeed
    <3> QED BY <3>4, <3>13 DEF Abs!ANext
  <2> QED BY <2>1, <2>2
<1>3. ASSUME NEW k \in Managers, StartInherited(m, k) PROVE [Abs!ANext]_(Abs!varsA)
  <2>1. PICK e \in {exported[k].epoch, None} :
          /\ life' = [life EXCEPT ![m] = "serving", ![k] = "retiring"]
          /\ active' = [active EXCEPT ![m] = exported[k].config]
          /\ epoch' = [epoch EXCEPT ![m] = e]
    BY <1>3 DEF StartInherited
  <2>2. life[m] = "down" /\ life[k] = "frozen" /\ UNCHANGED <<store, history>>
    BY <1>3 DEF StartInherited, storeVars
  <2>3. /\ life'[m] = "serving" /\ life'[k] = "retiring" /\ m # k
        /\ active'[m] = exported[k].config /\ epoch'[m] = e
        /\ \A n \in Managers \ {m} : active'[n] = active[n] /\ epoch'[n] = epoch[n]
        /\ \A n \in Managers \ {m, k} : life'[n] = life[n]
    BY <2>1, <2>2, <1>t
  <2>4. Only(m) /\ View(m) = None /\ View(m)' = [epoch |-> e, config |-> exported[k].config]
    BY <2>2, <2>3 DEF Only, View, Up
  <2>5. PICK p \in history : p.config = exported[k].config
                             /\ (exported[k].epoch = None \/ p.epoch = exported[k].epoch)
    BY <2>2 DEF IInv, ServingInv, Backed
  <2>6. p \in history' /\ e \in {p.epoch, None} /\ View(m)' = [epoch |-> e, config |-> p.config]
    BY <2>1, <2>2, <2>4, <2>5
  <2>7. Abs!Attach(m)
    BY <2>4, <2>6, AbsAttach
  <2> QED BY <2>2, <2>7 DEF Abs!ANext
<1>4. CASE Crash(m) \/ Exit(m)
  <2>1. /\ life'[m] = "down" /\ UNCHANGED <<store, history>>
        /\ \A n \in Managers \ {m} :
             life'[n] = life[n] /\ active'[n] = active[n] /\ epoch'[n] = epoch[n]
    BY <1>4, <1>t DEF Crash, Exit, Gone, storeVars
  <2>2. Only(m) /\ View(m)' = None
    BY <2>1 DEF Only, View, Up
  <2> QED BY <2>1, <2>2, AbsLeave DEF Abs!ANext
<1>5. CASE Freeze(m) \/ Export(m) \/ Resume(m) \/ Withdraw(m) \/ StopAccepting(m)
  <2>1. /\ UNCHANGED <<active, epoch, store, history>>
        /\ \A n \in Managers : (Up(n) <=> Up(n)')
    BY <1>5, <1>t DEF Freeze, Export, Resume, Withdraw, StopAccepting, storeVars, Up
  <2>2. \A n \in Managers : View(n)' = View(n)
    BY <2>1 DEF View
  <2> QED BY <2>1, <2>2, AbsStutter
<1> QED BY <1>1, <1>2, <1>3, <1>4, <1>5 DEF Lifecycle

\* Instance m replaces what it serves by a document that was durable.
LEMMA ReplaceRefines ==
  ASSUME IInv, NEW m \in Managers, Up(m), UNCHANGED <<life, store, history>>,
         \A n \in Managers \ {m} : active'[n] = active[n] /\ epoch'[n] = epoch[n],
         NEW p \in history, active'[m] = p.config,
         \/ epoch[m] = None /\ epoch'[m] \in {p.epoch, None}
         \/ epoch[m] = p.epoch /\ epoch'[m] = p.epoch /\ p.config.revision > active[m].revision
  PROVE  Abs!ANext
<1>1. /\ View(m) = [epoch |-> epoch[m], config |-> active[m]] /\ View(m) # None
      /\ View(m).epoch = epoch[m] /\ View(m).config = active[m]
  BY ViewRecord
<1>2. View(m)' = [epoch |-> epoch'[m], config |-> p.config]
  BY DEF View, Up
<1>3. Only(m)
  BY DEF Only, View, Up
<1>4. CASE epoch[m] = None /\ epoch'[m] \in {p.epoch, None}
  <2>1. Abs!Attach(m)
    BY <1>1, <1>2, <1>3, <1>4, AbsAttach
  <2> QED BY <2>1 DEF Abs!ANext
<1>5. CASE epoch[m] = p.epoch /\ epoch'[m] = p.epoch /\ p.config.revision > active[m].revision
  <2>1. p \in [epoch : Nat, config : Config]
    BY DEF IInv, TypeOK, StoreType
  <2>2. View(m)' = p
    BY <1>2, <1>5, <2>1
  <2>3. Abs!Advance(m)
    BY <1>1, <1>3, <1>5, <2>2, AbsAdvance
  <2> QED BY <2>3 DEF Abs!ANext
<1> QED BY <1>4, <1>5

\* A step that changes no document is invisible.
LEMMA SameViewRefines ==
  ASSUME UNCHANGED <<life, active, epoch, store, history>>
  PROVE  [Abs!ANext]_(Abs!varsA)
BY AbsStutter DEF View, Up

\* An adoption attaches or advances, the rest of a poll is invisible.
LEMMA ReconcileRefines ==
  ASSUME IInv, SInv, NEW m \in Managers, Reconcile(m)
  PROVE  [Abs!ANext]_(Abs!varsA)
<1>t. /\ active = [n \in Managers |-> active[n]] /\ epoch = [n \in Managers |-> epoch[n]]
  BY DEF IInv, TypeOK, ProcessType
\* The row before the holder of `writes` was durable.
<1>o. ASSUME pc[m] \in {"judge", "adopt"}
      PROVE  /\ Up(m) /\ [epoch |-> obs[m].epoch, config |-> obs[m].config] \in history
  BY <1>o DEF IInv, TaskInv, EvidenceInv, Committed
<1>1. CASE \/ Poll(m) \/ CatchUp(m) \/ JudgeForeign(m) \/ JudgeRollback(m) \/ JudgeDiverged(m)
           \/ JudgeFrozen(m) \/ JudgeNewer(m) \/ AdoptUnpreparable(m) \/ AdoptRefused(m)
           \/ GraceLapse(m) \/ GraceTimer(m)
  <2>1. UNCHANGED <<life, active, epoch, store, history>>
    BY <1>1 DEF Poll, CatchUp, JudgeForeign, JudgeRollback, JudgeDiverged, JudgeFrozen, JudgeFails,
                JudgeNewer, AdoptUnpreparable, AdoptRefused, GraceLapse, GraceTimer, storeVars
  <2> QED BY <2>1, SameViewRefines
<1>2. CASE JudgeAgrees(m)
  <2>1. /\ pc[m] = "judge" /\ ~Foreign(m) /\ obs[m].config = active[m]
        /\ epoch' = [epoch EXCEPT ![m] = obs[m].epoch] /\ UNCHANGED <<life, active, store, history>>
    BY <1>2 DEF JudgeAgrees, Agrees, storeVars
  <2>2. /\ epoch'[m] = obs[m].epoch
        /\ \A n \in Managers \ {m} : active'[n] = active[n] /\ epoch'[n] = epoch[n]
    BY <2>1, <1>t
  <2>3. CASE epoch[m] # None
    <3>1. epoch' = epoch
      BY <2>1, <2>3, <1>t DEF Foreign, Fresh
    <3> QED BY <2>1, <3>1, SameViewRefines
  <2>4. CASE epoch[m] = None
    <3>1. PICK p \in history : p = [epoch |-> obs[m].epoch, config |-> obs[m].config]
      BY <1>o, <2>1
    <3>2. p.epoch = obs[m].epoch /\ p.config = obs[m].config
      BY <3>1
    <3> QED BY <1>o, <2>1, <2>2, <2>4, <3>2, ReplaceRefines
  <2> QED BY <2>3, <2>4
<1>3. CASE Adopt(m) \/ AbandonPoll(m)
  <2>1. pc[m] = "adopt" /\ UNCHANGED <<life, store, history>>
    BY <1>3 DEF Adopt, AbandonPoll, storeVars
  <2>2. PICK p \in history : p = [epoch |-> obs[m].epoch, config |-> obs[m].config]
    BY <1>o, <2>1
  <2>3. p.epoch = obs[m].epoch /\ p.config = obs[m].config
    BY <2>2
  <2>4. /\ epoch[m] = None \/ epoch[m] = obs[m].epoch
        /\ epoch[m] # None => obs[m].config.revision > active[m].revision
    BY <2>1 DEF IInv, TaskInv, SInv, AdoptInv
  <2>5. CASE active' = active /\ epoch' = epoch
    BY <2>1, <2>5, SameViewRefines
  <2>6. CASE ~(active' = active /\ epoch' = epoch)
    <3>1. /\ active'[m] = p.config
          /\ epoch'[m] \in {obs[m].epoch, epoch[m]}
          /\ \A n \in Managers \ {m} : active'[n] = active[n] /\ epoch'[n] = epoch[n]
      BY <1>3, <2>3, <2>6, <1>t DEF Adopt, AbandonPoll
    <3> QED BY <1>o, <2>1, <2>3, <2>4, <3>1, ReplaceRefines
  <2> QED BY <2>5, <2>6
<1> QED BY <1>1, <1>2, <1>3 DEF Reconcile

\* The publication of a write advances its instance, the rest is invisible.
LEMMA WriteRefines ==
  ASSUME IInv, SInv, NEW m \in Managers, Write(m)
  PROVE  [Abs!ANext]_(Abs!varsA)
<1>1. CASE Publish(m) /\ tcpOpen[m]
  <2> DEFINE o == txn[m].op
  <2>1. /\ pc[m] = "publish" /\ active' = [active EXCEPT ![m] = ops[o].cand]
        /\ UNCHANGED <<life, epoch, store, history>>
    BY <1>1 DEF Publish, storeVars
  <2>2. InFlight(m) /\ Up(m)
    BY <2>1 DEF InFlight, IInv, TaskInv
  <2>3. /\ active'[m] = ops[o].cand
        /\ \A n \in Managers \ {m} : active'[n] = active[n] /\ epoch'[n] = epoch[n]
    BY <2>1 DEF IInv, TypeOK, ProcessType
  <2>4. o \in OpIds /\ o <= nextOp /\ ops[o] \in Op
    <3>1. o \in 1..nextOp /\ nextOp \in Nat
      BY <2>2, InFlightAccepted DEF IInv, TypeOK, JournalType
    <3> QED BY <2>2, <3>1, InFlightAccepted
  <2>5. ops[o].epoch = epoch[m] /\ ops[o].base = active[m]
    BY <2>2 DEF IInv, JournalInv, SInv, OutcomeInv, TxnInv
  <2>6. Prepared(o)
    BY <2>4 DEF SInv, OutcomeInv, OpInv
  <2>7. ops[o].cand.revision > active[m].revision
    <3>1. active[m].revision \in Nat
      BY <2>2 DEF IInv, ServingInv, Config
    <3> QED BY <2>5, <2>6, <3>1 DEF Prepared
  <2>8. PICK p \in history : p = [epoch |-> ops[o].epoch, config |-> ops[o].cand]
    BY <2>1 DEF IInv, EvidenceInv, Committed
  <2>9. p.epoch = epoch[m] /\ p.config = ops[o].cand
    BY <2>5, <2>8
  <2> HIDE DEF o
  <2> QED BY <2>1, <2>2, <2>3, <2>7, <2>9, ReplaceRefines
<1>2. CASE UNCHANGED <<life, active, epoch, storeVars>>
  BY <1>2, SameViewRefines DEF storeVars
<1> QED BY <1>1, <1>2 DEF Write, ApplyBegin, ApplyRefused, ApplyAccept, CasUnanswered, CasRejected,
           CasChanged, ResolveApplied, ResolveConflict, ResolveForeign, ResolveUnknown, Publish

\* An applied statement commits; any other is invisible.
LEMMA ExecuteRefines ==
  ASSUME IInv, SInv, NEW o \in OpIds, NEW attempt \in {1, 2}, Execute(o, attempt)
  PROVE  [Abs!ANext]_(Abs!varsA)
<1>1. UNCHANGED <<life, active, epoch>>
  BY DEF Execute
<1>2. CASE ~CasGuard(o)
  BY <1>1, <1>2, SameViewRefines DEF Execute
<1>3. CASE CasGuard(o)
  <2>1. /\ store \in Row /\ store' \in Row
        /\ store'.epoch = store.epoch /\ store'.config = ops[o].cand
        /\ store'.config.revision = store.config.revision + 1
        /\ history' = history \cup {[epoch |-> store.epoch, config |-> ops[o].cand]}
    BY <1>3, AppliedIsNext DEF SInv
  <2>2. store # None /\ store' # None
    BY <2>1, NoneAssumption
  <2>3. /\ Durable = [epoch |-> store.epoch, config |-> store.config]
        /\ Durable' = [epoch |-> store.epoch, config |-> ops[o].cand]
    BY <2>1, <2>2 DEF Durable
  <2>4. store.epoch \in Nat /\ store.config \in Config /\ ops[o].cand \in Config
    BY <2>1 DEF Row
  <2>5. Durable \in [config : Config, epoch : Nat \cup {None}]
    BY <2>3, <2>4
  <2>6. Durable # None
    BY <2>5, NoneAssumption
  <2>7. /\ Durable.epoch = store.epoch /\ Durable.config = store.config
        /\ Durable'.config = ops[o].cand
    BY <2>3
  <2>8. Durable' \in [epoch : {Durable.epoch}, config : Config]
    BY <2>3, <2>4, <2>7
  <2>9. history' = history \cup {Durable'}
    BY <2>1, <2>3
  <2>10. Durable'.config.revision = Durable.config.revision + 1
    BY <2>1, <2>7
  <2>11. UNCHANGED Served
    BY <1>1 DEF Served, View, Up
  <2>12. Abs!Commit
    BY <2>6, <2>8, <2>9, <2>10, <2>11, AbsCommit
  <2> QED BY <2>12 DEF Abs!ANext
<1> QED BY <1>2, <1>3

\* A restored backup rewinds, a wipe loses the document.
LEMMA OperatorRefines ==
  ASSUME IInv, Backup \/ Restore \/ Wipe
  PROVE  [Abs!ANext]_(Abs!varsA)
<1>1. UNCHANGED <<life, active, epoch, history>>
  BY DEF Backup, Restore, Wipe
<1>2. UNCHANGED Served
  BY <1>1 DEF Served, View, Up
<1>3. CASE Backup
  BY <1>1, <1>3, SameViewRefines DEF Backup
<1>4. CASE Restore
  <2>1. store' = saved /\ saved # None
    BY <1>4 DEF Restore
  <2>2. Durable' \in history
    BY <2>1 DEF Durable, IInv, EvidenceInv, Committed
  <2> QED BY <1>1, <1>2, <2>2, AbsLoseOrRewind DEF Abs!ANext
<1>5. CASE Wipe
  <2>1. Durable' = None
    BY <1>5 DEF Wipe, Durable
  <2> QED BY <1>1, <1>2, <2>1, AbsLoseOrRewind DEF Abs!ANext
<1> QED BY <1>3, <1>4, <1>5

\* Every step is a step of the authority or invisible to it.
LEMMA StepRefines ==
  ASSUME IInv, SInv, [Next]_vars
  PROVE  [Abs!ANext]_(Abs!varsA)
<1>0. IInv'
  BY StepInv
<1>1. CASE UNCHANGED vars
  BY <1>1, SameViewRefines DEF vars
<1> QED BY <1>0, <1>1, LifecycleRefines, ReconcileRefines, WriteRefines, ExecuteRefines,
           OperatorRefines DEF Next

\* The instances, their journal, their retries and their polls implement the
\* abstract authority: one durable document per epoch, replaced only by a
\* successor, and instances that only serve what was durable and move forward.
THEOREM AuthorityImplemented == Spec => ImplementsAuthority
<1>1. Init => Abs!AInit
  BY DEF Init, Abs!AInit, Up
<1>2. IInv /\ SInv /\ [Next]_vars => [Abs!ANext]_(Abs!varsA)
  BY StepRefines
<1> QED BY <1>1, <1>2, Safety, PTL DEF Spec, ImplementsAuthority, Abs!ASpec

\* Within one authority an instance never goes back to an older revision,
\* nor to another document of the same one: read off the refinement.
THEOREM DocumentsMoveForward == Spec => ActiveMovesForward
<1>1. ASSUME IInv, SInv, [Next]_vars, NEW m \in Managers, life[m] # "down", life'[m] # "down",
             epoch[m] # None, epoch'[m] = epoch[m]
      PROVE  active'[m] = active[m] \/ active'[m].revision > active[m].revision
  <2>0. IInv' /\ SInv'
    BY <1>1, StepInv, StepSafe
  <2>1. Up(m) /\ Up(m)'
    BY <1>1, <2>0 DEF SInv, AdoptInv
  <2>2. View(m) # None /\ View(m).epoch = epoch[m] /\ View(m).config = active[m]
    BY <1>1, <2>1, ViewRecord
  <2>3. View(m)' = [epoch |-> epoch'[m], config |-> active'[m]]
    BY <2>1 DEF View
  <2>4. View(m)' \in [config : Config, epoch : Nat \cup {None}]
    BY <2>0, <2>1, <2>3 DEF IInv, ServingInv, TypeOK, ProcessType
  <2>5. View(m)' # None /\ (View(m)').epoch = epoch'[m] /\ (View(m)').config = active'[m]
    BY <2>3, <2>4, NoneAssumption
  <2>6. Served[m] = View(m) /\ Served'[m] = View(m)'
    BY DEF Served
  <2>7. CASE UNCHANGED Abs!varsA
    <3>1. Served' = Served
      BY <2>7 DEF Abs!varsA, Served, View
    <3> QED BY <2>2, <2>5, <2>6, <3>1
  <2>8. CASE Abs!ANext
    <3>1. ASSUME NEW i \in Managers, Abs!Attach(i)
          PROVE  Served'[m] = Served[m] \/ Served[m] = None \/ Served[m].epoch = None
      <4>1. /\ \E x : Served' = [Served EXCEPT ![i] = x]
            /\ Served[i] = None \/ Served[i].epoch = None
        BY <3>1 DEF Abs!Attach, Served, View
      <4> QED BY <4>1 DEF Served
    <3>2. ASSUME NEW i \in Managers, Abs!Advance(i)
          PROVE  Served'[m] = Served[m] \/ (Served'[m].config.revision > Served[m].config.revision)
      <4>1. PICK p \in history : /\ p.config.revision > Served[i].config.revision
                                 /\ Served' = [Served EXCEPT ![i] = p]
        BY <3>2 DEF Abs!Advance, Served, View
      <4> QED BY <4>1 DEF Served
    <3>3. ASSUME NEW i \in Managers, Abs!Leave(i)
          PROVE  Served'[m] = Served[m] \/ Served'[m] = None
      <4>1. Served' = [Served EXCEPT ![i] = None]
        BY <3>3 DEF Abs!Leave, Served, View
      <4> QED BY <4>1 DEF Served
    <3>4. CASE Abs!Commit \/ Abs!Lose \/ Abs!Rewind
      <4>1. Served' = Served
        BY <3>4 DEF Abs!Commit, Abs!Lose, Abs!Rewind, Served, View
      <4> QED BY <2>2, <2>5, <2>6, <4>1
    <3> QED BY <1>1, <2>2, <2>5, <2>6, <2>8, <3>1, <3>2, <3>3, <3>4 DEF Abs!ANext
  <2> QED BY <1>1, <2>7, <2>8, StepRefines
<1>2. IInv /\ SInv /\ [Next]_vars =>
        \A m \in Managers :
          life[m] # "down" /\ life'[m] # "down" /\ epoch[m] # None /\ epoch'[m] = epoch[m] =>
            active'[m] = active[m] \/ active'[m].revision > active[m].revision
  BY <1>1
<1> QED BY <1>2, Safety, PTL DEF Spec, ActiveMovesForward
=============================================================================
