---------------------- MODULE ConfigPublicationProofs ----------------------
(***************************************************************************)
(* Theorems about ConfigPublication for any number of instances, documents *)
(* and faults.  The inductive invariant says what each step of a           *)
(* transaction has already established when the next one runs.             *)
(***************************************************************************)
EXTENDS ConfigPublication, TLAPS

Committed(e, c) == [epoch |-> e, config |-> c] \in history

\* Document c was durable under authority e, or under some authority when
\* the instance has not attached to one.
Backed(e, c) == \E h \in history : h.config = c /\ (e = None \/ h.epoch = e)

InFlight(m) == pc[m] \in {"cas", "publish"} \/ cont[m] = "conflict"

\* What the holder of `writes` knows at each of its steps.
TaskInv ==
  \A m \in Managers :
    /\ pc[m] # "idle" => Up(m)
    /\ pc[m] \in {"judge", "adopt"} <=> cont[m] # None
    /\ cont[m] # None => obs[m] \in Row
    /\ pc[m] \in {"catchup", "precond"} \/ cont[m] = "precond" => txn[m].sub \in Submission
    /\ pc[m] = "precond" => epoch[m] \in Nat
    /\ pc[m] = "adopt" => epoch[m] = None \/ epoch[m] = obs[m].epoch
    /\ reply[m] # None => pc[m] = "cas"

\* Accepted operations are numbered without gaps, and a transaction past
\* its acceptance works for one of them under the epoch it was accepted for.
JournalInv ==
  /\ \A o \in OpIds : o <= nextOp => ops[o] \in Op
  /\ \A w \in wire : w[1] <= nextOp
  /\ \A m \in Managers : InFlight(m) =>
       /\ txn[m].op \in 1..nextOp
       /\ ops[txn[m].op].epoch = epoch[m]

\* Every document read, exported or about to be published was durable.
EvidenceInv ==
  /\ store # None => Committed(store.epoch, store.config)
  /\ saved # None => Committed(saved.epoch, saved.config)
  /\ \A m \in Managers :
       /\ cont[m] # None => Committed(obs[m].epoch, obs[m].config)
       /\ reply[m] # None =>
            /\ reply[m].current # None =>
                 Committed(reply[m].current.epoch, reply[m].current.config)
            /\ reply[m].changed => Committed(ops[txn[m].op].epoch, ops[txn[m].op].cand)
       /\ pc[m] = "publish" => Committed(ops[txn[m].op].epoch, ops[txn[m].op].cand)

ExportedSnapshot == [config : Config, epoch : Nat \cup {None}]

\* Every running instance, and every exported snapshot, is backed.
ServingInv ==
  \A m \in Managers :
    /\ Up(m) => active[m] \in Config /\  Backed(epoch[m], active[m])
    /\ life[m] = "frozen" =>
         exported[m] \in ExportedSnapshot /\ Backed(exported[m].epoch, exported[m].config)

\* The inductive invariant.
IInv == TypeOK /\ TaskInv /\ JournalInv /\ EvidenceInv /\ ServingInv

\* The larger of two generations is a generation.
LEMMA LargerIsNat ==
  ASSUME NEW a \in Nat, NEW b \in Nat
  PROVE  Larger(a, b) \in Nat
BY DEF Larger

\* normalize_cache_generation and the revision bump yield a document again.
LEMMA NormalizeIsDocument ==
  ASSUME NEW base \in Config, NEW s \in Submission
  PROVE  Normalize(base, s) \in Config
<1>1. Caches \ {Off} \subseteq Nat /\ Floors \subseteq Nat
  BY CachesAssumption
<1>2. Generation(base) \in Nat /\ Generation(s) \in Nat
  BY <1>1 DEF Config, Submission, Generation
<1>3. base.floor \in Nat /\ s.floor \in Nat /\ base.revision \in Nat /\ s.body \in Bodies
  BY <1>1 DEF Config, Submission
<1> DEFINE floor == Larger(Larger(base.floor, s.floor), Larger(Generation(base), Generation(s)))
<1>4. floor \in Nat
  BY <1>2, <1>3, LargerIsNat
<1>5. s.cache # Off => s.cache \in Nat
  BY <1>1 DEF Submission
<1> HIDE DEF floor
<1>6. (IF s.cache = Off THEN Off ELSE Larger(s.cache, floor)) \in Nat \cup {Off}
  BY <1>4, <1>5, LargerIsNat
<1>7. Normalize(base, s) = [revision |-> base.revision + 1, body |-> s.body, floor |-> floor,
                            cache |-> IF s.cache = Off THEN Off ELSE Larger(s.cache, floor)]
  BY DEF Normalize, floor
<1> QED BY <1>3, <1>4, <1>6, <1>7 DEF Config

----------------------------------------------------------------------------
(* Frames: what the pieces shared by many actions preserve *)

\* The journal keeps what an accepted operation says; only states move.
JournalKept ==
  /\ ops' \in [OpIds -> Op \cup {None}]
  /\ \A o \in OpIds : ops[o] \in Op =>
       ops'[o] \in Op /\ ops'[o].epoch = ops[o].epoch /\ ops'[o].cand = ops[o].cand

\* Instances other than m do not notice.
OthersKept(m) ==
  \A n \in Managers \ {m} : epoch'[n] = epoch[n] /\ (Up(n) => Up(n)')

\* An instance that kept its document, epoch and life is as justified as
\* before, because history only grows.
LEMMA ServingFrame ==
  ASSUME IInv, history \subseteq history', UNCHANGED <<life, active, epoch, exported>>
  PROVE  ServingInv'
<1> SUFFICES ASSUME NEW n \in Managers
             PROVE  /\ Up(n)' => active'[n] \in Config /\ Backed(epoch[n], active[n])'
                    /\ life'[n] = "frozen" =>
                         /\ exported'[n] \in ExportedSnapshot
                         /\ Backed(exported[n].epoch, exported[n].config)'
  BY DEF ServingInv
<1>1. Up(n)' => active'[n] \in Config /\ Backed(epoch[n], active[n])'
  BY DEF IInv, ServingInv, Up, Backed
<1>2. life'[n] = "frozen" => Backed(exported[n].epoch, exported[n].config)'
  BY DEF IInv, ServingInv, Backed
<1> QED BY <1>1, <1>2 DEF IInv, ServingInv

\* A transaction past its acceptance works for an accepted operation.
LEMMA InFlightAccepted ==
  ASSUME IInv, NEW m \in Managers, InFlight(m)
  PROVE  txn[m].op \in OpIds /\ txn[m].op \in 1..nextOp /\ ops[txn[m].op] \in Op
<1>1. txn[m].op \in 1..nextOp
  BY DEF IInv, JournalInv
<1>2. nextOp \in 0..MaxOps /\ MaxOps \in Nat
  BY BoundsAssumption DEF IInv, TypeOK, JournalType
<1>3. txn[m].op \in OpIds
  BY <1>1, <1>2 DEF OpIds
<1>4. txn[m].op <= nextOp
  BY <1>1, <1>2
<1> QED BY <1>1, <1>3, <1>4 DEF IInv, JournalInv

\* The idle transaction is well formed.
LEMMA NoTxnType == NoTxn \in Txn
BY BoundsAssumption DEF NoTxn, Proposal, Txn

\* finish_config only moves the state of the operation it is given.
LEMMA OutcomeKeepsJournal ==
  ASSUME IInv, NEW m \in Managers, InFlight(m), NEW state \in OpStates,
         RecordOutcome(m, state)
  PROVE  JournalKept
<1> DEFINE o == txn[m].op
<1>1. o \in OpIds /\ ops[o] \in Op
  BY InFlightAccepted
<1>2. PICK x \in OpStates : ops' = [ops EXCEPT ![o].state = x]
  BY DEF RecordOutcome, OpStates
<1>3. [ops[o] EXCEPT !.state = x] \in Op
  BY <1>1 DEF Op
<1> HIDE DEF o
<1>4. ops \in [OpIds -> Op \cup {None}]
  BY DEF IInv, TypeOK, JournalType
<1>5. ops' = [ops EXCEPT ![o] = [ops[o] EXCEPT !.state = x]]
  BY <1>2
<1>6. /\ [ops[o] EXCEPT !.state = x].epoch = ops[o].epoch
      /\ [ops[o] EXCEPT !.state = x].cand = ops[o].cand
  BY <1>1 DEF Op
<1> HIDE DEF Op
<1> QED BY <1>1, <1>3, <1>4, <1>5, <1>6 DEF JournalKept

\* A task that ends leaves nothing behind.
LEMMA ReleaseFrame ==
  ASSUME IInv, NEW m \in Managers, Release(m), JournalKept, OthersKept(m), UNCHANGED storeVars
  PROVE  TaskType' /\ JournalType' /\ TaskInv' /\ JournalInv' /\ EvidenceInv'
<1> USE DEF IInv, Release
<1>1. TaskType'
  BY NoTxnType DEF TypeOK, TaskType
<1>2. JournalType'
  BY DEF TypeOK, JournalType, JournalKept
<1>3. TaskInv'
  BY NoneAssumption DEF TypeOK, TaskType, TaskInv, OthersKept
<1>4. JournalInv'
  <2>1. \A o \in OpIds : o <= nextOp' => ops'[o] \in Op
    BY DEF JournalInv, JournalKept
  <2>2. \A w \in wire' : w[1] <= nextOp'
    BY DEF JournalInv
  <2>3. ASSUME NEW n \in Managers, InFlight(n)'
        PROVE  txn'[n].op \in 1..nextOp' /\ ops'[txn'[n].op].epoch = epoch'[n]
    <3>1. n # m
      BY <2>3, NoneAssumption DEF InFlight, TypeOK, TaskType
    <3>2. InFlight(n) /\ txn'[n] = txn[n] /\ epoch'[n] = epoch[n]
      BY <3>1, <2>3 DEF InFlight, TypeOK, TaskType, OthersKept
    <3>3. txn[n].op \in OpIds /\ ops[txn[n].op] \in Op
      BY <3>2, InFlightAccepted
    <3> QED BY <3>2, <3>3 DEF JournalInv, JournalKept
  <2> QED BY <2>1, <2>2, <2>3 DEF JournalInv
<1>5. EvidenceInv'
  <2>1. \A e, c : Committed(e, c)' <=> Committed(e, c)
    BY DEF Committed, storeVars
  <2>2. ASSUME NEW n \in Managers
        PROVE  /\ cont'[n] # None => Committed(obs'[n].epoch, obs'[n].config)
               /\ reply'[n] # None =>
                    /\ reply'[n].current # None =>
                         Committed(reply'[n].current.epoch, reply'[n].current.config)
                    /\ reply'[n].changed => Committed(ops'[txn'[n].op].epoch, ops'[txn'[n].op].cand)
               /\ pc'[n] = "publish" => Committed(ops'[txn'[n].op].epoch, ops'[txn'[n].op].cand)
    <3>1. CASE n = m
      BY <3>1 DEF TypeOK, TaskType
    <3>2. CASE n # m
      <4>1. /\ obs'[n] = obs[n] /\ cont'[n] = cont[n] /\ reply'[n] = reply[n]
            /\ txn'[n] = txn[n] /\ pc'[n] = pc[n]
        BY <3>2 DEF TypeOK, TaskType
      <4>2. reply[n] # None \/ pc[n] = "publish" =>
              txn[n].op \in OpIds /\ ops[txn[n].op] \in Op
        BY InFlightAccepted DEF TaskInv, InFlight
      <4> QED BY <4>1, <4>2 DEF EvidenceInv, JournalKept
    <3> QED BY <3>1, <3>2
  <2> QED BY <2>1, <2>2 DEF EvidenceInv, Committed, storeVars
<1> QED BY <1>1, <1>2, <1>3, <1>4, <1>5

\* A reconciliation that returns to its caller keeps the invariant of the
\* tasks: a poll ends, a write continues, or a lost CAS is journalled.
LEMMA ReturnFrame ==
  ASSUME IInv, NEW m \in Managers, NEW ok \in BOOLEAN, Return(m, ok), OthersKept(m),
         UNCHANGED storeVars, ok => Up(m)' /\ epoch'[m] \in Nat
  PROVE  TaskType' /\ JournalType' /\ TaskInv' /\ JournalInv' /\ EvidenceInv'
<1>1. CASE ~(cont[m] = "precond" /\ ok)
  <2>1. Release(m)
    BY <1>1 DEF Return
  <2>2. CASE cont[m] = "conflict"
    <3>1. InFlight(m)
      BY <2>2 DEF InFlight
    <3>2. JournalKept
      BY <1>1, <2>2, <3>1, OutcomeKeepsJournal DEF Return, OpStates
    <3> QED BY <2>1, <3>2, ReleaseFrame
  <2>3. CASE cont[m] # "conflict"
    <3>1. JournalKept
      BY <1>1, <2>3 DEF Return, JournalKept, IInv, TypeOK, JournalType
    <3> QED BY <2>1, <3>1, ReleaseFrame
  <2> QED BY <2>2, <2>3
<1>2. CASE cont[m] = "precond" /\ ok
  <2> USE <1>2 DEF IInv, Return
  <2>1. TaskType' /\ JournalType'
    BY DEF TypeOK, TaskType, JournalType
  <2>2. TaskInv'
    BY NoneAssumption DEF TypeOK, TaskType, TaskInv, OthersKept
  <2>3. JournalInv'
    BY NoneAssumption DEF TypeOK, TaskType, JournalInv, InFlight, OthersKept
  <2>4. EvidenceInv'
    BY DEF TypeOK, TaskType, EvidenceInv, Committed, storeVars
  <2> QED BY <2>1, <2>2, <2>3, <2>4
<1> QED BY <1>1, <1>2

\* Steps that leave tasks, journal and the wire alone.
LEMMA QuietFrame ==
  ASSUME IInv, UNCHANGED <<casVars, taskVars>>,
         \A n \in Managers : Up(n) => Up(n)' /\ epoch'[n] = epoch[n]
  PROVE  TaskType' /\ JournalType' /\ TaskInv' /\ JournalInv'
<1> USE DEF IInv, casVars, taskVars
<1>1. TaskType' /\ JournalType'
  BY DEF TypeOK, TaskType, JournalType
<1>2. TaskInv'
  BY DEF TaskInv, TypeOK, TaskType
<1>3. ASSUME NEW n \in Managers, InFlight(n)
      PROVE  Up(n)
  BY <1>3, NoneAssumption DEF TaskInv, InFlight
<1>4. JournalInv'
  BY <1>3 DEF JournalInv, InFlight
<1> QED BY <1>1, <1>2, <1>4

\* With the store, journal and tasks untouched, so is their evidence.
LEMMA EvidenceFrame ==
  ASSUME IInv, UNCHANGED <<storeVars, casVars, taskVars>>
  PROVE  StoreType' /\ EvidenceInv'
<1>1. StoreType'
  BY DEF IInv, TypeOK, StoreType, storeVars
<1>2. EvidenceInv'
  BY DEF IInv, EvidenceInv, Committed, storeVars, casVars, taskVars
<1> QED BY <1>1, <1>2

\* One instance changes what it serves; the others are framed.
LEMMA ServingStep ==
  ASSUME IInv, NEW m \in Managers, history \subseteq history',
         \A n \in Managers \ {m} : /\ life'[n] = life[n] /\ active'[n] = active[n]
                                   /\ epoch'[n] = epoch[n] /\ exported'[n] = exported[n],
         Up(m)' => active'[m] \in Config /\ Backed(epoch[m], active[m])',
         life'[m] = "frozen" => /\ exported'[m] \in ExportedSnapshot
                                /\ Backed(exported[m].epoch, exported[m].config)'
  PROVE  ServingInv'
<1> SUFFICES ASSUME NEW n \in Managers
             PROVE  /\ Up(n)' => active'[n] \in Config /\ Backed(epoch[n], active[n])'
                    /\ life'[n] = "frozen" =>
                         /\ exported'[n] \in ExportedSnapshot
                         /\ Backed(exported[n].epoch, exported[n].config)'
  BY DEF ServingInv
<1>1. CASE n = m
  BY <1>1
<1>2. CASE n # m
  <2>1. Up(n)' => active'[n] \in Config /\ Backed(epoch[n], active[n])'
    BY <1>2 DEF IInv, ServingInv, Up, Backed
  <2>2. life'[n] = "frozen" => Backed(exported[n].epoch, exported[n].config)'
    BY <1>2 DEF IInv, ServingInv, Backed
  <2> QED BY <1>2, <2>1, <2>2 DEF IInv, ServingInv
<1> QED BY <1>1, <1>2

----------------------------------------------------------------------------
(* Every action preserves the invariant *)

\* Startup, handoff, withdrawal and loss of a process preserve the invariant.
LEMMA LifecycleStep ==
  ASSUME IInv, NEW m \in Managers, Lifecycle(m)
  PROVE  IInv'
<1> USE DEF IInv
<1>1. CASE StartLoad(m)
  <2> USE <1>1 DEF StartLoad, Begin
  <2>1. TaskType' /\ JournalType' /\ TaskInv' /\ JournalInv'
    BY QuietFrame DEF TypeOK, ProcessType, Up
  <2>2. StoreType' /\ EvidenceInv'
    BY EvidenceFrame
  <2>3. ProcessType' /\ FlagType'
    BY DEF TypeOK, StoreType, ProcessType, FlagType, Row, healthVars
  <2>4. Up(m)' => active'[m] \in Config /\ Backed(epoch[m], active[m])'
    BY DEF TypeOK, ProcessType, StoreType, Row, EvidenceInv, Committed, Backed, Up, storeVars
  <2>5. life'[m] # "frozen"
    BY DEF TypeOK, ProcessType
  <2>6. ServingInv'
    BY <2>4, <2>5, ServingStep DEF TypeOK, ProcessType, storeVars
  <2> QED BY <2>1, <2>2, <2>3, <2>6 DEF TypeOK
<1>2. ASSUME NEW s \in Submission, StartBootstrap(m, s)
      PROVE  IInv'
  <2> USE <1>2 DEF StartBootstrap, Begin
  <2> DEFINE seed == [revision |-> 0, body |-> s.body, cache |-> s.cache, floor |-> s.floor]
  <2>1. seed \in Config
    BY CachesAssumption DEF Submission, Config
  <2>2. TaskType' /\ JournalType' /\ TaskInv' /\ JournalInv'
    BY QuietFrame DEF TypeOK, ProcessType, Up
  <2>3. history \subseteq history'
    OBVIOUS
  <2>4. StoreType' /\ ProcessType' /\ store' \in Row /\ Committed(store.epoch, store.config)'
    <3>1. CASE store = None
      <4> HIDE DEF seed
      <4>1. /\ store' = [epoch |-> nextEpoch + 1, config |-> seed, stamp |-> 0, receipts |-> {}]
            /\ history' = history \cup {[epoch |-> nextEpoch + 1, config |-> seed]}
            /\ active' = [active EXCEPT ![m] = seed]
            /\ epoch' = [epoch EXCEPT ![m] = nextEpoch + 1]
            /\ nextEpoch' = nextEpoch + 1
        BY <3>1 DEF seed
      <4>2. store' \in Row
        BY <4>1, <2>1 DEF TypeOK, StoreType, Row
      <4>3. StoreType'
        BY <4>1, <4>2, <2>1 DEF TypeOK, StoreType
      <4>4. ProcessType'
        BY <4>1, <2>1 DEF TypeOK, StoreType, ProcessType
      <4> QED BY <4>1, <4>2, <4>3, <4>4 DEF Committed
    <3>2. CASE store # None
      BY <3>2 DEF TypeOK, StoreType, ProcessType, Row, Committed, EvidenceInv
    <3> QED BY <3>1, <3>2
  <2>5. FlagType'
    BY DEF TypeOK, FlagType, healthVars
  <2>6. EvidenceInv'
    BY <2>3, <2>4 DEF EvidenceInv, Committed, casVars, taskVars
  <2>7. active'[m] = store'.config /\ epoch'[m] = store'.epoch
    <3>1. CASE store = None
      BY <3>1 DEF TypeOK, ProcessType
    <3>2. CASE store # None
      BY <3>2 DEF TypeOK, ProcessType
    <3> QED BY <3>1, <3>2
  <2>8. active'[m] \in Config /\ Backed(epoch[m], active[m])'
    BY <2>4, <2>7 DEF Row, Committed, Backed
  <2>9. life'[m] = "serving"
    BY DEF TypeOK, ProcessType
  <2>10. ServingInv'
    BY <2>3, <2>8, <2>9, ServingStep DEF TypeOK, ProcessType
  <2> QED BY <2>2, <2>4, <2>5, <2>6, <2>10 DEF TypeOK
<1>3. ASSUME NEW n \in Managers, StartInherited(m, n)
      PROVE  IInv'
  <2> USE <1>3 DEF StartInherited
  <2>1. PICK e \in {exported[n].epoch, None} :
           /\ life' = [life EXCEPT ![m] = "serving", ![n] = "retiring"]
           /\ active' = [active EXCEPT ![m] = exported[n].config]
           /\ epoch' = [epoch EXCEPT ![m] = e]
           /\ tcpOpen' = [tcpOpen EXCEPT ![m] = TRUE]
    OBVIOUS
  <2>2. TaskType' /\ JournalType' /\ TaskInv' /\ JournalInv'
    BY <2>1, QuietFrame DEF TypeOK, ProcessType, Up
  <2>3. StoreType' /\ EvidenceInv'
    BY EvidenceFrame
  <2>4. exported[n] \in ExportedSnapshot /\ Backed(exported[n].epoch, exported[n].config)
    BY DEF ServingInv, ExportedSnapshot, TypeOK, ProcessType, Backed
  <2>5. ProcessType' /\ FlagType'
    BY <2>1, <2>4 DEF TypeOK, ProcessType, FlagType, ExportedSnapshot, healthVars
  <2>6. Backed(e, exported[n].config) /\ exported[n].config \in Config
    BY <2>1, <2>4 DEF Backed, ExportedSnapshot
  <2>7. ServingInv'
    <3> SUFFICES ASSUME NEW k \in Managers
                 PROVE  /\ Up(k)' => active'[k] \in Config /\ Backed(epoch[k], active[k])'
                        /\ life'[k] = "frozen" =>
                             /\ exported'[k] \in ExportedSnapshot
                             /\ Backed(exported[k].epoch, exported[k].config)'
      BY DEF ServingInv
    <3>1. CASE k = m
      BY <3>1, <2>1, <2>6 DEF TypeOK, ProcessType, ServingInv, Backed, Up, storeVars
    <3>2. CASE k = n
      BY <3>2, <2>1 DEF TypeOK, ProcessType, ServingInv, Backed, Up, storeVars
    <3>3. CASE k # m /\ k # n
      BY <3>3, <2>1 DEF TypeOK, ProcessType, ServingInv, Backed, Up, storeVars
    <3> QED BY <3>1, <3>2, <3>3
  <2> QED BY <2>2, <2>3, <2>5, <2>7 DEF TypeOK
<1>4. ASSUME Gone(m), budget' \in Nat
      PROVE  IInv'
  <2> USE <1>4 DEF Gone
  <2>1. JournalKept /\ OthersKept(m)
    BY DEF JournalKept, OthersKept, Up, TypeOK, JournalType, ProcessType
  <2>2. TaskType' /\ JournalType' /\ TaskInv' /\ JournalInv' /\ EvidenceInv'
    BY <2>1, ReleaseFrame
  <2>3. StoreType' /\ ProcessType' /\ FlagType'
    BY DEF TypeOK, StoreType, ProcessType, FlagType, storeVars
  <2>4. ServingInv'
    BY ServingStep DEF TypeOK, ProcessType, Up, storeVars
  <2> QED BY <2>2, <2>3, <2>4 DEF TypeOK
<1>5. CASE Crash(m)
  BY <1>4, <1>5 DEF Crash, Spend, TypeOK, FlagType
<1>6. CASE Exit(m)
  BY <1>4, <1>6 DEF Exit, TypeOK, FlagType
<1>7. CASE Freeze(m) \/ Export(m) \/ Resume(m) \/ Withdraw(m) \/ StopAccepting(m)
  <2> USE <1>7 DEF Freeze, Export, Resume, Withdraw, StopAccepting, flagVars
  <2>1. TaskType' /\ JournalType' /\ TaskInv' /\ JournalInv'
    BY QuietFrame DEF TypeOK, ProcessType, Up
  <2>2. StoreType' /\ EvidenceInv'
    BY EvidenceFrame
  <2>3. FlagType'
    <3>1. budget' \in Nat
      BY DEF TypeOK, FlagType, Spend
    <3>2. ready' \in [Managers -> BOOLEAN] /\ stopping' \in [Managers -> BOOLEAN]
      BY DEF TypeOK, FlagType
    <3>3. withdrawing' \in [Managers -> BOOLEAN] /\ tcpOpen' \in [Managers -> BOOLEAN]
      BY DEF TypeOK, FlagType
    <3> QED BY <3>1, <3>2, <3>3 DEF TypeOK, FlagType, healthVars
  <2>4. Up(m)
    BY DEF Up
  <2>5. ProcessType'
    BY <2>4 DEF TypeOK, ProcessType, ServingInv
  <2>6. ServingInv'
    <3>1. Up(m)' => active'[m] \in Config /\ Backed(epoch[m], active[m])'
      BY <2>4 DEF ServingInv, Backed, storeVars
    <3>2. CASE Export(m)
      <4>1. exported'[m] = [config |-> active[m], epoch |-> epoch[m]]
        BY <3>2 DEF TypeOK, ProcessType
      <4>2. exported'[m] \in ExportedSnapshot /\ Backed(exported[m].epoch, exported[m].config)'
        BY <2>4, <3>2, <4>1 DEF TypeOK, ProcessType, ServingInv, ExportedSnapshot, Backed, storeVars
      <4> QED BY <3>1, <3>2, <4>2, ServingStep DEF TypeOK, ProcessType, storeVars
    <3>3. CASE ~Export(m) /\ life'[m] # "frozen"
      BY <3>1, <3>3, ServingStep DEF TypeOK, ProcessType, storeVars
    <3>4. CASE ~Export(m) /\ life'[m] = "frozen"
      BY <3>1, <3>4, ServingFrame DEF TypeOK, ProcessType, storeVars
    <3> QED BY <3>2, <3>3, <3>4
  <2> QED BY <2>1, <2>2, <2>3, <2>5, <2>6 DEF TypeOK
<1> QED BY <1>1, <1>2, <1>3, <1>5, <1>6, <1>7 DEF Lifecycle

\* Recording a failure, and below a confirmation, keeps the flags Boolean.
LEMMA FailType ==
  ASSUME IInv, NEW m \in Managers, NEW reason \in Transport \cup Disagreement,
         Fail(m, reason), UNCHANGED <<stopping, withdrawing, tcpOpen>>, budget' \in Nat
  PROVE  FlagType'
BY DEF IInv, TypeOK, FlagType, Fail

\* store_confirmed keeps the health of the store well typed.
LEMMA ConfirmType ==
  ASSUME IInv, NEW m \in Managers, Confirm(m),
         UNCHANGED <<stopping, withdrawing, tcpOpen, budget>>
  PROVE  FlagType'
BY DEF IInv, TypeOK, FlagType, Confirm

\* Reading the authority, or failing to, for a poll or a catch-up.
LEMMA ReadStep ==
  ASSUME IInv, NEW m \in Managers, NEW caller \in {"poll", "precond"}, Up(m),
         pc[m] \in {"idle", "catchup"}, caller = "precond" => pc[m] = "catchup",
         Read(m, caller) \/ ReadFails(m),
         UNCHANGED <<storeVars, life, active, epoch, stopping, withdrawing, tcpOpen, exported>>
  PROVE  IInv'
<1>1. StoreType' /\ ProcessType'
  BY DEF IInv, TypeOK, StoreType, ProcessType, storeVars
<1>2. ServingInv'
  BY ServingFrame DEF storeVars
<1>3. OthersKept(m)
  BY DEF OthersKept, Up
<1>4. CASE ReadFails(m)
  <2>1. \E reason \in Transport \cup Disagreement : Fail(m, reason) /\ budget' \in Nat
    BY <1>4 DEF ReadFails, Transport, Disagreement, Spend, IInv, TypeOK, FlagType
  <2>2. FlagType'
    BY <2>1, FailType
  <2>3. Return(m, FALSE)
    BY <1>4 DEF ReadFails
  <2>4. TaskType' /\ JournalType' /\ TaskInv' /\ JournalInv' /\ EvidenceInv'
    BY <2>3, <1>3, ReturnFrame
  <2> QED BY <1>1, <1>2, <2>2, <2>4 DEF IInv, TypeOK
<1>5. CASE Read(m, caller)
  <2> USE <1>5 DEF IInv, Read, casVars
  <2>1. store \in Row
    BY DEF TypeOK, StoreType
  <2>2. FlagType'
    BY DEF TypeOK, FlagType, healthVars
  <2>3. TaskType' /\ JournalType'
    BY <2>1 DEF TypeOK, TaskType, JournalType
  <2>4. TaskInv'
    BY <2>1, NoneAssumption DEF TypeOK, TaskType, TaskInv, Up
  <2>5. JournalInv'
    BY NoneAssumption DEF TypeOK, TaskType, JournalInv, InFlight
  <2>6. EvidenceInv'
    BY DEF TypeOK, TaskType, EvidenceInv, Committed, storeVars
  <2> QED BY <1>1, <1>2, <2>2, <2>3, <2>4, <2>5, <2>6 DEF TypeOK
<1> QED BY <1>4, <1>5

\* A judgement or an adoption that failed returns to its caller.
LEMMA RefusalStep ==
  ASSUME IInv, NEW m \in Managers, Return(m, FALSE), FlagType',
         UNCHANGED <<storeVars, life, active, epoch, exported>>
  PROVE  IInv'
<1>1. StoreType' /\ ProcessType'
  BY DEF IInv, TypeOK, StoreType, ProcessType, storeVars
<1>2. ServingInv'
  BY ServingFrame DEF storeVars
<1>3. OthersKept(m)
  BY DEF OthersKept, Up
<1>4. TaskType' /\ JournalType' /\ TaskInv' /\ JournalInv' /\ EvidenceInv'
  BY <1>3, ReturnFrame
<1> QED BY <1>1, <1>2, <1>4 DEF IInv, TypeOK

\* Polls, catch-ups, judgements and adoptions preserve the invariant.
LEMMA ReconcileStep ==
  ASSUME IInv, NEW m \in Managers, Reconcile(m)
  PROVE  IInv'
<1>0. pc[m] # "idle" => Up(m)
  BY DEF IInv, TaskInv
<1>1. CASE Poll(m)
  BY <1>1, ReadStep DEF Poll
<1>2. CASE CatchUp(m)
  BY <1>0, <1>2, ReadStep DEF CatchUp
<1>3. ASSUME NEW reason \in Disagreement, JudgeFails(m, reason)
      PROVE  IInv'
  <2>1. FlagType'
    BY <1>3, FailType DEF JudgeFails, IInv, TypeOK, FlagType
  <2> QED BY <1>3, <2>1, RefusalStep DEF JudgeFails
<1>4. CASE JudgeForeign(m) \/ JudgeRollback(m) \/ JudgeDiverged(m) \/ JudgeFrozen(m)
  BY <1>3, <1>4 DEF JudgeForeign, JudgeRollback, JudgeDiverged, JudgeFrozen, Disagreement
<1>5. CASE JudgeAgrees(m) \/ Adopt(m)
  <2> USE <1>5 DEF IInv, JudgeAgrees, Adopt, Agrees
  <2>1. pc[m] \in {"judge", "adopt"} /\ obs[m] \in Row /\ Committed(obs[m].epoch, obs[m].config)
    BY DEF TaskInv, EvidenceInv, Row, TypeOK, TaskType
  <2>2. /\ epoch' = [epoch EXCEPT ![m] = obs[m].epoch] /\ obs[m].epoch \in Nat
        /\ active'[m] = obs[m].config /\ obs[m].config \in Config
    BY <2>1 DEF Row, TypeOK, ProcessType
  <2>3. FlagType'
    BY ConfirmType
  <2>4. ProcessType' /\ StoreType'
    BY <2>1, <2>2 DEF TypeOK, ProcessType, StoreType, storeVars, Row
  <2>5. OthersKept(m) /\ Up(m)' /\ epoch'[m] \in Nat
    BY <1>0, <2>1, <2>2 DEF OthersKept, Up, TypeOK, ProcessType
  <2>6. TaskType' /\ JournalType' /\ TaskInv' /\ JournalInv' /\ EvidenceInv'
    BY <2>5, ReturnFrame
  <2>7. Backed(epoch[m], active[m])'
    <3>1. [epoch |-> obs[m].epoch, config |-> obs[m].config] \in history'
      BY <2>1 DEF Committed, storeVars
    <3>2. epoch'[m] = obs[m].epoch
      BY <2>2 DEF TypeOK, ProcessType
    <3> HIDE <1>5
    <3> QED BY <2>2, <3>1, <3>2 DEF Backed
  <2>8. life[m] = "frozen" =>
          exported'[m] \in ExportedSnapshot /\ Backed(exported[m].epoch, exported[m].config)'
    <3>1. exported' = exported /\ history' = history
      BY DEF storeVars
    <3> HIDE <1>5
    <3> QED BY <3>1 DEF ServingInv, Backed
  <2>9. ServingInv'
    BY <2>2, <2>7, <2>8, ServingStep DEF TypeOK, ProcessType, storeVars
  <2> QED BY <2>3, <2>4, <2>6, <2>9 DEF TypeOK
<1>6. CASE JudgeNewer(m)
  <2> USE <1>6 DEF IInv, JudgeNewer
  <2>1. ServingInv'
    BY ServingFrame DEF storeVars
  <2>2. StoreType' /\ JournalType' /\ ProcessType' /\ FlagType' /\ TaskType'
    BY DEF TypeOK, StoreType, JournalType, ProcessType, FlagType, TaskType, storeVars, casVars,
           flagVars, healthVars
  <2>3. TaskInv'
    BY NoneAssumption
       DEF TypeOK, TaskType, TaskInv, Up, casVars, Newer, Foreign, Fresh
  <2>4. JournalInv'
    BY DEF TypeOK, TaskType, JournalInv, InFlight, casVars
  <2>5. EvidenceInv'
    BY DEF TypeOK, TaskType, EvidenceInv, Committed, storeVars, casVars
  <2> QED BY <2>1, <2>2, <2>3, <2>4, <2>5 DEF TypeOK
<1>7. CASE AdoptUnpreparable(m)
  <2>1. budget' \in Nat
    BY <1>7 DEF AdoptUnpreparable, Spend, IInv, TypeOK, FlagType
  <2>2. FlagType'
    BY <1>7, <2>1, FailType DEF AdoptUnpreparable, Disagreement
  <2> QED BY <1>7, <2>2, RefusalStep DEF AdoptUnpreparable
<1>8. CASE AdoptRefused(m)
  <2>1. FlagType'
    BY <1>8 DEF AdoptRefused, IInv, TypeOK, FlagType, flagVars, healthVars
  <2> QED BY <1>8, <2>1, RefusalStep DEF AdoptRefused
<1>9. CASE AbandonPoll(m)
  <2> USE <1>9 DEF IInv, AbandonPoll
  <2>1. JournalKept /\ OthersKept(m)
    BY DEF JournalKept, OthersKept, Up, TypeOK, JournalType
  <2>2. TaskType' /\ JournalType' /\ TaskInv' /\ JournalInv' /\ EvidenceInv'
    BY <2>1, ReleaseFrame
  <2>3. budget' \in Nat
    BY DEF Spend, TypeOK, FlagType
  <2>4. FlagType'
    BY <2>3, FailType DEF Transport
  <2>5. /\ obs[m] \in Row /\ Committed(obs[m].epoch, obs[m].config)
        /\ epoch[m] = None \/ epoch[m] = obs[m].epoch
    BY NoneAssumption DEF TaskInv, EvidenceInv, TypeOK, TaskType
  <2>6. Backed(epoch[m], obs[m].config) /\ obs[m].config \in Config
    BY <2>5 DEF Committed, Backed, Row
  <2>7. ProcessType' /\ StoreType'
    BY <2>6 DEF TypeOK, ProcessType, StoreType, storeVars
  <2>8. Backed(epoch[m], active[m]) /\ active[m] \in Config
    BY <1>0 DEF ServingInv
  <2>9. \A c : Backed(epoch[m], c) => Backed(epoch[m], c)'
    BY DEF Backed, storeVars
  <2>10. active'[m] \in {active[m], obs[m].config}
    BY DEF TypeOK, ProcessType
  <2>11. active'[m] \in Config /\ Backed(epoch[m], active[m])'
    BY <2>6, <2>8, <2>10 DEF Backed, storeVars
  <2>12. life[m] = "frozen" =>
          exported'[m] \in ExportedSnapshot /\ Backed(exported[m].epoch, exported[m].config)'
    BY DEF ServingInv, Backed, storeVars
  <2>13. ServingInv'
    BY <2>11, <2>12, ServingStep DEF TypeOK, ProcessType, storeVars
  <2> QED BY <2>2, <2>4, <2>7, <2>13 DEF TypeOK
<1>10. CASE GraceLapse(m) \/ GraceTimer(m)
  <2> USE <1>10 DEF GraceLapse, GraceTimer, flagVars
  <2>1. TaskType' /\ JournalType' /\ TaskInv' /\ JournalInv'
    BY QuietFrame DEF Up
  <2>2. StoreType' /\ EvidenceInv'
    BY EvidenceFrame
  <2>3. FlagType'
    <3>1. CASE GraceLapse(m)
      BY <3>1 DEF IInv, TypeOK, FlagType, Spend
    <3>2. CASE GraceTimer(m)
      BY <3>2, FailType DEF Transport, IInv, TypeOK, FlagType
    <3> QED BY <3>1, <3>2
  <2>4. ProcessType' /\ ServingInv'
    BY ServingFrame DEF IInv, TypeOK, ProcessType, storeVars
  <2> QED BY <2>1, <2>2, <2>3, <2>4 DEF IInv, TypeOK
<1> QED BY <1>1, <1>2, <1>4, <1>5, <1>6, <1>7, <1>8, <1>9, <1>10 DEF Reconcile

\* A transaction that ends without a publication.
LEMMA EndStep ==
  ASSUME IInv, NEW m \in Managers, Release(m), JournalKept, FlagType',
         UNCHANGED <<storeVars, life, active, epoch, exported>>
  PROVE  IInv'
<1>1. StoreType' /\ ProcessType'
  BY DEF IInv, TypeOK, StoreType, ProcessType, storeVars
<1>2. ServingInv'
  BY ServingFrame DEF storeVars
<1>3. OthersKept(m)
  BY DEF OthersKept, Up
<1>4. TaskType' /\ JournalType' /\ TaskInv' /\ JournalInv' /\ EvidenceInv'
  BY <1>3, ReleaseFrame
<1> QED BY <1>1, <1>2, <1>4 DEF IInv, TypeOK

\* A transaction whose outcome is unknown ends and publishes nothing.
LEMMA UnknownStep ==
  ASSUME IInv, NEW m \in Managers, InFlight(m), Unknown(m), FlagType',
         UNCHANGED <<storeVars, life, active, epoch, exported>>
  PROVE  IInv'
<1>1. JournalKept
  BY OutcomeKeepsJournal DEF Unknown, OpStates
<1> QED BY <1>1, EndStep DEF Unknown

\* A transaction moves on while everything durable stays as it is.
LEMMA ProgressFrame ==
  ASSUME IInv, UNCHANGED <<storeVars, life, active, epoch, flagVars, healthVars, exported>>,
         budget' \in Nat
  PROVE  StoreType' /\ ProcessType' /\ FlagType' /\ ServingInv'
<1>1. StoreType' /\ ProcessType'
  BY DEF IInv, TypeOK, StoreType, ProcessType, storeVars
<1>2. FlagType'
  BY DEF IInv, TypeOK, FlagType, flagVars, healthVars
<1> QED BY <1>1, <1>2, ServingFrame DEF storeVars

\* Acceptance numbers the transaction and starts its first attempt.
LEMMA TxnAccepted ==
  ASSUME NEW t \in Txn, NEW o \in 0..MaxOps
  PROVE  /\ [t EXCEPT !.op = o, !.attempt = 1] \in Txn
         /\ [t EXCEPT !.op = o, !.attempt = 1].op = o
<1>1. \A u \in Txn : [u EXCEPT !.op = o] \in Txn /\ [u EXCEPT !.attempt = 1] \in Txn
  BY DEF Txn
<1>2. [t EXCEPT !.op = o, !.attempt = 1] = [[t EXCEPT !.op = o] EXCEPT !.attempt = 1]
  OBVIOUS
<1>3. [t EXCEPT !.op = o, !.attempt = 1].op = o
  BY DEF Txn
<1> QED BY <1>1, <1>2, <1>3

\* The retry keeps the operation it was accepted as.
LEMMA TxnResent ==
  ASSUME NEW t \in Txn, NEW uncertain \in BOOLEAN
  PROVE  /\ [t EXCEPT !.attempt = 2, !.uncertain = uncertain] \in Txn
         /\ [t EXCEPT !.attempt = 2, !.uncertain = uncertain].op = t.op
<1>1. \A u \in Txn : [u EXCEPT !.attempt = 2] \in Txn /\ [u EXCEPT !.uncertain = uncertain] \in Txn
  BY DEF Txn
<1>2. [t EXCEPT !.attempt = 2, !.uncertain = uncertain]
        = [[t EXCEPT !.attempt = 2] EXCEPT !.uncertain = uncertain]
  OBVIOUS
<1>3. [t EXCEPT !.attempt = 2, !.uncertain = uncertain].op = t.op
  BY DEF Txn
<1> QED BY <1>1, <1>2, <1>3

\* Sending the update a second time preserves the invariant.
LEMMA ResendStep ==
  ASSUME IInv, NEW m \in Managers, pc[m] = "cas", NEW uncertain \in BOOLEAN,
         Resend(m, uncertain), budget' \in Nat,
         UNCHANGED <<storeVars, life, active, epoch, flagVars, healthVars, exported>>
  PROVE  IInv'
<1> USE DEF IInv, Resend
<1>1. StoreType' /\ ProcessType' /\ FlagType' /\ ServingInv'
  BY ProgressFrame
<1>2. txn[m].op \in OpIds /\ txn[m].op \in 1..nextOp
  BY InFlightAccepted DEF InFlight
<1>3. TaskType'
  <2>1. [txn[m] EXCEPT !.attempt = 2, !.uncertain = uncertain] \in Txn
    BY TxnResent DEF TypeOK, TaskType
  <2> QED BY <2>1 DEF TypeOK, TaskType
<1>4. JournalType'
  BY <1>2 DEF TypeOK, JournalType
<1>5. TaskInv'
  BY DEF TypeOK, TaskType, TaskInv, Up
<1>6. \A n \in Managers : txn'[n].op = txn[n].op
  <2>1. [txn[m] EXCEPT !.attempt = 2, !.uncertain = uncertain].op = txn[m].op
    BY TxnResent DEF TypeOK, TaskType
  <2> QED BY <2>1 DEF TypeOK, TaskType
<1>7. JournalInv'
  <2>1. \A w \in wire' : w[1] <= nextOp'
    BY <1>2 DEF JournalInv, TypeOK, JournalType
  <2> QED BY <1>6, <2>1 DEF JournalInv, InFlight
<1>8. EvidenceInv'
  BY <1>6 DEF TypeOK, TaskType, EvidenceInv, Committed, storeVars
<1> QED BY <1>1, <1>3, <1>4, <1>5, <1>7, <1>8 DEF TypeOK

\* The update, or the row that proves it, reached the transaction.
LEMMA ProvenStep ==
  ASSUME IInv, NEW m \in Managers, pc[m] = "cas",
         Committed(ops[txn[m].op].epoch, ops[txn[m].op].cand),
         pc' = [pc EXCEPT ![m] = "publish"], reply' = [reply EXCEPT ![m] = None],
         UNCHANGED <<storeVars, wire, ops, nextOp, life, active, epoch, flagVars, healthVars,
                     exported, cont, obs, txn, budget>>
  PROVE  IInv'
<1> USE DEF IInv
<1>1. StoreType' /\ ProcessType' /\ FlagType' /\ ServingInv'
  BY ProgressFrame DEF TypeOK, FlagType
<1>2. TaskType' /\ JournalType'
  BY DEF TypeOK, TaskType, JournalType
<1>3. TaskInv'
  BY DEF TypeOK, TaskType, TaskInv, Up
<1>4. JournalInv'
  BY DEF TypeOK, TaskType, JournalInv, InFlight
<1>5. EvidenceInv'
  BY DEF TypeOK, TaskType, EvidenceInv, Committed, storeVars
<1> QED BY <1>1, <1>2, <1>3, <1>4, <1>5 DEF TypeOK

\* The row an unchanged update is judged by was durable.
LEMMA CurrentRowCommitted ==
  ASSUME IInv, NEW m \in Managers, Unchanged(m), CurrentRow(m) # None
  PROVE  /\ CurrentRow(m) \in Row
         /\ Committed(CurrentRow(m).epoch, CurrentRow(m).config)
<1>1. CASE Backend = "redis"
  <2>1. reply[m].current \in Row
    BY <1>1 DEF IInv, TypeOK, TaskType, Unchanged, CurrentRow
  <2> QED BY <1>1, <2>1 DEF IInv, EvidenceInv, Unchanged, CurrentRow
<1>2. CASE Backend # "redis"
  BY <1>2 DEF IInv, TypeOK, StoreType, EvidenceInv, CurrentRow
<1> QED BY <1>1, <1>2

\* An administrative write, from its start to its publication, preserves
\* the invariant.
LEMMA WriteStep ==
  ASSUME IInv, NEW m \in Managers, Write(m)
  PROVE  IInv'
<1>1. ASSUME NEW s \in Submission, NEW x \in ReadRevisions, ApplyBegin(m, s, x)
      PROVE  IInv'
  <2> USE <1>1 DEF IInv, ApplyBegin
  <2>1. StoreType' /\ ProcessType' /\ FlagType' /\ ServingInv'
    BY ProgressFrame DEF TypeOK, FlagType
  <2>2. x \in Nat
    BY DEF ReadRevisions, TypeOK, StoreType, Config
  <2>3. Proposal(s, x) \in Txn /\ Proposal(s, x).sub = s
    BY <2>2, BoundsAssumption DEF Proposal, Txn
  <2>4. TaskType' /\ JournalType'
    BY <2>3 DEF TypeOK, TaskType, JournalType, casVars
  <2>5. TaskInv'
    BY <2>3, NoneAssumption
       DEF TypeOK, TaskType, ProcessType, TaskInv, Up, Fresh, casVars
  <2>6. JournalInv'
    BY NoneAssumption DEF TypeOK, TaskType, TaskInv, JournalInv, InFlight, casVars
  <2>7. EvidenceInv'
    BY DEF TypeOK, TaskType, TaskInv, EvidenceInv, Committed, storeVars, casVars
  <2> QED BY <2>1, <2>4, <2>5, <2>6, <2>7 DEF TypeOK
<1>2. CASE ApplyRefused(m)
  <2>1. JournalKept
    BY <1>2 DEF ApplyRefused, JournalKept, IInv, TypeOK, JournalType
  <2>2. FlagType'
    BY <1>2 DEF ApplyRefused, IInv, TypeOK, FlagType, flagVars, healthVars
  <2> QED BY <1>2, <2>1, <2>2, EndStep DEF ApplyRefused
<1>3. CASE ApplyAccept(m)
  <2> USE <1>3 DEF IInv, ApplyAccept
  <2>1. StoreType' /\ ProcessType' /\ FlagType' /\ ServingInv'
    BY ProgressFrame DEF TypeOK, FlagType
  <2> DEFINE o == nextOp + 1
             row == [owner |-> m, epoch |-> epoch[m], expected |-> txn[m].expected,
                     base |-> active[m], cand |-> Normalize(active[m], txn[m].sub),
                     state |-> "accepted"]
  <2>2. o \in OpIds /\ nextOp \in Nat /\ nextOp' = o /\ o \in 0..MaxOps
    BY BoundsAssumption DEF TypeOK, JournalType, OpIds
  <2>3. /\ active[m] \in Config /\ txn[m].sub \in Submission /\ epoch[m] \in Nat
        /\ txn[m].expected \in Nat
    BY DEF TaskInv, ServingInv, TypeOK, TaskType, Txn
  <2>4. row \in Op
    BY <2>3, NormalizeIsDocument DEF Op, OpStates
  <2>5. /\ ops' = [ops EXCEPT ![o] = row] /\ wire' = wire \cup {<<o, 1>>}
        /\ txn' = [txn EXCEPT ![m] = [@ EXCEPT !.op = o, !.attempt = 1]]
        /\ pc' = [pc EXCEPT ![m] = "cas"]
    OBVIOUS
  <2>6. \A n \in Managers : InFlight(n) => txn[n].op \in OpIds /\ txn[n].op # o
    BY <2>2, InFlightAccepted
  <2>7. row.epoch = epoch[m]
    OBVIOUS
  <2> HIDE DEF o, row
  <2>8. TaskType'
    <3>1. [txn[m] EXCEPT !.op = o, !.attempt = 1] \in Txn
      BY <2>2, TxnAccepted DEF TypeOK, TaskType
    <3> QED BY <2>5, <3>1 DEF TypeOK, TaskType
  <2>9. JournalType'
    <3>1. wire' \subseteq OpIds \X {1, 2}
      BY <2>2, <2>5 DEF TypeOK, JournalType
    <3>2. ops' \in [OpIds -> Op \cup {None}]
      BY <2>4, <2>5 DEF TypeOK, JournalType
    <3> QED BY <2>2, <3>1, <3>2 DEF JournalType
  <2>10. TaskInv'
    BY <2>5 DEF TypeOK, TaskType, TaskInv, Up
  <2>11. JournalInv'
    <3>1. \A p \in OpIds : p <= nextOp' => ops'[p] \in Op
      <4> SUFFICES ASSUME NEW p \in OpIds, p <= nextOp'
                   PROVE  ops'[p] \in Op
        OBVIOUS
      <4>1. CASE p = o
        BY <4>1, <2>4, <2>5 DEF TypeOK, JournalType
      <4>2. CASE p # o
        <5>1. p <= nextOp
          BY <4>2, <2>2 DEF o, OpIds
        <5> QED BY <4>2, <5>1, <2>5 DEF TypeOK, JournalType, JournalInv
      <4> QED BY <4>1, <4>2
    <3>2. \A w \in wire' : w[1] <= nextOp'
      <4>1. \A w \in wire : w[1] \in OpIds /\ w[1] <= nextOp
        BY DEF TypeOK, JournalType, JournalInv
      <4> QED BY <2>2, <2>5, <4>1 DEF OpIds, o
    <3>3. ASSUME NEW n \in Managers, InFlight(n)'
          PROVE  txn'[n].op \in 1..nextOp' /\ ops'[txn'[n].op].epoch = epoch'[n]
      <4>1. CASE n = m
        <5>1. txn'[n].op = o
          <6>1. [txn[m] EXCEPT !.op = o, !.attempt = 1].op = o
            BY <2>2, TxnAccepted DEF TypeOK, TaskType
          <6> QED BY <4>1, <6>1, <2>5 DEF TypeOK, TaskType
        <5>2. ops'[o] = row
          BY <2>2, <2>5 DEF TypeOK, JournalType
        <5>3. o \in 1..nextOp'
          BY <2>2 DEF o
        <5> QED BY <4>1, <5>1, <5>2, <5>3, <2>7
      <4>2. CASE n # m
        <5>1. InFlight(n) /\ txn'[n] = txn[n]
          BY <4>2, <3>3, <2>5 DEF TypeOK, TaskType, InFlight
        <5>2. txn[n].op \in 1..nextOp /\ ops[txn[n].op].epoch = epoch[n]
          BY <5>1 DEF JournalInv
        <5>3. ops'[txn[n].op] = ops[txn[n].op]
          BY <2>5, <2>6, <5>1 DEF TypeOK, JournalType
        <5>4. txn[n].op \in 1..nextOp'
          BY <5>2, <2>2 DEF o
        <5> QED BY <5>1, <5>2, <5>3, <5>4
      <4> QED BY <4>1, <4>2
    <3> QED BY <3>1, <3>2, <3>3 DEF JournalInv
  <2>12. EvidenceInv'
    <3>1. ASSUME NEW n \in Managers, reply'[n] # None \/ pc'[n] = "publish"
          PROVE  n # m /\ pc'[n] = pc[n] /\ txn'[n] = txn[n] /\ ops'[txn[n].op] = ops[txn[n].op]
      <4>1. n # m
        BY <3>1, <2>5 DEF TypeOK, TaskType, TaskInv
      <4>2. pc'[n] = pc[n] /\ txn'[n] = txn[n]
        BY <4>1, <2>5 DEF TypeOK, TaskType
      <4>3. InFlight(n)
        BY <3>1, <4>2 DEF TaskInv, InFlight
      <4> QED BY <4>1, <4>2, <4>3, <2>5, <2>6 DEF TypeOK, JournalType
    <3>2. ASSUME NEW n \in Managers
          PROVE  /\ cont'[n] # None => Committed(obs'[n].epoch, obs'[n].config)
                 /\ reply'[n] # None =>
                      /\ reply'[n].current # None =>
                           Committed(reply'[n].current.epoch, reply'[n].current.config)
                      /\ reply'[n].changed =>
                           Committed(ops'[txn'[n].op].epoch, ops'[txn'[n].op].cand)
                 /\ pc'[n] = "publish" => Committed(ops'[txn'[n].op].epoch, ops'[txn'[n].op].cand)
      BY <3>1 DEF EvidenceInv
    <3> QED BY <3>2 DEF EvidenceInv, Committed, storeVars
  <2> QED BY <2>1, <2>8, <2>9, <2>10, <2>11, <2>12 DEF TypeOK
<1>4. CASE CasUnanswered(m)
  <2> USE <1>4 DEF CasUnanswered
  <2>1. budget' \in Nat
    BY DEF Spend, IInv, TypeOK, FlagType
  <2>2. CASE Resend(m, TRUE)
    BY <2>1, <2>2, ResendStep
  <2>3. CASE Unknown(m)
    <3>1. FlagType'
      BY <2>1, ProgressFrame
    <3> QED BY <2>3, <3>1, UnknownStep DEF InFlight
  <2> QED BY <2>2, <2>3
<1>5. CASE CasRejected(m)
  <2> USE <1>5 DEF CasRejected
  <2>1. budget' \in Nat
    BY DEF Spend, IInv, TypeOK, FlagType
  <2>2. CASE Resend(m, txn[m].uncertain)
    <3>1. txn[m].uncertain \in BOOLEAN
      BY DEF IInv, TypeOK, TaskType, Txn
    <3> QED BY <2>1, <2>2, <3>1, ResendStep
  <2>3. CASE /\ RecordOutcome(m, "indeterminate")
             /\ wire' = wire \ {<<txn[m].op, txn[m].attempt>>}
             /\ pc' = [pc EXCEPT ![m] = "idle"] /\ txn' = [txn EXCEPT ![m] = NoTxn]
             /\ reply' = [reply EXCEPT ![m] = None]
             /\ UNCHANGED <<nextOp, cont, obs>>
    <3> USE <2>3 DEF IInv
    <3>1. StoreType' /\ ProcessType' /\ FlagType' /\ ServingInv'
      BY <2>1, ProgressFrame
    <3>2. InFlight(m)
      BY DEF InFlight
    <3>3. JournalKept
      BY <3>2, OutcomeKeepsJournal DEF OpStates
    <3>4. TaskType' /\ JournalType'
      BY <3>3, NoTxnType DEF TypeOK, TaskType, JournalType, JournalKept
    <3>5. cont[m] = None
      BY DEF TaskInv
    <3>6. TaskInv'
      BY <3>5, NoneAssumption DEF TypeOK, TaskType, TaskInv, Up
    <3>7. ASSUME NEW n \in Managers, InFlight(n)'
          PROVE  /\ n # m /\ InFlight(n) /\ txn'[n] = txn[n]
                 /\ txn[n].op \in OpIds /\ ops[txn[n].op] \in Op
      <4>1. n # m /\ InFlight(n) /\ txn'[n] = txn[n]
        BY <3>5, <3>7, NoneAssumption DEF InFlight, TypeOK, TaskType
      <4> QED BY <4>1, InFlightAccepted
    <3>8. JournalInv'
      BY <3>3, <3>7 DEF JournalInv, JournalKept
    <3>9. ASSUME NEW n \in Managers, reply'[n] # None \/ pc'[n] = "publish"
          PROVE  InFlight(n)' /\ reply'[n] = reply[n] /\ pc'[n] = pc[n]
      BY <3>9 DEF TypeOK, TaskType, TaskInv, InFlight
    <3>10. EvidenceInv'
      <4>1. ASSUME NEW n \in Managers
            PROVE  /\ cont'[n] # None => Committed(obs'[n].epoch, obs'[n].config)
                   /\ reply'[n] # None =>
                        /\ reply'[n].current # None =>
                             Committed(reply'[n].current.epoch, reply'[n].current.config)
                        /\ reply'[n].changed =>
                             Committed(ops'[txn'[n].op].epoch, ops'[txn'[n].op].cand)
                   /\ pc'[n] = "publish" =>
                        Committed(ops'[txn'[n].op].epoch, ops'[txn'[n].op].cand)
        BY <3>3, <3>7, <3>9 DEF EvidenceInv, JournalKept
      <4> QED BY <4>1 DEF EvidenceInv, Committed, storeVars
    <3> QED BY <3>1, <3>4, <3>6, <3>8, <3>10 DEF TypeOK
  <2> QED BY <2>2, <2>3
<1>6. CASE CasChanged(m)
  <2>1. Committed(ops[txn[m].op].epoch, ops[txn[m].op].cand)
    BY <1>6 DEF CasChanged, IInv, EvidenceInv
  <2> QED BY <1>6, <2>1, ProvenStep DEF CasChanged
<1>7. CASE ResolveApplied(m)
  <2>1. Committed(ops[txn[m].op].epoch, ops[txn[m].op].cand)
    BY <1>7, CurrentRowCommitted DEF ResolveApplied, Proves
  <2> QED BY <1>7, <2>1, ProvenStep DEF ResolveApplied, Unchanged
<1>8. CASE ResolveConflict(m)
  <2> USE <1>8 DEF IInv, ResolveConflict, Unchanged
  <2>1. StoreType' /\ ProcessType' /\ FlagType' /\ ServingInv'
    BY ProgressFrame DEF TypeOK, FlagType
  <2>2. CurrentRow(m) \in Row /\ Committed(CurrentRow(m).epoch, CurrentRow(m).config)
    BY CurrentRowCommitted
  <2>3. TaskType' /\ JournalType'
    BY <2>2 DEF TypeOK, TaskType, JournalType
  <2>4. TaskInv'
    BY <2>2, NoneAssumption DEF TypeOK, TaskType, TaskInv, Up
  <2>5. JournalInv'
    BY DEF TypeOK, TaskType, JournalInv, InFlight
  <2>6. EvidenceInv'
    BY <2>2 DEF TypeOK, TaskType, EvidenceInv, Committed, storeVars
  <2> QED BY <2>1, <2>3, <2>4, <2>5, <2>6 DEF TypeOK
<1>9. CASE ResolveForeign(m)
  <2>1. FlagType'
    BY <1>9, FailType DEF ResolveForeign, Disagreement, IInv, TypeOK, FlagType
  <2> QED BY <1>9, <2>1, UnknownStep DEF ResolveForeign, Unchanged, InFlight
<1>10. CASE ResolveUnknown(m)
  <2>1. budget' \in Nat
    BY <1>10 DEF ResolveUnknown, Spend, IInv, TypeOK, FlagType
  <2>2. FlagType'
    BY <1>10, <2>1, ProgressFrame DEF ResolveUnknown
  <2> QED BY <1>10, <2>2, UnknownStep DEF ResolveUnknown, Unchanged, InFlight
<1>11. CASE Publish(m)
  <2> USE <1>11 DEF IInv, Publish
  <2>1. InFlight(m) /\ Up(m)
    BY DEF InFlight, TaskInv
  <2>2. JournalKept
    BY <2>1, OutcomeKeepsJournal DEF OpStates
  <2>3. OthersKept(m)
    BY DEF OthersKept, Up
  <2>4. TaskType' /\ JournalType' /\ TaskInv' /\ JournalInv' /\ EvidenceInv'
    BY <2>2, <2>3, ReleaseFrame
  <2>5. /\ ops[txn[m].op] \in Op /\ ops[txn[m].op].epoch = epoch[m]
        /\ Committed(epoch[m], ops[txn[m].op].cand)
    BY <2>1, InFlightAccepted DEF JournalInv, EvidenceInv
  <2>6. StoreType' /\ ProcessType' /\ FlagType'
    BY <2>5 DEF TypeOK, StoreType, ProcessType, FlagType, Op, storeVars, flagVars, healthVars
  <2>7. active'[m] \in {active[m], ops[txn[m].op].cand}
    BY DEF TypeOK, ProcessType
  <2>8. active'[m] \in Config /\ Backed(epoch[m], active[m])'
    <3>1. history' = history /\ epoch' = epoch
      BY DEF storeVars
    <3> HIDE <1>11
    <3> QED BY <2>1, <2>5, <2>7, <3>1 DEF Op, Committed, Backed, ServingInv
  <2>9. life[m] = "frozen" =>
          exported'[m] \in ExportedSnapshot /\ Backed(exported[m].epoch, exported[m].config)'
    <3>1. history' = history /\ exported' = exported
      BY DEF storeVars
    <3> HIDE <1>11
    <3> QED BY <3>1 DEF ServingInv, Backed
  <2>10. ServingInv'
    BY <2>8, <2>9, ServingStep DEF TypeOK, ProcessType, storeVars
  <2> QED BY <2>4, <2>6, <2>10 DEF TypeOK
<1> QED BY <1>1, <1>2, <1>3, <1>4, <1>5, <1>6, <1>7, <1>8, <1>9, <1>10, <1>11 DEF Write

\* The store executes a statement.
LEMMA ExecuteStep ==
  ASSUME IInv, NEW o \in OpIds, NEW attempt \in {1, 2}, Execute(o, attempt)
  PROVE  IInv'
<1> USE DEF IInv, Execute
<1>1. ops[o] \in Op
  BY DEF JournalInv
<1>2. history \subseteq history'
  BY DEF CasApply
<1>3. CasGuard(o) => store \in Row /\ store.epoch = ops[o].epoch
  BY DEF CasGuard, TypeOK, StoreType
<1>4. StoreType' /\ (store' # None => Committed(store.epoch, store.config)')
  <2>1. CASE CasGuard(o)
    <3> DEFINE stamp == IF Backend = "postgres" THEN o ELSE 0
               receipts == IF Backend = "postgres" THEN store.receipts \cup {o} ELSE store.receipts
    <3>1. store' = [[[store EXCEPT !.config = ops[o].cand] EXCEPT !.stamp = stamp]
                       EXCEPT !.receipts = receipts]
      BY <2>1 DEF CasApply
    <3>2. ops[o].cand \in Config /\ stamp \in Nat /\ receipts \in SUBSET Nat
      BY <1>1, <1>3, <2>1 DEF Op, Row, OpIds
    <3> HIDE DEF stamp, receipts
    <3>3. store' \in Row
      BY <1>3, <2>1, <3>1, <3>2 DEF Row
    <3>4. store'.epoch = store.epoch /\ store'.config = ops[o].cand
      BY <1>3, <2>1, <3>1 DEF Row
    <3>5. history' = history \cup {[epoch |-> store.epoch, config |-> ops[o].cand]}
      BY <2>1 DEF CasApply
    <3>6. written' \subseteq OpIds
      BY <2>1 DEF CasApply, TypeOK, StoreType
    <3>7. history' \subseteq [epoch : Nat, config : Config]
      BY <1>3, <2>1, <3>2, <3>5 DEF TypeOK, StoreType, Row
    <3> QED BY <3>3, <3>4, <3>5, <3>6, <3>7 DEF TypeOK, StoreType, Committed
  <2>2. CASE ~CasGuard(o)
    BY <2>2 DEF TypeOK, StoreType, EvidenceInv, Committed
  <2> QED BY <2>1, <2>2
<1>5. ProcessType' /\ FlagType' /\ JournalType'
  BY DEF TypeOK, ProcessType, FlagType, JournalType, flagVars, healthVars
<1> DEFINE m == ops[o].owner
           hit == pc[m] = "cas" /\ txn[m].op = o /\ txn[m].attempt = attempt
           answer == [changed |-> CasGuard(o), current |-> store]
<1>6. m \in Managers
  BY <1>1 DEF Op
<1>7. reply' = IF hit THEN [reply EXCEPT ![m] = answer] ELSE reply
  OBVIOUS
<1>8. answer \in [changed : BOOLEAN, current : Row \cup {None}]
  <2>1. CasGuard(o) \in BOOLEAN
    BY DEF CasGuard
  <2>2. store \in Row \cup {None}
    BY DEF TypeOK, StoreType
  <2> QED BY <2>1, <2>2
<1>9. CasGuard(o) => Committed(ops[o].epoch, ops[o].cand)'
  BY <1>3 DEF CasApply, Committed
<1>10. answer.changed = CasGuard(o) /\ answer.current = store
  OBVIOUS
<1> HIDE DEF m, hit, answer
<1>11. TaskType'
  BY ZenonT(60), <1>6, <1>7, <1>8 DEF TypeOK, TaskType, taskVars
<1>12. TaskInv'
  BY <1>6, <1>7 DEF TypeOK, TaskType, TaskInv, Up, taskVars, hit
<1>13. JournalInv'
  BY DEF JournalInv, InFlight, taskVars
<1>14. \A e, c : Committed(e, c) => Committed(e, c)'
  BY <1>2 DEF Committed
<1>15. ASSUME NEW n \in Managers
       PROVE  /\ cont'[n] # None => Committed(obs[n].epoch, obs[n].config)'
              /\ reply'[n] # None =>
                   /\ reply'[n].current # None =>
                        Committed(reply[n].current.epoch, reply[n].current.config)'
                   /\ reply'[n].changed => Committed(ops[txn[n].op].epoch, ops[txn[n].op].cand)'
              /\ pc'[n] = "publish" => Committed(ops[txn[n].op].epoch, ops[txn[n].op].cand)'
  <2>1. UNCHANGED <<pc, cont, obs, txn, ops>>
    BY DEF taskVars
  <2>2. cont'[n] # None => Committed(obs[n].epoch, obs[n].config)'
    BY <1>2, <2>1 DEF EvidenceInv, Committed
  <2>3. pc'[n] = "publish" => Committed(ops[txn[n].op].epoch, ops[txn[n].op].cand)'
    BY <1>2, <2>1 DEF EvidenceInv, Committed
  <2>4. CASE reply'[n] = reply[n]
    <3> HIDE DEF Execute
    <3> QED BY <1>2, <2>1, <2>2, <2>3, <2>4 DEF EvidenceInv, Committed
  <2>5. CASE hit /\ n = m
    <3>1. reply'[n] = answer /\ txn[n].op = o
      BY <1>6, <1>7, <2>5 DEF TypeOK, TaskType, hit
    <3>2. CasGuard(o) => Committed(ops[txn[n].op].epoch, ops[txn[n].op].cand)'
      BY <1>9, <2>1, <3>1 DEF Committed
    <3>3. store # None => Committed(store.epoch, store.config)
      BY DEF EvidenceInv
    <3> HIDE DEF Execute
    <3>4. reply'[n].current # None =>
             Committed(reply[n].current.epoch, reply[n].current.config)'
      BY <1>2, <1>10, <3>1, <3>3 DEF Committed
    <3> QED BY <2>2, <2>3, <1>10, <3>1, <3>2, <3>4
  <2>6. reply'[n] = reply[n] \/ (hit /\ n = m)
    BY <1>6, <1>7 DEF TypeOK, TaskType
  <2> QED BY <2>4, <2>5, <2>6
<1>16. saved' # None => Committed(saved.epoch, saved.config)'
  BY <1>2 DEF EvidenceInv, Committed
<1>17. EvidenceInv'
  <2> HIDE DEF Execute
  <2> QED BY <1>4, <1>15, <1>16 DEF EvidenceInv
<1>18. ServingInv'
  BY <1>2, ServingFrame
<1> QED BY <1>4, <1>5, <1>11, <1>12, <1>13, <1>17, <1>18 DEF TypeOK

\* Backups, restores and wipes of the store preserve the invariant.
LEMMA OperatorStep ==
  ASSUME IInv, Backup \/ Restore \/ Wipe
  PROVE  IInv'
<1> USE DEF IInv, Backup, Restore, Wipe
<1>1. TaskType' /\ JournalType' /\ TaskInv' /\ JournalInv'
  BY QuietFrame DEF Up
<1>2. StoreType' /\ ProcessType' /\ FlagType'
  <2>1. StoreType'
    BY DEF TypeOK, StoreType
  <2>2. ProcessType'
    BY DEF TypeOK, ProcessType
  <2>3. budget' \in Nat
    BY DEF TypeOK, FlagType, Spend
  <2> QED BY <2>1, <2>2, <2>3 DEF TypeOK, FlagType, flagVars, healthVars
<1>3. EvidenceInv'
  BY DEF EvidenceInv, Committed, casVars, taskVars
<1>4. ServingInv'
  BY ServingFrame
<1> QED BY <1>1, <1>2, <1>3, <1>4 DEF TypeOK

\* No process runs initially and nothing was durable yet.
LEMMA InitInv == Init => IInv
<1> SUFFICES ASSUME Init PROVE IInv
  OBVIOUS
<1> USE DEF Init
<1>1. StoreType /\ ProcessType /\ FlagType
  BY BoundsAssumption DEF StoreType, ProcessType, FlagType
<1>2. JournalType /\ TaskType
  BY BoundsAssumption, NoTxnType DEF JournalType, TaskType, OpIds
<1>3. TaskInv
  BY NoneAssumption DEF TaskInv
<1>4. JournalInv
  BY BoundsAssumption, NoneAssumption DEF JournalInv, OpIds, InFlight
<1>5. EvidenceInv /\ ServingInv
  BY DEF EvidenceInv, ServingInv, Up
<1> QED BY <1>1, <1>2, <1>3, <1>4, <1>5 DEF IInv, TypeOK

\* The invariant survives every step.
LEMMA StepInv == IInv /\ [Next]_vars => IInv'
<1>1. ASSUME IInv, Next
      PROVE  IInv'
  BY <1>1, LifecycleStep, ReconcileStep, WriteStep, ExecuteStep, OperatorStep DEF Next
<1>2. ASSUME IInv, UNCHANGED vars
      PROVE  IInv'
  <2> USE <1>2 DEF IInv, vars
  <2>1. TaskType' /\ JournalType' /\ TaskInv' /\ JournalInv'
    BY QuietFrame DEF Up, casVars, taskVars
  <2>2. StoreType' /\ EvidenceInv'
    BY EvidenceFrame DEF storeVars, casVars, taskVars
  <2>3. ProcessType' /\ FlagType'
    BY DEF TypeOK, ProcessType, FlagType
  <2>4. ServingInv'
    BY ServingFrame
  <2> QED BY <2>1, <2>2, <2>3, <2>4 DEF TypeOK
<1> QED BY <1>1, <1>2

\* The inductive invariant holds in every reachable state.
LEMMA Invariance == Spec => []IInv
BY InitInv, StepInv, PTL DEF Spec

\* Every reachable state is well typed, for any set of instances, documents,
\* faults and bounds: the journal and the revisions it numbers never leave
\* their domain, and whatever is published is a document.
THEOREM TypeCorrect == Spec => []TypeOK
<1>1. IInv => TypeOK
  BY DEF IInv
<1> QED BY <1>1, Invariance, PTL

\* Whatever acknowledgements, reads, processes or backups are lost, an
\* instance only serves a document that was durable under its authority.
THEOREM ServesCommitted == Spec => []ActiveWasCommitted
<1>1. IInv => ActiveWasCommitted
  BY DEF IInv, ServingInv, ActiveWasCommitted, Backed
<1> QED BY <1>1, Invariance, PTL

=============================================================================
