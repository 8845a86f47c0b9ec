---------------------- MODULE SupervisorHandoffProofs ----------------------
(***************************************************************************)
(* Proofs about SupervisorHandoff, for any number of generations, writes,  *)
(* signals and draining generations and any mix of faults.                 *)
(*                                                                         *)
(* Inv is the inductive invariant behind the type, the service and the     *)
(* bound on generations.  It says who owns a live generation (OwnerInv),   *)
(* what an unborn one looks like (UnbornInv), when a generation accepts    *)
(* (LifeInv), which executable is installed (DiskInv), what a generation   *)
(* may find on its channel before it serves (OfferInv, StageInv) and while *)
(* it serves (ServeInv), and how many drain (RoomInv).                     *)
(*                                                                         *)
(* WriterInv is the second invariant: who may write while a replacement is *)
(* under way.  It is inductive only if no export is answered after the     *)
(* supervisor stopped waiting for it, the "slow" fault: the run            *)
(* handoff_late_export shows what happens otherwise.                       *)
(***************************************************************************)
EXTENDS SupervisorHandoff, FiniteSetTheorems, TLAPS

\* What an administrator's restart request puts on a worker's channel.
R == C("RestartRequested")
\* Channel s holds messages of S only; message m at most once.
Only(s, S) == \A i \in DOMAIN s : s[i] \in S
\* The phases of the supervisor.
Phases == {"boot", "run", "bail", "export", "prepared", "ready", "kill",
           "lameduck", "stopping", "exited"}
\* What a starting generation finds: COMMIT, or a complete export.
Offer(s) == s # <<>> /\ (Head(s) = C("FreezeExport") => Len(s) >= 4 /\ s[2].doc \in 0..MaxDocs)
OfferInv == \A g \in Gens : genLife[g] = "starting" => Offer(down[g])
\* The generations the supervisor holds a handle of.
Owned == draining \cup {activeGen, cand}
OwnerInv ==
  /\ activeGen \in 1..spawned /\ cand \in 0..spawned /\ draining \subseteq 1..spawned
  /\ cand # activeGen /\ activeGen \notin draining /\ cand \notin draining
  /\ cand = 0 <=> phase \notin {"prepared", "ready", "kill"}
  /\ phase = "export" => spawned < MaxGens
  /\ \A g \in Gens : Alive(g) => g \in Owned
\* A generation that was not spawned yet has no process and no traffic.
Unborn(g) == /\ ~Alive(g) /\ down[g] = <<>> /\ up[g] = <<>>
             /\ ~frozen[g] /\ ~writing[g] /\ ~accepting[g]
UnbornInv == \A g \in Gens : g > spawned => Unborn(g)
\* The accept loops run from COMMIT to Drain; a transaction dies with its process.
LifeInv ==
  \A g \in Gens : /\ accepting[g] <=> genLife[g] \in {"warming", "serving", "exporting"}
                  /\ writing[g] => genLife[g] # "gone"
\* An update in progress has replaced the installed file by the next release, which
\* is the one the candidate runs; otherwise the active generation runs the installed
\* file, unless a rollback failed.
DiskInv ==
  /\ updating => phase \in {"export", "prepared", "ready", "kill"}
  /\ updating => disk > 0
  /\ ~unrestored => disk = ver[activeGen] + (IF updating THEN 1 ELSE 0)
  /\ cand # 0 => ver[cand] = disk
\* What the supervisor sends a candidate with snapshot d.
Order(d) == <<C("FreezeExport")>> \o ExportOf(d)
Once(s, m) == \A i, j \in DOMAIN s : s[i] = m /\ s[j] = m => i = j
\* A generation not yet seen to serve: it was told to commit and has nothing else
\* to read; it announces itself once.
Fresh(g) ==
  /\ genLife[g] \in {"starting", "prepared", "warming", "serving", "gone"}
  /\ genLife[g] \in {"starting", "prepared"} => down[g] = <<C("Commit")>> /\ up[g] = <<>>
  /\ genLife[g] = "warming" => down[g] = <<>> /\ Only(up[g], {R})
  /\ genLife[g] = "serving" =>
       down[g] = <<>> /\ Only(up[g], {R, C("Ready")}) /\ Once(up[g], C("Ready"))
\* A candidate that was handed the export and has not been told to commit.
Offered(g) ==
  /\ genLife[g] \in {"starting", "prepared", "gone"}
  /\ genLife[g] = "starting" => down[g] = Order(handed) /\ up[g] = <<>>
  /\ genLife[g] = "prepared" => down[g] = <<>> /\ up[g] = <<C("Prepared")>>
\* What the supervisor waits for is on its way.
StageInv ==
  /\ phase = "boot" => Fresh(activeGen)
  /\ phase = "prepared" => Offered(cand)
  /\ phase = "ready" => Fresh(cand)
\* A generation the supervisor counts on is past its start, and Drain is not on its
\* channel.
Orders == {C("Resume"), C("FreezeExport"), C("Withdraw")}
Served == {"run", "bail", "export", "prepared", "ready", "kill", "lameduck"}
ServeInv ==
  phase \in Served =>
    /\ genLife[activeGen] \in {"serving", "exporting", "gone"}
    /\ genLife[activeGen] # "gone" =>
         Only(down[activeGen], Orders)
\* While a replacement is under way there is room for one more to drain.
Replacing == {"export", "prepared", "ready", "kill"}
RoomInv ==
  /\ Cardinality(draining) <= MaxDraining
  /\ phase \in Replacing => Cardinality(draining) < MaxDraining

\* What holds whatever faults happen.
Inv ==
  /\ HandoffTypeOK /\ OfferInv /\ OwnerInv /\ UnbornInv /\ LifeInv
  /\ DiskInv /\ StageInv /\ ServeInv /\ RoomInv

\* Frozen, with no transaction in flight.
Quiet(g) == genLife[g] = "serving" /\ frozen[g] /\ ~writing[g]
\* The worker of an idle supervisor: at most resumes to read, requests to send.
Running(g) ==
  genLife[g] = "serving" /\ Only(down[g], {C("Resume")}) /\ Only(up[g], {R})
\* Channel s carries t from place at on, and restart requests around it.
Sends(s, at, t) ==
  /\ at \in 1..Len(s) /\ at + Len(t) <= Len(s) + 1
  /\ \A i \in 1..Len(s) : s[i] = IF i < at \/ i >= at + Len(t) THEN R ELSE t[i - at + 1]
\* Resumes of rejected replacements, then the freeze of this one.
FreezeLast(s) ==
  /\ s # <<>> /\ s[Len(s)] = C("FreezeExport")
  /\ \A i \in 1..Len(s) : i < Len(s) => s[i] = C("Resume")
\* The three stages of an export: asked for, waiting for the writer lock, and sent,
\* partly or not at all collected.
FreezeSent(g) ==
  genLife[g] = "serving" /\ got = {} /\ Only(up[g], {R}) /\ FreezeLast(down[g])
Exporting(g) ==
  genLife[g] = "exporting" /\ frozen[g] /\ got = {} /\ Only(up[g], {R}) /\ down[g] = <<>>
Exported(g) ==
  /\ Quiet(g) /\ down[g] = <<>>
  /\ \E at \in Nat :
       \/ got = {} /\ Sends(up[g], at, ExportOf(doc[g]))
       \/ got = {Snapshot(doc[g])} /\ Sends(up[g], at, <<Sockets, C("ExportDone")>>)
       \/ got = {Snapshot(doc[g]), Sockets} /\ Sends(up[g], at, <<C("ExportDone")>>)
Asked(g) == FreezeSent(g) \/ Exporting(g) \/ Exported(g)
\* The predecessor of a candidate: quiet, and its document the one handed over.
Frozen(g) == Quiet(g) /\ down[g] = <<>> /\ Only(up[g], {R}) /\ doc[g] = handed
\* A draining generation writes no more.
Retiring(g) ==
  /\ genLife[g] \in {"serving", "ending", "gone"} /\ ~writing[g]
  /\ genLife[g] = "serving" => frozen[g] /\ Only(down[g], {C("Drain")})
\* Who may write, phase by phase.
WriterInv ==
  /\ genLife[activeGen] # "gone" =>
       /\ phase \in {"run", "bail"} => Running(activeGen)
       /\ phase = "export" => Asked(activeGen)
       /\ phase \in {"prepared", "ready", "kill"} => Frozen(activeGen)
  /\ \A g \in draining : Retiring(g)

\* Every control and every export is a message.
LEMMA MessagesTyped ==
  /\ \A c \in Controls : C(c) \in Message /\ <<C(c)>> \in Seq(Message)
  /\ \A d \in 0..MaxDocs : ExportOf(d) \in Seq(Message) /\ Snapshot(d) \in Descriptors
  /\ Sockets \in Descriptors /\ Descriptors \subseteq Message
<1>1. \A c \in Controls : C(c) \in Message
  BY DEF C, Message
<1>2. \A d \in 0..MaxDocs : Snapshot(d) \in Descriptors
  BY DEF Snapshot, Descriptors
<1>3. Sockets \in Descriptors /\ Descriptors \subseteq Message
  BY DEF Sockets, Descriptors, Message
<1>4. C("ExportDone") \in Message
  BY <1>1 DEF Controls
<1>5. \A d \in 0..MaxDocs : ExportOf(d) \in Seq(Message)
  BY <1>2, <1>3, <1>4 DEF ExportOf
<1> QED
  BY <1>1, <1>2, <1>3, <1>5

\* A descriptor carries a document.
LEMMA DescriptorDoc == \A m \in Descriptors : m.doc \in 0..MaxDocs
  BY HandoffAssumption DEF Descriptors

\* What is not a control is a descriptor.
LEMMA DescriptorOf == \A m \in Message : m.role # "Control" => m \in Descriptors
  BY DEF Message, Descriptors

\* Sending keeps a channel well formed.
LEMMA SendTyped ==
  ASSUME NEW channel \in [Gens -> Seq(Message)], NEW g \in Gens, NEW ms \in Seq(Message)
  PROVE  Send(channel, g, ms) \in [Gens -> Seq(Message)]
  BY DEF Send

\* So does reading its first message.
LEMMA TailTyped ==
  ASSUME NEW channel \in [Gens -> Seq(Message)], NEW g \in Gens, channel[g] # <<>>
  PROVE  /\ [channel EXCEPT ![g] = Tail(@)] \in [Gens -> Seq(Message)]
         /\ Head(channel[g]) \in Message
  OBVIOUS

\* An empty channel holds nothing else.
LEMMA OnlyEmpty ==
  \A S : Only(<<>>, S)
  BY DEF Only

\* Reading keeps Only.
LEMMA OnlyTail ==
  ASSUME NEW s \in Seq(Message), s # <<>>, NEW S, Only(s, S)
  PROVE  Head(s) \in S /\ Only(Tail(s), S)
  BY DEF Only

\* So does sending a message of the set.
LEMMA OnlyAppended ==
  ASSUME NEW s \in Seq(Message), NEW S, Only(s, S), NEW m \in Message, m \in S
  PROVE  Only(s \o <<m>>, S)
  BY DEF Only

\* A message that was not there is there once after it is sent.
LEMMA OnceAppended ==
  ASSUME NEW s \in Seq(Message), NEW m \in Message, NEW n \in Message,
         Once(s, m), n # m \/ \A i \in DOMAIN s : s[i] # m
  PROVE  Once(s \o <<n>>, m)
  BY DEF Once

\* The controls that are sent are messages.
LEMMA ControlsTyped ==
  /\ C("FreezeExport") \in Message /\ C("Resume") \in Message /\ C("Withdraw") \in Message
  /\ C("Drain") \in Message /\ C("Commit") \in Message /\ C("Ready") \in Message
  /\ C("Prepared") \in Message /\ R \in Message
  BY MessagesTyped DEF Controls, R

\* Controls differ from each other.
LEMMA ControlsDistinct ==
  /\ C("Drain") \notin Orders /\ R # C("Ready") /\ R # C("Prepared") /\ C("Ready") # C("Prepared")
  /\ C("Commit") # C("FreezeExport") /\ C("Commit") # C("Drain") /\ C("FreezeExport") # C("Drain")
  BY DEF C, Orders, R

\* A generation whose Ready is read serves, or died since: it has nothing to read, and
\* only restart requests follow.
LEMMA ReadyHead ==
  ASSUME HandoffTypeOK, NEW g \in Gens, Fresh(g), up[g] # <<>>, Head(up[g]) = C("Ready")
  PROVE  /\ genLife[g] \in {"serving", "gone"}
         /\ genLife[g] = "serving" => down[g] = <<>> /\ Only(Tail(up[g]), {R})
<1>0. up[g] \in Seq(Message)
  BY DEF HandoffTypeOK
<1>1. genLife[g] # "warming"
  <2>1. Only(up[g], {R}) => Head(up[g]) \in {R}
    BY <1>0, OnlyTail
  <2> QED
    BY <2>1, ControlsDistinct DEF Fresh
<1>2. genLife[g] = "serving" => Only(Tail(up[g]), {R})
  <2> SUFFICES ASSUME Only(up[g], {R, C("Ready")}), Once(up[g], C("Ready"))
               PROVE  Only(Tail(up[g]), {R})
    BY DEF Fresh
  <2>1. up[g][1] = C("Ready") /\ Len(Tail(up[g])) = Len(up[g]) - 1 /\ Len(up[g]) >= 1
    BY <1>0
  <2>2. \A i \in 1..Len(up[g]) : i # 1 => up[g][i] = R
    BY <1>0, <2>1 DEF Only, Once
  <2>3. \A i \in DOMAIN Tail(up[g]) : Tail(up[g])[i] = up[g][i + 1] /\ i + 1 \in 1..Len(up[g])
    BY <1>0, <2>1
  <2> QED
    BY <2>2, <2>3 DEF Only
<1> QED
  BY <1>1, <1>2 DEF Fresh

\* Any step of generation g.
WorkerStep(g) ==
  Lead(g) \/ EndWrite(g) \/ Fails(g) \/ WriteBegin(g) \/ Reload(g) \/ RequestRestart(g)

\* A generation's step leaves the supervisor and the other generations alone, is
\* taken by a process that exists, and never creates or starts one.
LEMMA WorkerFrame ==
  ASSUME NEW g \in Gens, WorkerStep(g), HandoffTypeOK
  PROVE  /\ UNCHANGED <<phase, activeGen, cand, draining, got, handed, updating, disk>>
         /\ UNCHANGED <<unrestored, spawned>>
         /\ UNCHANGED ver
         /\ \A h \in Gens \ {g} : /\ down'[h] = down[h] /\ up'[h] = up[h]
                                  /\ genLife'[h] = genLife[h] /\ accepting'[h] = accepting[h]
                                  /\ frozen'[h] = frozen[h] /\ writing'[h] = writing[h]
                                  /\ doc'[h] = doc[h]
         /\ Alive(g) \/ writing[g] \/ accepting[g]
         /\ Alive(g)' => Alive(g)
         /\ genLife'[g] = "starting" => genLife[g] = "starting" /\ down'[g] = down[g]
<1> USE DEF HandoffTypeOK, supVars, sigVars, workVars, Worker
<1>1. CASE Start(g)
  <2>1. \/ down' = [down EXCEPT ![g] = Tail(@)]
        \/ down' = [down EXCEPT ![g] = SubSeq(@, 5, Len(@))]
    BY <1>1 DEF Start
  <2>2. up' = up \/ up' = Send(up, g, <<C("Prepared")>>)
    BY <1>1 DEF Start
  <2>3. \A h \in Gens \ {g} : down'[h] = down[h] /\ up'[h] = up[h]
    BY <2>1, <2>2 DEF Send
  <2> QED
    BY <1>1, <2>3 DEF Start, Alive
<1>2. CASE Commit(g) \/ AnnounceReady(g)
  BY ZenonT(60), <1>2 DEF Commit, Send, Alive, AnnounceReady
<1>3. CASE StartRefused(g) \/ WorkerExit(g) \/ Fails(g)
  BY ZenonT(60), <1>3 DEF StartRefused, Kill, Send, Alive, WorkerExit, Fails
<1>4. CASE FreezeUpdates(g) \/ ResumeWorker(g) \/ WithdrawWorker(g) \/ Drain(g)
  BY ZenonT(60), <1>4 DEF FreezeUpdates, Control, Send, Alive, ResumeWorker, WithdrawWorker, Drain
<1>5. CASE ExportSnapshot(g)
  BY <1>5 DEF ExportSnapshot, Send, Alive
<1>6. CASE WriteCommit(g) \/ WriteFails(g) \/ WriteBegin(g) \/ Reload(g)
  BY <1>6 DEF WriteCommit, Send, Alive, WriteFails, WriteBegin, Reload
<1>7. CASE RequestRestart(g)
  BY <1>7 DEF RequestRestart, Send, Alive
<1> QED
  BY <1>1, <1>2, <1>3, <1>4, <1>5, <1>6, <1>7 DEF WorkerStep, Lead, EndWrite

\* A complete export holds a snapshot.
LEMMA SnapshotFound ==
  ASSUME HandoffTypeOK, NEW m, Spawn(m)
  PROVE  /\ (CHOOSE x \in got : x.role = "ConfigSnapshot") \in got
         /\ (CHOOSE x \in got : x.role = "ConfigSnapshot").doc \in 0..MaxDocs
<1>1. \E y \in got : y.role = "ConfigSnapshot"
  BY DEF Spawn
<1>2. (CHOOSE x \in got : x.role = "ConfigSnapshot") \in got
  BY <1>1
<1> QED
  BY <1>2, DescriptorDoc DEF HandoffTypeOK


\* The effect of spawning candidate c, place by place.
Spawning(c) ==
  /\ c = spawned + 1 /\ c # activeGen /\ c \notin draining /\ c # 0 /\ Unborn(c)
  /\ phase = "export" /\ cand = 0 /\ handed' \in 0..MaxDocs
  /\ spawned' = c /\ cand' = c /\ phase' = "prepared" /\ got' = {}
  /\ genLife'[c] = "starting" /\ ver'[c] = disk /\ down'[c] = Order(handed') /\ up'[c] = <<>>
  /\ \A g \in Gens \ {c} : /\ genLife'[g] = genLife[g] /\ ver'[g] = ver[g]
                           /\ down'[g] = down[g]
  /\ up' = [up EXCEPT ![activeGen] = Tail(@)]
  /\ UNCHANGED <<activeGen, draining, updating, disk, unrestored, accepting, frozen, writing, doc>>

\* ReceiveExport spawns the next generation, which nobody owned.
LEMMA SpawnEffect ==
  ASSUME HandoffTypeOK, OwnerInv, UnbornInv, ReceiveExport, Spawn(Head(up[activeGen]))
  PROVE  \E c \in Gens : Spawning(c)
<1>1. PICK c \in Gens : c = spawned + 1
  BY HandoffAssumption DEF ReceiveExport, OwnerInv, HandoffTypeOK, Gens
<1>2. c # activeGen /\ c \notin draining /\ c # 0 /\ Unborn(c) /\ cand = 0
  BY SMTT(40), <1>1, HandoffAssumption DEF ReceiveExport, OwnerInv, UnbornInv, HandoffTypeOK, Gens
<1>3. /\ genLife' = [genLife EXCEPT ![c] = "starting"] /\ ver' = [ver EXCEPT ![c] = disk]
      /\ spawned' = c /\ cand' = c /\ phase' = "prepared" /\ got' = {}
      /\ down' = [down EXCEPT ![c] = Order(handed')] /\ handed' \in 0..MaxDocs
  BY <1>1, SnapshotFound DEF Spawn, Order
<1>4. /\ genLife'[c] = "starting" /\ ver'[c] = disk /\ down'[c] = Order(handed')
      /\ \A g \in Gens \ {c} : /\ genLife'[g] = genLife[g] /\ ver'[g] = ver[g]
                               /\ down'[g] = down[g]
  BY <1>3 DEF HandoffTypeOK
<1>5. /\ up' = [up EXCEPT ![activeGen] = Tail(@)] /\ phase = "export"
      /\ UNCHANGED <<activeGen, draining, updating, disk, unrestored, accepting, frozen, writing, doc>>
  BY DEF ReceiveExport, Spawn
<1>6. up'[c] = <<>>
  BY <1>2, <1>5 DEF Unborn, HandoffTypeOK
<1> QED
  BY <1>1, <1>2, <1>3, <1>4, <1>5, <1>6 DEF Spawning

\* Rejecting a replacement restores a release that exists.
LEMMA RejectTyped ==
  ASSUME HandoffTypeOK, DiskInv, Reject
  PROVE  /\ phase' = "run" /\ cand' = 0 /\ got' = {} /\ updating' = FALSE
         /\ disk' \in Nat /\ unrestored' \in BOOLEAN /\ down' \in [Gens -> Seq(Message)]
<1>1. disk' \in Nat
  BY SMTT(40) DEF Reject, Rollback, DiskInv, HandoffTypeOK
<1>3. unrestored' \in BOOLEAN
  BY DEF Reject, Rollback, HandoffTypeOK
<1>2. down' \in [Gens -> Seq(Message)]
  BY MessagesTyped, SendTyped DEF Reject, HandoffTypeOK, Controls
<1> QED
  BY <1>1, <1>2, <1>3 DEF Reject

\* Every step keeps the types.
LEMMA TypeStep ==
  ASSUME HandoffTypeOK, OfferInv, OwnerInv, DiskInv, [HandoffNext]_handoffVars
  PROVE  HandoffTypeOK'
<1> USE HandoffAssumption DEF HandoffTypeOK, Gens, supVars, sigVars, workVars, Worker
<1>1. CASE BootReady
  BY <1>1, MessagesTyped, SendTyped, TailTyped DEF BootReady, Controls
<1>2. CASE BootFails
  BY <1>2 DEF BootFails, Kill
<1>3. CASE RunPass
  <2> PICK m \in Message, due \in BOOLEAN : Pass(m, due)
    BY <1>3, MessagesTyped, TailTyped DEF RunPass, Controls
  <2>1. up' \in [Gens -> Seq(Message)]
    <3>1. CASE up[activeGen] = <<>>
      BY <1>3, <3>1 DEF RunPass
    <3>2. CASE up[activeGen] # <<>>
      <4>1. up' = up \/ up' = [up EXCEPT ![activeGen] = Tail(@)]
        BY <1>3, <3>2 DEF RunPass
      <4> QED
        <5>1. Tail(up[activeGen]) \in Seq(Message)
          BY <3>2
        <5> QED
          BY <4>1, <5>1
    <3> QED
      BY <3>1, <3>2
  <2>2. down' \in [Gens -> Seq(Message)]
    <3>1. Send(down, activeGen, <<C("FreezeExport")>>) \in [Gens -> Seq(Message)]
      BY MessagesTyped, SendTyped DEF Controls
    <3> QED
      BY <3>1 DEF Pass, FreezeActive, Idle
  <2>3. draining' \subseteq Gens /\ hup' \in BOOLEAN /\ got' \subseteq Descriptors
    BY DEF Pass, FreezeActive, Idle
  <2>4. updating' \in BOOLEAN
    BY DEF Pass, FreezeActive, Idle
  <2>5. disk' \in Nat
    BY DEF Pass, FreezeActive, Idle
  <2>6. phase' \in Phases
    BY DEF Pass, FreezeActive, Idle, Phases
  <2> QED
    BY <1>3, <2>1, <2>2, <2>3, <2>4, <2>5, <2>6 DEF RunPass, Phases
<1>4. CASE Bail
  BY <1>4 DEF Bail, Kill
<1>5. CASE ReceiveExport
  <2> DEFINE m == Head(up[activeGen])
  <2>1. up' \in [Gens -> Seq(Message)] /\ m \in Message
    BY <1>5, TailTyped DEF ReceiveExport
  <2>2. CASE Collect(m)
    BY <1>5, <2>1, <2>2, DescriptorOf DEF ReceiveExport, Collect
  <2>3. CASE Subsumed(m)
    BY <1>5, <2>1, <2>3 DEF ReceiveExport, Subsumed
  <2>4. CASE Spawn(m)
    <3> DEFINE x == CHOOSE x \in got : x.role = "ConfigSnapshot"
    <3>1. x.doc \in 0..MaxDocs
      <4>1. \E y \in got : y.role = "ConfigSnapshot"
        BY <2>4 DEF Spawn
      <4>2. x \in got
        BY <4>1
      <4> QED
        BY <4>2, DescriptorDoc
    <3>2. spawned + 1 \in Gens
      BY <1>5 DEF ReceiveExport, OwnerInv
    <3>3. <<C("FreezeExport")>> \o ExportOf(x.doc) \in Seq(Message)
      BY <3>1, MessagesTyped DEF Controls
    <3> QED
      BY <1>5, <2>1, <2>4, <3>1, <3>2, <3>3 DEF ReceiveExport, Spawn
  <2>5. CASE Malformed(m)
    <3>1. Reject
      BY <2>5 DEF Malformed
    <3> QED
      BY <1>5, <2>1, <2>5, <3>1, RejectTyped DEF ReceiveExport, Malformed
  <2> QED
    BY <1>5, <2>2, <2>3, <2>4, <2>5 DEF ReceiveExport
<1>6. CASE ExportFails
  <2>1. faults' \in Nat
    BY <1>6 DEF ExportFails, SpendFault
  <2> QED
    BY <1>6, <2>1, RejectTyped DEF ExportFails
<1>7. CASE ExpectPrepared
  <2>1. cand \in Gens
    BY <1>7 DEF ExpectPrepared, OwnerInv
  <2> QED
    BY <1>7, <2>1, MessagesTyped, SendTyped, TailTyped DEF ExpectPrepared, Controls
<1>8. CASE ExpectReady
  <2>1. cand \in Gens
    BY <1>8 DEF ExpectReady, OwnerInv
  <2> QED
    BY <1>8, <2>1, MessagesTyped, SendTyped, TailTyped DEF ExpectReady, Controls
<1>9. CASE CandidateFails
  <2>1. down' \in [Gens -> Seq(Message)]
    <3>1. cand \in Gens
      BY <1>9 DEF CandidateFails, OwnerInv
    <3> QED
      BY <1>9, <3>1, MessagesTyped, SendTyped DEF CandidateFails, Controls
  <2>2. faults' \in Nat
    BY <1>9 DEF CandidateFails, SpendFault
  <2> QED
    BY <1>9, <2>1, <2>2 DEF CandidateFails
<1>10. CASE CandidateStopped
  <2>1. cand \in Gens
    BY <1>10 DEF CandidateStopped, OwnerInv
  <2> QED
    BY <1>10, <2>1, RejectTyped DEF CandidateStopped, Kill
<1>11. CASE Shutdown \/ ChannelFails
  <2>1. /\ <<C("Withdraw")>> \in Seq(Message) /\ <<C("Drain")>> \in Seq(Message)
    BY MessagesTyped DEF Controls
  <2>2. BeginShutdown
    BY <1>11 DEF Shutdown, ChannelFails
  <2>3. down' \in [Gens -> Seq(Message)]
    BY <2>1, <2>2 DEF BeginShutdown
  <2>4. faults' \in Nat
    BY <1>11 DEF Shutdown, ChannelFails, SpendFault
  <2> QED
    BY <2>2, <2>3, <2>4 DEF BeginShutdown
<1>12. CASE LameDuckEnds
  BY <1>12, MessagesTyped, SendTyped, TailTyped DEF LameDuckEnds, Controls
<1>13. CASE Stopped
  BY <1>13 DEF Stopped, Kill
<1>14. CASE Hangup
  BY SMTT(40), <1>14 DEF Hangup
<1>15. CASE Terminate
  BY SMTT(40), <1>15 DEF Terminate, SpendFault
<1>16. ASSUME NEW g \in Gens, Start(g) PROVE HandoffTypeOK'
  <2>1. up' \in [Gens -> Seq(Message)]
    <3>1. Send(up, g, <<C("Prepared")>>) \in [Gens -> Seq(Message)]
      BY MessagesTyped, SendTyped DEF Controls
    <3> QED
      BY <1>16, <3>1 DEF Start
  <2>2. SubSeq(down[g], 5, Len(down[g])) \in Seq(Message)
    OBVIOUS
  <2>3. down' \in [Gens -> Seq(Message)]
    <3>1. \/ down' = [down EXCEPT ![g] = Tail(@)]
          \/ down' = [down EXCEPT ![g] = SubSeq(@, 5, Len(@))]
      BY <1>16 DEF Start
    <3>2. down[g] # <<>>
      BY <1>16 DEF Start
    <3> QED
      <4>1. Tail(down[g]) \in Seq(Message)
        BY <3>2
      <4> QED
        BY <2>2, <3>1, <4>1
  <2>4. doc' \in [Gens -> 0..MaxDocs]
    <3>1. Head(down[g]) = C("FreezeExport") => down[g][2].doc \in 0..MaxDocs
      BY <1>16 DEF Start, OfferInv, Offer
    <3> QED
      BY ZenonT(60), <1>16, <3>1 DEF Start
  <2>5. accepting' \in [Gens -> BOOLEAN]
    BY <1>16 DEF Start
  <2> QED
    BY <1>16, <2>1, <2>3, <2>4, <2>5 DEF Start
<1>17. ASSUME NEW g \in Gens, Commit(g) PROVE HandoffTypeOK'
  BY <1>17, MessagesTyped, SendTyped, TailTyped DEF Commit, Controls
<1>18. ASSUME NEW g \in Gens, StartRefused(g) PROVE HandoffTypeOK'
  BY <1>18 DEF StartRefused, Kill
<1>19. ASSUME NEW g \in Gens, AnnounceReady(g) PROVE HandoffTypeOK'
  BY <1>19, MessagesTyped, SendTyped, TailTyped DEF AnnounceReady, Controls
<1>20. ASSUME NEW g \in Gens, FreezeUpdates(g) PROVE HandoffTypeOK'
  BY <1>20, MessagesTyped, SendTyped, TailTyped DEF FreezeUpdates, Control, Controls
<1>21. ASSUME NEW g \in Gens, ExportSnapshot(g) PROVE HandoffTypeOK'
  BY <1>21, MessagesTyped, SendTyped, TailTyped DEF ExportSnapshot, Controls
<1>22. ASSUME NEW g \in Gens, ResumeWorker(g) PROVE HandoffTypeOK'
  BY <1>22, MessagesTyped, SendTyped, TailTyped DEF ResumeWorker, Control, Controls
<1>23. ASSUME NEW g \in Gens, WithdrawWorker(g) PROVE HandoffTypeOK'
  BY <1>23, MessagesTyped, SendTyped, TailTyped DEF WithdrawWorker, Control, Controls
<1>24. ASSUME NEW g \in Gens, Drain(g) PROVE HandoffTypeOK'
  BY <1>24, MessagesTyped, SendTyped, TailTyped DEF Drain, Control, Controls
<1>25. ASSUME NEW g \in Gens, WorkerExit(g) PROVE HandoffTypeOK'
  BY <1>25 DEF WorkerExit, Kill
<1>26. ASSUME NEW g \in Gens, WriteCommit(g) PROVE HandoffTypeOK'
  BY SMTT(40), <1>26 DEF WriteCommit
<1>27. ASSUME NEW g \in Gens, WriteFails(g) PROVE HandoffTypeOK'
  BY <1>27 DEF WriteFails
<1>28. ASSUME NEW g \in Gens, Fails(g) PROVE HandoffTypeOK'
  <2>1. faults' \in Nat
    BY <1>28 DEF Fails, SpendFault
  <2> QED
    BY <1>28, <2>1 DEF Fails, Kill
<1>29. ASSUME NEW g \in Gens, WriteBegin(g) PROVE HandoffTypeOK'
  BY <1>29 DEF WriteBegin
<1>30. ASSUME NEW g \in Gens, Reload(g) PROVE HandoffTypeOK'
  BY <1>30 DEF Reload
<1>31. ASSUME NEW g \in Gens, RequestRestart(g) PROVE HandoffTypeOK'
  <2>1. up' \in [Gens -> Seq(Message)]
    BY <1>31, MessagesTyped, SendTyped DEF RequestRestart, Controls
  <2>2. signals' \in 0..MaxSignals
    BY <1>31 DEF RequestRestart
  <2> QED
    BY <1>31, <2>1, <2>2 DEF RequestRestart
<1>32. CASE UNCHANGED handoffVars
  BY <1>32 DEF handoffVars
<1> QED
  BY <1>1, <1>2, <1>3, <1>4, <1>5, <1>6, <1>7, <1>8, <1>9, <1>10, <1>11, <1>12, <1>13, <1>14,
     <1>15, <1>16, <1>17, <1>18, <1>19, <1>20, <1>21, <1>22, <1>23, <1>24, <1>25, <1>26, <1>27,
     <1>28, <1>29, <1>30, <1>31, <1>32 DEF HandoffNext, Supervise, Lead, EndWrite

\* A message sent to a starting generation does not disturb what it was offered.
LEMMA OfferGrows ==
  ASSUME NEW s \in Seq(Message), NEW t \in Seq(Message), Offer(s)
  PROVE  Offer(s \o t)
<1>1. /\ s \o t # <<>> /\ Head(s \o t) = Head(s) /\ Len(s \o t) = Len(s) + Len(t)
      /\ Len(s) >= 2 => (s \o t)[2] = s[2]
  BY DEF Offer
<1> QED
  BY <1>1 DEF Offer

\* The same for the channels of all of them.
LEMMA OfferSent ==
  ASSUME OfferInv, HandoffTypeOK, NEW g \in Gens, NEW ms \in Seq(Message),
         genLife' = genLife, down' = Send(down, g, ms)
  PROVE  OfferInv'
  BY OfferGrows DEF OfferInv, HandoffTypeOK, Send

\* Every step keeps OfferInv: a generation starts with an offer.
LEMMA OfferStep ==
  ASSUME HandoffTypeOK, OfferInv, OwnerInv, [HandoffNext]_handoffVars
  PROVE  OfferInv'
<1> USE HandoffAssumption
<1>1. CASE BootReady \/ BootFails \/ Bail \/ Stopped \/ Hangup \/ Terminate
  BY SMTT(40), <1>1 DEF BootReady, OfferInv, HandoffTypeOK, workVars, BootFails, Kill, Bail, Stopped,
     Hangup, Terminate
<1>2. CASE RunPass
  <2>1. UNCHANGED genLife
    BY <1>2 DEF RunPass, workVars
  <2>2. \/ UNCHANGED down
        \/ down' = Send(down, activeGen, <<C("FreezeExport")>>)
    BY <1>2 DEF RunPass, Pass, FreezeActive, Idle
  <2> QED
    BY <2>1, <2>2, OfferSent, MessagesTyped DEF OfferInv, Controls, HandoffTypeOK
<1>3. CASE ReceiveExport
  <2> DEFINE m == Head(up[activeGen])
  <2>1. CASE Collect(m)
    BY <2>1 DEF Collect, OfferInv, workVars
  <2>2. CASE Subsumed(m)
    BY <2>2 DEF Subsumed, OfferInv, workVars
  <2>3. CASE Spawn(m)
    <3> DEFINE x == CHOOSE x \in got : x.role = "ConfigSnapshot"
               s == <<C("FreezeExport")>> \o ExportOf(x.doc)
    <3>1. x.doc \in 0..MaxDocs
      BY <2>3, SnapshotFound
    <3>2. Offer(s)
      BY <3>1 DEF Offer, ExportOf, Snapshot
    <3>3. /\ down' = [down EXCEPT ![spawned + 1] = s]
          /\ genLife' = [genLife EXCEPT ![spawned + 1] = "starting"]
      BY <2>3 DEF Spawn
    <3> QED
      BY <3>2, <3>3 DEF OfferInv, HandoffTypeOK
  <2>4. CASE Malformed(m)
    BY <2>4, OfferSent, MessagesTyped DEF Malformed, Reject, workVars, Controls, HandoffTypeOK
  <2> QED
    BY <1>3, <2>1, <2>2, <2>3, <2>4 DEF ReceiveExport
<1>4. CASE ExportFails
  BY <1>4, OfferSent, MessagesTyped DEF ExportFails, Reject, workVars, Controls, HandoffTypeOK
<1>5. CASE ExpectPrepared
  <2>1. cand \in Gens /\ activeGen \in Gens
    BY <1>5 DEF ExpectPrepared, OwnerInv, HandoffTypeOK
  <2> QED
    BY <1>5, <2>1, OfferSent, MessagesTyped DEF ExpectPrepared, workVars, Controls
<1>6. CASE ExpectReady
  <2>1. cand \in Gens /\ activeGen \in Gens
    BY <1>6 DEF ExpectReady, OwnerInv, HandoffTypeOK
  <2> QED
    BY <1>6, <2>1, OfferSent, MessagesTyped DEF ExpectReady, workVars, Controls
<1>7. CASE CandidateFails
  <2>1. cand \in Gens /\ activeGen \in Gens
    BY <1>7 DEF CandidateFails, OwnerInv, HandoffTypeOK
  <2> QED
    BY <1>7, <2>1, OfferSent, MessagesTyped DEF CandidateFails, workVars, Controls
<1>8. CASE CandidateStopped
  <2>1. down' = Send(down, activeGen, <<C("Resume")>>) /\ <<C("Resume")>> \in Seq(Message)
    BY <1>8, MessagesTyped DEF CandidateStopped, Reject, Controls
  <2>2. \A g \in Gens : genLife'[g] = "starting" => genLife[g] = "starting"
    BY <1>8 DEF CandidateStopped, Kill
  <2> QED
    BY <2>1, <2>2, OfferGrows DEF OfferInv, Send, HandoffTypeOK
<1>9. CASE Shutdown \/ ChannelFails
  <2>1. \A g \in Gens : down'[g] \in {down[g], down[g] \o <<C("Withdraw")>>, down[g] \o <<C("Drain")>>}
    BY <1>9 DEF Shutdown, ChannelFails, BeginShutdown
  <2>2. BeginShutdown
    BY <1>9 DEF Shutdown, ChannelFails
  <2> QED
    BY <2>1, <2>2, OfferGrows, MessagesTyped DEF BeginShutdown, workVars, OfferInv, HandoffTypeOK,
       Controls
<1>10. CASE LameDuckEnds
  BY <1>10, OfferSent, MessagesTyped DEF LameDuckEnds, Reject, workVars, Controls, HandoffTypeOK
<1>11. ASSUME NEW g \in Gens, WorkerStep(g) PROVE OfferInv'
  BY <1>11, WorkerFrame DEF OfferInv, HandoffTypeOK
<1>12. CASE UNCHANGED handoffVars
  BY <1>12 DEF handoffVars, OfferInv
<1> QED
  BY <1>1, <1>2, <1>3, <1>4, <1>5, <1>6, <1>7, <1>8, <1>9, <1>10, <1>11, <1>12 DEF HandoffNext,
     Supervise, WorkerStep

\* Every step keeps UnbornInv: only Spawn creates a generation.
LEMMA UnbornStep ==
  ASSUME HandoffTypeOK, OwnerInv, UnbornInv, [HandoffNext]_handoffVars
  PROVE  UnbornInv'
<1> USE HandoffAssumption DEF HandoffTypeOK, OwnerInv, Gens, supVars, sigVars, workVars
<1>1. CASE BootReady
  BY <1>1 DEF BootReady, UnbornInv, Unborn, Send, Alive
<1>2. CASE BootFails \/ Bail \/ Stopped
  <2>1. UNCHANGED <<spawned, down, up, frozen>>
    BY <1>2 DEF BootFails, Bail, Stopped, Kill
  <2>2. \A g \in Gens : /\ genLife'[g] \in {genLife[g], "gone"}
                        /\ writing'[g] => writing[g]
                        /\ accepting'[g] => accepting[g]
    BY ZenonT(60), <1>2 DEF BootFails, Bail, Stopped, Kill
  <2> QED
    BY <2>1, <2>2 DEF UnbornInv, Unborn, Alive
<1>3. CASE RunPass
  <2>1. \/ UNCHANGED down
        \/ down' = Send(down, activeGen, <<C("FreezeExport")>>)
    BY <1>3 DEF RunPass, Pass, FreezeActive, Idle
  <2>2. \A g \in Gens : g # activeGen => up'[g] = up[g]
    BY <1>3 DEF RunPass
  <2> QED
    BY <1>3, <2>1, <2>2 DEF RunPass, UnbornInv, Unborn, Send, Alive
<1>4. CASE ReceiveExport
  <2> DEFINE m == Head(up[activeGen])
  <2>1. CASE Collect(m)
    BY <1>4, <2>1 DEF ReceiveExport, Collect, UnbornInv, Unborn, Send, Alive
  <2>2. CASE Subsumed(m)
    BY <1>4, <2>2 DEF ReceiveExport, Subsumed, supVars, UnbornInv, Unborn, Send, Alive
  <2>3. CASE Spawn(m)
    <3>1. PICK c \in Gens : Spawning(c)
      BY <1>4, <2>3, SpawnEffect
    <3>2. \A g \in Gens : g > c => g # c /\ g # activeGen /\ g > spawned
      BY <3>1 DEF Spawning
    <3>3. \A g \in Gens : g > c => Unborn(g) /\ Unborn(g)'
      BY <3>1, <3>2 DEF Spawning, UnbornInv, Unborn, Alive
    <3> QED
      BY <3>1, <3>3 DEF Spawning, UnbornInv
  <2>4. CASE Malformed(m)
    BY <1>4, <2>4 DEF ReceiveExport, Malformed, Reject, UnbornInv, Unborn, Send, Alive
  <2> QED
    BY <1>4, <2>1, <2>2, <2>3, <2>4 DEF ReceiveExport
<1>5. CASE ExportFails
  BY <1>5 DEF ExportFails, Reject, UnbornInv, Unborn, Send, Alive
<1>6. CASE ExpectPrepared
  BY <1>6 DEF ExpectPrepared, UnbornInv, Unborn, Send, Alive
<1>7. CASE ExpectReady
  BY <1>7 DEF ExpectReady, UnbornInv, Unborn, Send, Alive
<1>8. CASE CandidateFails
  BY <1>8 DEF CandidateFails, UnbornInv, Unborn, Send, Alive
<1>9. CASE CandidateStopped
  <2>1. down' = Send(down, activeGen, <<C("Resume")>>)
    BY <1>9 DEF CandidateStopped, Reject
  <2>2. \A g \in Gens : /\ genLife'[g] \in {genLife[g], "gone"}
                        /\ writing'[g] => writing[g]
                        /\ accepting'[g] => accepting[g]
    BY <1>9 DEF CandidateStopped, Kill
  <2> QED
    BY <1>9, <2>1, <2>2 DEF CandidateStopped, Kill, UnbornInv, Unborn, Send, Alive
<1>10. CASE Shutdown \/ ChannelFails
  BY ZenonT(60), <1>10 DEF Shutdown, ChannelFails, BeginShutdown, UnbornInv, Unborn, Send, Alive
<1>11. CASE LameDuckEnds
  BY <1>11 DEF LameDuckEnds, UnbornInv, Unborn, Send, Alive
<1>12. CASE Hangup \/ Terminate
  BY ZenonT(60), <1>12 DEF Hangup, UnbornInv, Unborn, Send, Alive, Terminate
<1>13. ASSUME NEW g \in Gens, WorkerStep(g) PROVE UnbornInv'
  <2>1. ~(g > spawned) /\ spawned' = spawned
    BY <1>13, WorkerFrame DEF UnbornInv, Unborn
  <2>2. \A h \in Gens \ {g} : Unborn(h) => Unborn(h)'
    BY <1>13, WorkerFrame DEF Unborn, Alive
  <2> QED
    BY <2>1, <2>2 DEF UnbornInv
<1>14. CASE UNCHANGED handoffVars
  BY <1>14 DEF handoffVars, UnbornInv, Unborn, Alive
<1> QED
  BY <1>1, <1>2, <1>3, <1>4, <1>5, <1>6, <1>7, <1>8, <1>9, <1>10, <1>11, <1>12, <1>13,
     <1>14 DEF HandoffNext, Supervise, WorkerStep

\* Every step keeps OwnerInv: generations are handed from cand to activeGen to
\* draining, and forgotten only when they are gone.
LEMMA OwnerStep ==
  ASSUME HandoffTypeOK, OwnerInv, UnbornInv, [HandoffNext]_handoffVars
  PROVE  OwnerInv'
<1> USE HandoffAssumption DEF HandoffTypeOK, Gens, supVars, sigVars, workVars
<1>1. CASE BootReady \/ Hangup \/ Terminate \/ Shutdown \/ ChannelFails \/ LameDuckEnds
  BY <1>1 DEF BootReady, OwnerInv, Owned, Alive, Hangup, Terminate, Shutdown, ChannelFails,
     BeginShutdown, LameDuckEnds
<1>2. CASE BootFails \/ Bail \/ Stopped
  BY ZenonT(60), <1>2 DEF BootFails, Kill, OwnerInv, Owned, Alive, Bail, Stopped
<1>3. CASE RunPass
  BY <1>3 DEF RunPass, Pass, FreezeActive, Idle, OwnerInv, Owned, Alive
<1>4. CASE ReceiveExport
  <2> DEFINE m == Head(up[activeGen])
  <2>1. CASE Collect(m)
    BY <1>4, <2>1 DEF ReceiveExport, Collect, OwnerInv, Owned, Alive
  <2>2. CASE Subsumed(m)
    BY <1>4, <2>2 DEF ReceiveExport, Subsumed, supVars, OwnerInv, Owned, Alive
  <2>3. CASE Spawn(m)
    <3>1. PICK c \in Gens : Spawning(c)
      BY <1>4, <2>3, SpawnEffect
    <3>2. \A g \in 1..spawned : g \in 1..c
      BY <3>1 DEF Spawning
    <3>3. activeGen' \in 1..spawned' /\ draining' \subseteq 1..spawned' /\ cand' \in 0..spawned'
      BY <3>1, <3>2 DEF Spawning, OwnerInv
    <3>4. \A g \in Gens : Alive(g)' => g \in Owned'
      <4> SUFFICES ASSUME NEW g \in Gens, Alive(g)' PROVE g \in Owned'
        OBVIOUS
      <4>1. CASE g = c
        BY <3>1, <4>1 DEF Spawning, Owned
      <4>2. CASE g # c
        <5>1. genLife'[g] = genLife[g]
          BY <3>1, <4>2 DEF Spawning
        <5>2. Alive(g)
          BY <5>1 DEF Alive
        <5>3. cand = 0 /\ g # 0
          BY <3>1 DEF Spawning
        <5>4. g \in draining \cup {activeGen}
          BY <5>2, <5>3 DEF OwnerInv, Owned
        <5> QED
          BY <3>1, <5>4 DEF Spawning, Owned
      <4> QED
        BY <4>1, <4>2
    <3> QED
      BY <3>1, <3>3, <3>4 DEF Spawning, OwnerInv
  <2>4. CASE Malformed(m)
    BY <1>4, <2>4 DEF ReceiveExport, Malformed, Reject, OwnerInv, Owned, Alive
  <2> QED
    BY <1>4, <2>1, <2>2, <2>3, <2>4 DEF ReceiveExport
<1>5. CASE ExportFails
  BY <1>5 DEF ExportFails, Reject, OwnerInv, Owned, Alive
<1>6. CASE ExpectPrepared
  BY <1>6 DEF ExpectPrepared, OwnerInv, Owned, Alive
<1>7. CASE ExpectReady
  <2>1. \A g \in Gens : g \in Owned => g \in Owned'
    BY <1>7 DEF ExpectReady, Owned, OwnerInv
  <2>2. /\ activeGen' = cand /\ cand' = 0 /\ draining' = draining \cup {activeGen}
        /\ spawned' = spawned /\ genLife' = genLife /\ phase' = "run" /\ cand # 0
    BY <1>7 DEF ExpectReady, OwnerInv
  <2>3. /\ activeGen' \in 1..spawned' /\ draining' \subseteq 1..spawned'
        /\ activeGen' \notin draining'
    <3>1. cand \in 1..spawned
      BY <2>2 DEF OwnerInv
    <3>2. activeGen \in 1..spawned /\ draining \subseteq 1..spawned /\ cand \notin draining \cup {activeGen}
      BY DEF OwnerInv
    <3> QED
      BY <2>2, <3>1, <3>2
  <2>4. cand' # activeGen' /\ cand' \notin draining' /\ cand' \in 0..spawned'
    BY <2>2 DEF OwnerInv
  <2>5. \A g \in Gens : Alive(g)' => g \in Owned'
    BY <2>1, <2>2 DEF OwnerInv, Alive
  <2> QED
    BY <2>2, <2>3, <2>4, <2>5 DEF OwnerInv
<1>8. CASE CandidateFails
  BY <1>8 DEF CandidateFails, OwnerInv, Owned, Alive
<1>9. CASE CandidateStopped
  <2>1. \A g \in Gens : Alive(g)' => Alive(g) /\ g # cand
    BY <1>9 DEF CandidateStopped, Kill, Alive
  <2> QED
    BY SMTT(40), <1>9, <2>1 DEF CandidateStopped, Reject, OwnerInv, Owned
<1>10. ASSUME NEW g \in Gens, WorkerStep(g) PROVE OwnerInv'
  <2>1. UNCHANGED <<phase, activeGen, cand, draining, spawned>>
    BY <1>10, WorkerFrame
  <2>2. \A h \in Gens : Alive(h)' => Alive(h)
    BY <1>10, WorkerFrame DEF Alive
  <2> QED
    BY <2>1, <2>2 DEF OwnerInv, Owned
<1>11. CASE UNCHANGED handoffVars
  BY <1>11 DEF handoffVars, OwnerInv, Owned, Alive
<1> QED
  BY <1>1, <1>2, <1>3, <1>4, <1>5, <1>6, <1>7, <1>8, <1>9, <1>10, <1>11 DEF HandoffNext,
     Supervise, WorkerStep

\* Every step keeps LifeInv.
LEMMA LifeStep ==
  ASSUME HandoffTypeOK, LifeInv, OwnerInv, UnbornInv, [HandoffNext]_handoffVars
  PROVE  LifeInv'
<1> USE HandoffAssumption DEF HandoffTypeOK, Gens, supVars, sigVars, workVars, Worker
<1>1. CASE BootReady
  BY <1>1 DEF BootReady, LifeInv
<1>2. CASE BootFails
  BY <1>2 DEF BootFails, Kill, LifeInv
<1>3. CASE RunPass
  BY <1>3 DEF RunPass, Pass, FreezeActive, Idle, LifeInv
<1>4. CASE Bail
  BY <1>4 DEF Bail, Kill, LifeInv
<1>5. CASE ReceiveExport
  <2> DEFINE m == Head(up[activeGen])
  <2>1. CASE Collect(m)
    BY <1>5, <2>1 DEF ReceiveExport, Collect, LifeInv, OwnerInv, UnbornInv, Unborn
  <2>2. CASE Subsumed(m)
    BY <1>5, <2>2 DEF ReceiveExport, Subsumed, supVars, LifeInv, OwnerInv, UnbornInv, Unborn
  <2>3. CASE Spawn(m)
    <3>1. PICK c \in Gens : Spawning(c)
      BY <1>5, <2>3, SpawnEffect
    <3> QED
      BY <3>1 DEF Spawning, LifeInv, OwnerInv, UnbornInv, Unborn
  <2>4. CASE Malformed(m)
    BY <1>5, <2>4 DEF ReceiveExport, Malformed, Reject, LifeInv, OwnerInv, UnbornInv, Unborn
  <2> QED
    BY <1>5, <2>1, <2>2, <2>3, <2>4 DEF ReceiveExport
<1>6. CASE ExportFails
  BY <1>6 DEF ExportFails, Reject, LifeInv
<1>7. CASE ExpectPrepared
  BY <1>7 DEF ExpectPrepared, LifeInv
<1>8. CASE ExpectReady
  BY <1>8 DEF ExpectReady, LifeInv
<1>9. CASE CandidateFails
  BY <1>9 DEF CandidateFails, LifeInv
<1>10. CASE CandidateStopped
  BY <1>10 DEF CandidateStopped, Reject, Kill, LifeInv
<1>11. CASE Shutdown \/ ChannelFails
  BY <1>11 DEF Shutdown, ChannelFails, BeginShutdown, LifeInv
<1>12. CASE LameDuckEnds
  BY <1>12 DEF LameDuckEnds, LifeInv
<1>13. CASE Stopped
  BY <1>13 DEF Stopped, Kill, LifeInv
<1>14. CASE Hangup
  BY <1>14 DEF Hangup, LifeInv
<1>15. CASE Terminate
  BY <1>15 DEF Terminate, LifeInv
<1>16. ASSUME NEW g \in Gens, Start(g) PROVE LifeInv'
  BY ZenonT(60), <1>16 DEF Start, LifeInv
<1>17. ASSUME NEW g \in Gens, Commit(g) PROVE LifeInv'
  BY <1>17 DEF Commit, LifeInv
<1>18. ASSUME NEW g \in Gens, StartRefused(g) PROVE LifeInv'
  BY <1>18 DEF StartRefused, Kill, LifeInv
<1>19. ASSUME NEW g \in Gens, AnnounceReady(g) PROVE LifeInv'
  BY <1>19 DEF AnnounceReady, LifeInv
<1>20. ASSUME NEW g \in Gens, FreezeUpdates(g) PROVE LifeInv'
  BY <1>20 DEF FreezeUpdates, Control, LifeInv
<1>21. ASSUME NEW g \in Gens, ExportSnapshot(g) PROVE LifeInv'
  BY <1>21 DEF ExportSnapshot, LifeInv
<1>22. ASSUME NEW g \in Gens, ResumeWorker(g) PROVE LifeInv'
  BY <1>22 DEF ResumeWorker, Control, LifeInv
<1>23. ASSUME NEW g \in Gens, WithdrawWorker(g) PROVE LifeInv'
  BY <1>23 DEF WithdrawWorker, Control, LifeInv
<1>24. ASSUME NEW g \in Gens, Drain(g) PROVE LifeInv'
  BY <1>24 DEF Drain, Control, LifeInv
<1>25. ASSUME NEW g \in Gens, WorkerExit(g) PROVE LifeInv'
  BY <1>25 DEF WorkerExit, Kill, LifeInv
<1>26. ASSUME NEW g \in Gens, WriteCommit(g) PROVE LifeInv'
  BY <1>26 DEF WriteCommit, LifeInv
<1>27. ASSUME NEW g \in Gens, WriteFails(g) PROVE LifeInv'
  BY <1>27 DEF WriteFails, LifeInv
<1>28. ASSUME NEW g \in Gens, Fails(g) PROVE LifeInv'
  BY <1>28 DEF Fails, Kill, LifeInv
<1>29. ASSUME NEW g \in Gens, WriteBegin(g) PROVE LifeInv'
  BY <1>29 DEF WriteBegin, LifeInv
<1>30. ASSUME NEW g \in Gens, Reload(g) PROVE LifeInv'
  BY <1>30 DEF Reload, LifeInv
<1>31. ASSUME NEW g \in Gens, RequestRestart(g) PROVE LifeInv'
  BY <1>31 DEF RequestRestart, LifeInv
<1>32. CASE UNCHANGED handoffVars
  BY <1>32 DEF handoffVars, LifeInv
<1> QED
  BY <1>1, <1>2, <1>3, <1>4, <1>5, <1>6, <1>7, <1>8, <1>9, <1>10, <1>11, <1>12, <1>13, <1>14,
     <1>15, <1>16, <1>17, <1>18, <1>19, <1>20, <1>21, <1>22, <1>23, <1>24, <1>25, <1>26, <1>27,
     <1>28, <1>29, <1>30, <1>31, <1>32 DEF HandoffNext, Supervise, Lead, EndWrite

\* A rejected update puts the old executable back.
LEMMA RejectDisk ==
  ASSUME HandoffTypeOK, DiskInv, Reject, UNCHANGED <<activeGen, ver>>
  PROVE  DiskInv'
<1>1. disk \in Nat /\ ver[activeGen] \in Nat
  BY DEF HandoffTypeOK
<1>2. /\ updating' = FALSE /\ cand' = 0
      /\ \/ disk' = (IF updating THEN disk - 1 ELSE disk) /\ unrestored' = unrestored
         \/ unrestored' = TRUE
  BY DEF Reject, Rollback
<1>3. CASE updating
  BY <1>1, <1>2, <1>3 DEF DiskInv
<1>4. CASE ~updating
  BY <1>1, <1>2, <1>4 DEF DiskInv
<1> QED
  BY <1>3, <1>4

\* Every step keeps DiskInv.
LEMMA DiskStep ==
  ASSUME HandoffTypeOK, OwnerInv, UnbornInv, DiskInv, [HandoffNext]_handoffVars
  PROVE  DiskInv'
<1>1. CASE BootReady \/ BootFails \/ Bail \/ Stopped \/ Hangup \/ Terminate \/ Shutdown \/ ChannelFails
          \/ LameDuckEnds \/ ExpectPrepared \/ CandidateFails
  <2>1. /\ phase \notin {"export", "prepared", "ready", "kill"} \/ phase' \in {"prepared", "ready", "kill", phase}
        /\ UNCHANGED <<activeGen, cand, updating, disk, unrestored, ver>>
    BY <1>1 DEF BootReady, BootFails, Bail, Stopped, Hangup, Terminate, Shutdown, ChannelFails,
     BeginShutdown, LameDuckEnds,
               ExpectPrepared, CandidateFails, Kill, workVars, supVars
  <2> QED
    BY <2>1 DEF DiskInv
<1>2. CASE RunPass
  <2>1. /\ cand' = 0 /\ UNCHANGED <<activeGen, ver, unrestored>> /\ updating = FALSE
    BY <1>2 DEF RunPass, DiskInv, OwnerInv, workVars, HandoffTypeOK
  <2>2. \/ /\ phase' = "export" /\ updating' \in BOOLEAN
           /\ disk' = IF updating' THEN disk + 1 ELSE disk
        \/ UNCHANGED <<updating, disk>>
    BY <1>2 DEF RunPass, Pass, FreezeActive, Idle
  <2> QED
    BY <2>1, <2>2 DEF DiskInv, HandoffTypeOK
<1>3. CASE ReceiveExport
  <2> DEFINE m == Head(up[activeGen])
  <2>1. UNCHANGED activeGen /\ phase = "export"
    BY <1>3 DEF ReceiveExport
  <2>2. CASE Collect(m) \/ Subsumed(m)
    BY <2>1, <2>2 DEF Collect, Subsumed, supVars, workVars, DiskInv
  <2>3. CASE Spawn(m)
    <3>1. PICK c \in Gens : Spawning(c)
      BY <1>3, <2>3, SpawnEffect
    <3> QED
      BY <3>1 DEF Spawning, DiskInv, HandoffTypeOK
  <2>4. CASE Malformed(m)
    BY <2>1, <2>4, RejectDisk DEF Malformed, workVars
  <2> QED
    BY <1>3, <2>2, <2>3, <2>4 DEF ReceiveExport
<1>4. CASE ExportFails
  BY <1>4, RejectDisk DEF ExportFails, workVars
<1>5. CASE ExpectReady
  BY SMTT(40), <1>5 DEF ExpectReady, workVars, DiskInv, OwnerInv, HandoffTypeOK
<1>6. CASE CandidateStopped
  BY <1>6, RejectDisk DEF CandidateStopped, Kill
<1>7. ASSUME NEW g \in Gens, WorkerStep(g) PROVE DiskInv'
  BY <1>7, WorkerFrame DEF DiskInv
<1>8. CASE UNCHANGED handoffVars
  BY <1>8 DEF handoffVars, DiskInv
<1> QED
  BY <1>1, <1>2, <1>3, <1>4, <1>5, <1>6, <1>7, <1>8 DEF HandoffNext, Supervise, WorkerStep

\* A step of a generation that has not been seen to serve leaves it so.
LEMMA FreshKept ==
  ASSUME HandoffTypeOK, LifeInv, NEW g \in Gens, Fresh(g), WorkerStep(g)
  PROVE  Fresh(g)'
<1> USE ControlsDistinct, ControlsTyped DEF HandoffTypeOK, Fresh
<1>1. CASE Start(g)
  <2>1. genLife[g] = "starting" /\ down[g] = <<C("Commit")>> /\ up[g] = <<>>
    BY <1>1 DEF Start
  <2>2. Head(down[g]) = C("Commit") /\ Tail(down[g]) = <<>>
    BY <2>1
  <2>3. genLife'[g] = "warming" /\ down'[g] = <<>> /\ up'[g] = <<>>
    BY <1>1, <2>1, <2>2 DEF Start
  <2> QED
    BY <2>3 DEF Only
<1>2. CASE Commit(g)
  <2>1. down[g] = <<C("Commit")>> /\ up[g] = <<>>
    BY <1>2 DEF Commit
  <2>2. Tail(down[g]) = <<>>
    BY <2>1
  <2>3. genLife'[g] = "warming" /\ down'[g] = <<>> /\ up'[g] = <<>>
    BY <1>2, <2>1, <2>2 DEF Commit
  <2> QED
    BY <2>3 DEF Only
<1>3. CASE StartRefused(g) \/ WorkerExit(g) \/ Fails(g)
  BY <1>3 DEF StartRefused, Kill, supVars, sigVars, workVars, Worker, Send, Alive, WorkerExit,
     Fails
<1>4. CASE AnnounceReady(g)
  <2>1. Only(up[g], {R}) /\ down[g] = <<>>
    BY <1>4 DEF AnnounceReady
  <2>2. /\ Only(up[g], {R, C("Ready")}) /\ Once(up[g], C("Ready"))
        /\ \A i \in DOMAIN up[g] : up[g][i] # C("Ready")
    BY <2>1 DEF Only, Once
  <2>3. genLife'[g] = "serving" /\ down'[g] = <<>> /\ up'[g] = up[g] \o <<C("Ready")>>
    BY <1>4, <2>1 DEF AnnounceReady, Send, Alive
  <2>4. Only(up'[g], {R, C("Ready")})
    BY SMTT(40), <2>2, <2>3, OnlyAppended
  <2>5. Once(up'[g], C("Ready"))
    BY SMTT(40), <2>2, <2>3, OnceAppended
  <2> QED
    BY <2>3, <2>4, <2>5
<1>5. CASE FreezeUpdates(g) \/ ResumeWorker(g) \/ WithdrawWorker(g) \/ Drain(g)
  BY <1>5 DEF FreezeUpdates, Control, supVars, sigVars, workVars, Worker, Send, Alive,
     ResumeWorker, WithdrawWorker, Drain
<1>6. CASE ExportSnapshot(g)
  BY <1>6 DEF ExportSnapshot, supVars, sigVars, workVars, Worker, Send, Alive
<1>7. CASE WriteCommit(g) \/ WriteFails(g) \/ WriteBegin(g) \/ Reload(g)
  BY <1>7 DEF WriteCommit, supVars, sigVars, workVars, Worker, Send, Alive, WriteFails,
     WriteBegin, Reload
<1>8. CASE RequestRestart(g)
  <2>1. genLife[g] \in {"warming", "serving"}
    BY <1>8 DEF RequestRestart, LifeInv
  <2>2. genLife' = genLife /\ down' = down /\ up'[g] = up[g] \o <<R>>
    BY <1>8, <2>1 DEF RequestRestart, Send, Alive, R, workVars
  <2>3. CASE genLife[g] = "warming"
    BY SMTT(40), <2>2, <2>3, OnlyAppended
  <2>4. CASE genLife[g] = "serving"
    BY SMTT(40), <2>2, <2>4, OnlyAppended, OnceAppended
  <2> QED
    BY <2>1, <2>3, <2>4
<1> QED
  BY <1>1, <1>2, <1>3, <1>4, <1>5, <1>6, <1>7, <1>8 DEF WorkerStep, Lead, EndWrite

\* A step of a candidate that was not told to commit leaves it waiting.
LEMMA OfferedKept ==
  ASSUME HandoffTypeOK, LifeInv, NEW g \in Gens, Offered(g), WorkerStep(g)
  PROVE  Offered(g)'
<1> USE ControlsDistinct, ControlsTyped DEF HandoffTypeOK, Offered
<1>1. CASE Start(g)
  <2>1. genLife[g] = "starting" /\ down[g] = Order(handed) /\ up[g] = <<>>
    BY <1>1 DEF Start
  <2>2. Head(down[g]) = C("FreezeExport") /\ SubSeq(down[g], 5, Len(down[g])) = <<>>
    BY <2>1 DEF Order, ExportOf
  <2>3. /\ genLife' = [genLife EXCEPT ![g] = "prepared"]
        /\ down' = [down EXCEPT ![g] = SubSeq(@, 5, Len(@))]
        /\ up' = Send(up, g, <<C("Prepared")>>)
    BY <1>1, <2>2 DEF Start
  <2>4. up'[g] = up[g] \o <<C("Prepared")>>
    BY <2>1, <2>3 DEF Send, Alive
  <2>5. genLife'[g] = "prepared" /\ down'[g] = <<>>
    BY <2>2, <2>3
  <2>6. up'[g] = <<C("Prepared")>>
    BY <2>1, <2>4
  <2> QED
    BY <2>5, <2>6
<1>2. CASE Commit(g) \/ AnnounceReady(g)
  BY <1>2 DEF Commit, supVars, sigVars, workVars, Worker, Send, Alive, AnnounceReady
<1>3. CASE StartRefused(g) \/ WorkerExit(g) \/ Fails(g)
  BY <1>3 DEF StartRefused, Kill, supVars, sigVars, workVars, Worker, Send, Alive, WorkerExit,
     Fails
<1>4. CASE FreezeUpdates(g) \/ ResumeWorker(g) \/ WithdrawWorker(g) \/ Drain(g)
  BY <1>4 DEF FreezeUpdates, Control, supVars, sigVars, workVars, Worker, Send, Alive,
     ResumeWorker, WithdrawWorker, Drain
<1>5. CASE ExportSnapshot(g)
  BY <1>5 DEF ExportSnapshot, supVars, sigVars, workVars, Worker, Send, Alive
<1>6. CASE WriteCommit(g) \/ WriteFails(g) \/ WriteBegin(g) \/ Reload(g)
  BY <1>6 DEF WriteCommit, supVars, sigVars, workVars, Worker, Send, Alive, WriteFails,
     WriteBegin, Reload
<1>7. CASE RequestRestart(g)
  BY <1>7 DEF RequestRestart, supVars, sigVars, workVars, Worker, Send, Alive, LifeInv
<1> QED
  BY <1>1, <1>2, <1>3, <1>4, <1>5, <1>6, <1>7 DEF WorkerStep, Lead, EndWrite

\* Every step keeps StageInv.
LEMMA StageStep ==
  ASSUME HandoffTypeOK, OwnerInv, UnbornInv, LifeInv, StageInv, [HandoffNext]_handoffVars
  PROVE  StageInv'
<1>1. CASE BootReady \/ BootFails \/ Bail \/ ExportFails \/ ExpectReady \/ CandidateFails
          \/ CandidateStopped \/ Shutdown \/ ChannelFails \/ LameDuckEnds \/ Stopped
  BY <1>1 DEF BootReady, StageInv, BootFails, Kill, Bail, ExportFails, Reject, ExpectReady,
     CandidateFails, CandidateStopped, Shutdown, ChannelFails, BeginShutdown, LameDuckEnds, Stopped
<1>2. CASE RunPass
  BY <1>2 DEF RunPass, Pass, FreezeActive, Idle, StageInv
<1>3. CASE ReceiveExport
  <2> DEFINE m == Head(up[activeGen])
  <2>1. CASE Collect(m)
    BY <1>3, <2>1 DEF ReceiveExport, Collect, StageInv
  <2>2. CASE Subsumed(m)
    BY <1>3, <2>2 DEF ReceiveExport, Subsumed, supVars, StageInv
  <2>3. CASE Spawn(m)
    <3>1. PICK c \in Gens : Spawning(c)
      BY <1>3, <2>3, SpawnEffect
    <3>2. Offered(c)'
      BY <3>1 DEF Spawning, Offered
    <3> QED
      BY <3>1, <3>2 DEF Spawning, StageInv
  <2>4. CASE Malformed(m)
    BY <1>3, <2>4 DEF ReceiveExport, Malformed, Reject, StageInv
  <2> QED
    BY <1>3, <2>1, <2>2, <2>3, <2>4 DEF ReceiveExport
<1>4. CASE ExpectPrepared
  <2>1. Offered(cand) /\ cand \in Gens /\ up[cand] # <<>> /\ phase' = "ready" /\ cand' = cand
    BY <1>4 DEF ExpectPrepared, StageInv, OwnerInv, HandoffTypeOK
  <2>2. /\ down' = Send(down, cand, <<C("Commit")>>) /\ up' = [up EXCEPT ![cand] = Tail(@)]
        /\ genLife' = genLife
    BY <1>4 DEF ExpectPrepared, workVars
  <2>3. Fresh(cand)'
    <3>1. CASE genLife[cand] = "gone"
      BY <2>1, <2>2, <3>1 DEF Fresh
    <3>2. CASE genLife[cand] = "prepared"
      <4>1. down[cand] = <<>> /\ up[cand] = <<C("Prepared")>>
        BY <2>1, <3>2 DEF Offered
      <4>2. down'[cand] = <<>> \o <<C("Commit")>> /\ up'[cand] = Tail(up[cand])
        BY <2>1, <2>2, <3>2, <4>1 DEF Send, Alive, HandoffTypeOK
      <4>3. down'[cand] = <<C("Commit")>> /\ up'[cand] = <<>>
        BY <4>1, <4>2
      <4> QED
        BY <2>1, <2>2, <3>2, <4>3 DEF Fresh
    <3> QED
      BY <2>1, <3>1, <3>2 DEF Offered
  <2> QED
    BY <2>1, <2>3 DEF StageInv
<1>5. CASE Hangup \/ Terminate
  BY <1>5 DEF Hangup, Terminate, supVars, workVars, StageInv, Fresh, Offered
<1>6. ASSUME NEW g \in Gens, WorkerStep(g) PROVE StageInv'
  <2>1. UNCHANGED <<phase, activeGen, cand, handed>>
    BY <1>6, WorkerFrame
  <2>2. \A h \in Gens : Fresh(h) => Fresh(h)'
    BY ZenonT(60), <1>6, WorkerFrame, FreshKept DEF Fresh
  <2>3. \A h \in Gens : Offered(h) => Offered(h)'
    BY <1>6, <2>1, WorkerFrame, OfferedKept DEF Offered
  <2>4. phase \in {"prepared", "ready"} => cand \in Gens
    BY DEF OwnerInv, HandoffTypeOK
  <2> QED
    BY <2>1, <2>2, <2>3, <2>4 DEF StageInv, HandoffTypeOK
<1>7. CASE UNCHANGED handoffVars
  BY <1>7 DEF handoffVars, StageInv, Fresh, Offered
<1> QED
  BY <1>1, <1>2, <1>3, <1>4, <1>5, <1>6, <1>7 DEF HandoffNext, Supervise, WorkerStep

\* Every step keeps ServeInv: Drain reaches a generation only after its successor
\* serves.
LEMMA ServeStep ==
  ASSUME HandoffTypeOK, OwnerInv, UnbornInv, LifeInv, StageInv, ServeInv, [HandoffNext]_handoffVars
  PROVE  ServeInv'
<1> USE HandoffAssumption DEF HandoffTypeOK, supVars, sigVars, workVars, Worker
<1>1. CASE BootReady
  <2> DEFINE g == activeGen
  <2>1. Fresh(g) /\ g \in Gens /\ up[g] # <<>> /\ Head(up[g]) = C("Ready")
    BY <1>1 DEF BootReady, StageInv, OwnerInv
  <2>2. activeGen' = g /\ genLife' = genLife /\ down'[g] = down[g]
    BY <1>1 DEF BootReady, OwnerInv, Send
  <2>3. /\ genLife[g] \in {"serving", "gone"}
        /\ genLife[g] = "serving" => down[g] = <<>>
    BY <2>1, ReadyHead
  <2> QED
    BY <2>2, <2>3, OnlyEmpty DEF ServeInv
<1>2. CASE BootFails
  BY <1>2 DEF BootFails, Kill, ServeInv, Served, Send, Alive, Orders
<1>3. CASE RunPass
  <2>1. \/ UNCHANGED down
        \/ down' = Send(down, activeGen, <<C("FreezeExport")>>)
    BY <1>3 DEF RunPass, Pass, FreezeActive, Idle
  <2>2. Only(down[activeGen], Orders) => Only(down'[activeGen], Orders)
    <3>1. C("FreezeExport") \in Orders
      BY DEF Orders
    <3>2. Only(down[activeGen], Orders) => Only(down[activeGen] \o <<C("FreezeExport")>>, Orders)
      BY <3>1, OnlyAppended, ControlsTyped
    <3> QED
      BY <2>1, <3>2 DEF Send
  <2> QED
    BY <1>3, <2>2 DEF RunPass, ServeInv, Served
<1>4. CASE Bail
  BY <1>4 DEF Bail, Kill, ServeInv, Served, Send, Alive, Orders
<1>5. CASE ReceiveExport
  <2> DEFINE m == Head(up[activeGen])
  <2>1. CASE Collect(m)
    BY <1>5, <2>1 DEF ReceiveExport, Collect, ServeInv, Served, Send, Alive, Orders
  <2>2. CASE Subsumed(m)
    BY <1>5, <2>2 DEF ReceiveExport, Subsumed, supVars, ServeInv, Served, Send, Alive, Orders
  <2>3. CASE Spawn(m)
    <3>1. PICK c \in Gens : Spawning(c)
      BY <1>5, <2>3, SpawnEffect
    <3> QED
      BY <3>1 DEF Spawning, ServeInv, Served, Send, Alive, Orders
  <2>4. CASE Malformed(m)
    BY <1>5, <2>4, OnlyTail, OnlyAppended, ControlsTyped DEF ReceiveExport, Malformed, Reject,
       ServeInv, Served, Send, Alive, Orders
  <2> QED
    BY <1>5, <2>1, <2>2, <2>3, <2>4 DEF ReceiveExport
<1>6. CASE ExportFails
  BY <1>6, OnlyTail, OnlyAppended, ControlsTyped DEF ExportFails, Reject, ServeInv, Served,
     Send, Alive, Orders
<1>7. CASE ExpectPrepared
  <2>1. down'[activeGen] = down[activeGen]
    BY <1>7 DEF ExpectPrepared, OwnerInv, Send
  <2> QED
    BY <1>7, <2>1 DEF ExpectPrepared, ServeInv, Served
<1>8. CASE ExpectReady
  <2> DEFINE g == cand
  <2>1. Fresh(g) /\ g \in Gens /\ up[g] # <<>> /\ Head(up[g]) = C("Ready")
    BY <1>8 DEF ExpectReady, StageInv, OwnerInv
  <2>2. activeGen' = g /\ genLife' = genLife /\ down'[g] = down[g]
    BY <1>8 DEF ExpectReady, OwnerInv, Send
  <2>3. /\ genLife[g] \in {"serving", "gone"}
        /\ genLife[g] = "serving" => down[g] = <<>>
    BY <2>1, ReadyHead
  <2> QED
    BY <2>2, <2>3, OnlyEmpty DEF ServeInv
<1>9. CASE CandidateFails
  <2>1. down'[activeGen] = down[activeGen]
    BY <1>9 DEF CandidateFails, OwnerInv, Send
  <2> QED
    BY <1>9, <2>1 DEF CandidateFails, ServeInv, Served
<1>10. CASE CandidateStopped
  BY <1>10, OnlyTail, OnlyAppended, ControlsTyped DEF CandidateStopped, Reject, Kill, ServeInv,
     Served, Send, Alive, Orders
<1>11. CASE Shutdown \/ ChannelFails
  <2>1. BeginShutdown
    BY <1>11 DEF Shutdown, ChannelFails
  <2> QED
    BY <2>1, OnlyTail, OnlyAppended, ControlsTyped DEF BeginShutdown, ServeInv, Served, Send,
       Alive, Orders
<1>12. CASE LameDuckEnds
  BY <1>12, OnlyTail, OnlyAppended, ControlsTyped DEF LameDuckEnds, ServeInv, Served, Send,
     Alive, Orders
<1>13. CASE Stopped
  BY <1>13 DEF Stopped, Kill, ServeInv, Served, Send, Alive, Orders
<1>14. CASE Hangup
  BY <1>14 DEF Hangup, ServeInv, Served, Send, Alive, Orders
<1>15. CASE Terminate
  BY <1>15 DEF Terminate, ServeInv, Served, Send, Alive, Orders
<1>16. ASSUME NEW g \in Gens, Start(g) PROVE ServeInv'
  BY <1>16 DEF Start, ServeInv, Served, Send, Alive, Orders
<1>17. ASSUME NEW g \in Gens, Commit(g) PROVE ServeInv'
  BY <1>17 DEF Commit, ServeInv, Served, Send, Alive, Orders
<1>18. ASSUME NEW g \in Gens, StartRefused(g) PROVE ServeInv'
  BY <1>18 DEF StartRefused, Kill, ServeInv, Served, Send, Alive, Orders
<1>19. ASSUME NEW g \in Gens, AnnounceReady(g) PROVE ServeInv'
  BY <1>19 DEF AnnounceReady, ServeInv, Served, Send, Alive, Orders
<1>20. ASSUME NEW g \in Gens, FreezeUpdates(g) PROVE ServeInv'
  <2>1. down[g] # <<>> /\ down' = [down EXCEPT ![g] = Tail(@)] /\ genLife[g] = "serving"
    BY <1>20 DEF FreezeUpdates, Control
  <2>2. Only(down[activeGen], Orders) => Only(down'[activeGen], Orders)
    BY <2>1, OnlyTail, OnlyAppended, ControlsTyped
  <2> QED
    BY <1>20, <2>1, <2>2 DEF FreezeUpdates, ServeInv, Served
<1>21. ASSUME NEW g \in Gens, ExportSnapshot(g) PROVE ServeInv'
  BY <1>21 DEF ExportSnapshot, ServeInv, Served, Send, Alive, Orders
<1>22. ASSUME NEW g \in Gens, ResumeWorker(g) PROVE ServeInv'
  <2>1. down[g] # <<>> /\ down' = [down EXCEPT ![g] = Tail(@)] /\ genLife[g] = "serving"
    BY <1>22 DEF ResumeWorker, Control
  <2>2. Only(down[activeGen], Orders) => Only(down'[activeGen], Orders)
    BY <2>1, OnlyTail, OnlyAppended, ControlsTyped
  <2> QED
    BY <1>22, <2>1, <2>2 DEF ResumeWorker, ServeInv, Served
<1>23. ASSUME NEW g \in Gens, WithdrawWorker(g) PROVE ServeInv'
  <2>1. down[g] # <<>> /\ down' = [down EXCEPT ![g] = Tail(@)] /\ genLife[g] = "serving"
    BY <1>23 DEF WithdrawWorker, Control
  <2>2. Only(down[activeGen], Orders) => Only(down'[activeGen], Orders)
    BY <2>1, OnlyTail, OnlyAppended, ControlsTyped
  <2> QED
    BY <1>23, <2>1, <2>2 DEF WithdrawWorker, ServeInv, Served
<1>24. ASSUME NEW g \in Gens, Drain(g) PROVE ServeInv'
  <2>1. down[g] # <<>> /\ Head(down[g]) = C("Drain") /\ genLife[g] = "serving"
    BY <1>24 DEF Drain, Control
  <2>2. ~Only(down[g], Orders)
    BY <2>1, OnlyTail, OnlyAppended, ControlsTyped, ControlsDistinct
  <2>3. phase \in Served => g # activeGen
    BY <2>1, <2>2 DEF ServeInv
  <2> QED
    BY <1>24, <2>3 DEF Drain, Control, ServeInv
<1>25. ASSUME NEW g \in Gens, WorkerExit(g) PROVE ServeInv'
  BY <1>25 DEF WorkerExit, Kill, ServeInv, Served, Send, Alive, Orders
<1>26. ASSUME NEW g \in Gens, WriteCommit(g) PROVE ServeInv'
  BY <1>26 DEF WriteCommit, ServeInv, Served, Send, Alive, Orders
<1>27. ASSUME NEW g \in Gens, WriteFails(g) PROVE ServeInv'
  BY <1>27 DEF WriteFails, ServeInv, Served, Send, Alive, Orders
<1>28. ASSUME NEW g \in Gens, Fails(g) PROVE ServeInv'
  BY <1>28 DEF Fails, Kill, ServeInv, Served, Send, Alive, Orders
<1>29. ASSUME NEW g \in Gens, WriteBegin(g) PROVE ServeInv'
  BY <1>29 DEF WriteBegin, ServeInv, Served, Send, Alive, Orders
<1>30. ASSUME NEW g \in Gens, Reload(g) PROVE ServeInv'
  BY <1>30 DEF Reload, ServeInv, Served, Send, Alive, Orders
<1>31. ASSUME NEW g \in Gens, RequestRestart(g) PROVE ServeInv'
  BY <1>31 DEF RequestRestart, ServeInv, Served, Send, Alive, Orders
<1>32. CASE UNCHANGED handoffVars
  BY <1>32 DEF handoffVars, ServeInv, Served
<1> QED
  BY <1>1, <1>2, <1>3, <1>4, <1>5, <1>6, <1>7, <1>8, <1>9, <1>10, <1>11, <1>12, <1>13, <1>14,
     <1>15, <1>16, <1>17, <1>18, <1>19, <1>20, <1>21, <1>22, <1>23, <1>24, <1>25, <1>26, <1>27,
     <1>28, <1>29, <1>30, <1>31, <1>32 DEF HandoffNext, Supervise, Lead, EndWrite

\* The draining generations are finitely many.
LEMMA DrainingFinite ==
  ASSUME HandoffTypeOK
  PROVE  IsFiniteSet(draining) /\ Cardinality(draining) \in Nat
<1>1. IsFiniteSet(Gens)
  BY HandoffAssumption, FS_Interval DEF Gens
<1> QED
  BY <1>1, FS_Subset, FS_CardinalityType DEF HandoffTypeOK

\* Every step keeps RoomInv: a replacement starts only where one more may drain.
LEMMA RoomStep ==
  ASSUME HandoffTypeOK, OwnerInv, UnbornInv, RoomInv, [HandoffNext]_handoffVars
  PROVE  RoomInv'
<1> USE HandoffAssumption DEF supVars, sigVars, workVars
<1>1. CASE BootReady \/ BootFails \/ Bail \/ Stopped \/ Hangup \/ Terminate \/ Shutdown \/ ChannelFails
          \/ LameDuckEnds \/ ExportFails \/ ExpectPrepared \/ CandidateFails
          \/ CandidateStopped
  BY <1>1 DEF BootReady, RoomInv, Replacing, BootFails, Kill, Bail, Stopped, Hangup, Terminate,
     Shutdown, ChannelFails, BeginShutdown, LameDuckEnds, ExportFails, Reject, ExpectPrepared, CandidateFails,
     CandidateStopped
<1>2. CASE RunPass
  <2>1. draining' = {g \in draining : genLife[g] # "gone"} /\ draining' \subseteq draining
    BY <1>2 DEF RunPass, Pass
  <2>2. Cardinality(draining') \in Nat /\ Cardinality(draining') <= Cardinality(draining)
    BY <2>1, DrainingFinite, FS_Subset, FS_CardinalityType DEF HandoffTypeOK
  <2>3. phase' \in Replacing => Cardinality(draining') < MaxDraining
    BY <1>2, <2>1 DEF RunPass, Pass, FreezeActive, Idle, Free, Replacing
  <2> QED
    BY <2>2, <2>3, DrainingFinite DEF RoomInv
<1>3. CASE ReceiveExport
  <2> DEFINE m == Head(up[activeGen])
  <2>1. CASE Collect(m)
    BY <1>3, <2>1 DEF ReceiveExport, Collect, RoomInv, Replacing
  <2>2. CASE Subsumed(m)
    BY <1>3, <2>2 DEF ReceiveExport, Subsumed, supVars, RoomInv, Replacing
  <2>3. CASE Spawn(m)
    <3>1. PICK c \in Gens : Spawning(c)
      BY <1>3, <2>3, SpawnEffect
    <3> QED
      BY <3>1 DEF Spawning, RoomInv, Replacing
  <2>4. CASE Malformed(m)
    BY <1>3, <2>4 DEF ReceiveExport, Malformed, Reject, RoomInv, Replacing
  <2> QED
    BY <1>3, <2>1, <2>2, <2>3, <2>4 DEF ReceiveExport
<1>4. CASE ExpectReady
  <2>1. Cardinality(draining') = Cardinality(draining) + 1
    BY <1>4, DrainingFinite, FS_AddElement DEF ExpectReady, OwnerInv
  <2> QED
    BY <1>4, <2>1, DrainingFinite DEF ExpectReady, RoomInv, Replacing
<1>5. ASSUME NEW g \in Gens, WorkerStep(g) PROVE RoomInv'
  BY <1>5, WorkerFrame DEF RoomInv
<1>6. CASE UNCHANGED handoffVars
  BY <1>6 DEF handoffVars, RoomInv, Replacing
<1> QED
  BY <1>1, <1>2, <1>3, <1>4, <1>5, <1>6 DEF HandoffNext, Supervise, WorkerStep

\* The controls lifecycle_wait handles differ.
LEMMA LoopControls ==
  /\ C("Drain") # C("Resume") /\ C("Drain") # C("FreezeExport") /\ C("Drain") # C("Withdraw")
  /\ C("Resume") # C("FreezeExport") /\ C("Resume") # C("Withdraw")
  /\ C("FreezeExport") # C("Withdraw")
  BY DEF C

\* A channel of length zero is empty.
LEMMA NoneLeft ==
  \A s \in Seq(Message) : Len(s) = 0 => s = <<>>
  OBVIOUS

\* Reading a freeze that is last: it is the freeze, or a resume before it.
LEMMA FreezeLastTail ==
  ASSUME NEW s \in Seq(Message), FreezeLast(s)
  PROVE  /\ s # <<>>
         /\ \/ Head(s) = C("FreezeExport") /\ Tail(s) = <<>>
            \/ Head(s) = C("Resume") /\ FreezeLast(Tail(s))
<1>1. s # <<>> /\ Len(s) \in Nat /\ Len(s) >= 1 /\ Head(s) = s[1] /\ Len(Tail(s)) = Len(s) - 1
  BY DEF FreezeLast
<1>2. CASE Len(s) = 1
  <2>1. s[1] = C("FreezeExport")
    BY <1>2 DEF FreezeLast
  <2>2. Tail(s) = <<>>
    <3>1. Tail(s) \in Seq(Message) /\ Len(Tail(s)) = 0
      BY <1>1, <1>2
    <3> QED
      BY <3>1, NoneLeft, Zenon
  <2> QED
    BY <1>1, <2>1, <2>2
<1>3. CASE Len(s) # 1
  <2>1. s[1] = C("Resume")
    <3>1. 1 \in 1..Len(s) /\ 1 < Len(s)
      BY <1>1, <1>3
    <3> QED
      BY <3>1 DEF FreezeLast
  <2>2. Tail(s) # <<>> /\ \A i \in 1..Len(Tail(s)) : Tail(s)[i] = s[i + 1]
    BY <1>1, <1>3
  <2>3. FreezeLast(Tail(s))
    BY <1>1, <2>2 DEF FreezeLast
  <2> QED
    BY <1>1, <2>1, <2>3
<1> QED
  BY <1>2, <1>3

\* A freeze sent after resumes is last.
LEMMA FreezeLastStarts ==
  ASSUME NEW s \in Seq(Message), Only(s, {C("Resume")})
  PROVE  FreezeLast(s \o <<C("FreezeExport")>>)
  BY DEF FreezeLast, Only

\* An export sent after restart requests lies on the channel in one piece.
LEMMA SendsStarts ==
  ASSUME NEW s \in Seq(Message), NEW t \in Seq(Message), t # <<>>, Only(s, {R})
  PROVE  \E at \in Nat : Sends(s \o t, at, t)
<1>1. Len(s) + 1 \in Nat
  OBVIOUS
<1>2. Sends(s \o t, Len(s) + 1, t)
  BY DEF Sends, Only
<1> QED
  BY <1>1, <1>2

\* A later restart request leaves it there.
LEMMA SendsAppended ==
  ASSUME NEW s \in Seq(Message), NEW t \in Seq(Message), NEW at \in Nat, Sends(s, at, t)
  PROVE  Sends(s \o <<R>>, at, t)
  BY ControlsTyped DEF Sends

\* Reading meets a restart request or the next message of the export.
LEMMA SendsTail ==
  ASSUME NEW s \in Seq(Message), NEW t \in Seq(Message), t # <<>>, NEW at \in Nat, Sends(s, at, t)
  PROVE  /\ s # <<>>
         /\ Head(s) # t[1] => Head(s) = R /\ Sends(Tail(s), at - 1, t) /\ at - 1 \in Nat
         /\ Head(s) = t[1] /\ t[1] # R /\ Len(t) > 1 => Sends(Tail(s), 1, Tail(t))
         /\ Head(s) = t[1] /\ t[1] # R /\ Len(t) = 1 => Only(Tail(s), {R})
<1>1. s # <<>> /\ Len(t) >= 1
  BY DEF Sends
<1>2. CASE at = 1
  <2>1. Head(s) = t[1]
    BY <1>1, <1>2 DEF Sends
  <2>2. CASE Len(t) > 1
    BY <1>1, <1>2, <2>1, <2>2 DEF Sends
  <2>3. CASE Len(t) = 1
    BY <1>1, <1>2, <2>1, <2>3 DEF Sends, Only
  <2> QED
    BY <1>1, <2>1, <2>2, <2>3
<1>3. CASE at > 1
  <2>1. Head(s) = R
    BY <1>1, <1>3 DEF Sends
  <2>2. Sends(Tail(s), at - 1, t)
    BY <1>1, <1>3 DEF Sends
  <2> QED
    BY <1>1, <1>3, <2>1, <2>2
<1> QED
  BY <1>2, <1>3 DEF Sends

\* The same, for the next message of a longer export.
LEMMA SendsFirst ==
  \A s, t \in Seq(Message), at \in Nat :
    Sends(s, at, t) /\ t # <<>> /\ Head(s) = t[1] /\ t[1] # R /\ Len(t) > 1
      => Sends(Tail(s), 1, Tail(t))
  BY SendsTail

\* A step of the worker of an idle supervisor leaves it running or dead.
LEMMA RunningKept ==
  ASSUME HandoffTypeOK, NEW g \in Gens, Running(g), WorkerStep(g)
  PROVE  Running(g)' \/ genLife'[g] = "gone"
<1> USE DEF HandoffTypeOK
<1>1. CASE Start(g) \/ Commit(g) \/ AnnounceReady(g)
  BY <1>1 DEF Start, supVars, sigVars, workVars, Worker, Send, Alive, Running, Commit,
     AnnounceReady
<1>2. CASE StartRefused(g) \/ WorkerExit(g) \/ Fails(g)
  BY <1>2 DEF StartRefused, Kill, supVars, sigVars, workVars, Worker, Send, Alive, Running,
     WorkerExit, Fails
<1>3. CASE FreezeUpdates(g)
  <2>1. down[g] # <<>> /\ Head(down[g]) = C("FreezeExport")
    BY <1>3 DEF FreezeUpdates, Control
  <2> QED
    BY <2>1, OnlyTail, LoopControls DEF Running
<1>4. CASE ExportSnapshot(g)
  BY <1>4 DEF ExportSnapshot, supVars, sigVars, workVars, Worker, Send, Alive, Running
<1>5. CASE ResumeWorker(g)
  <2>1. down[g] # <<>> /\ down'[g] = Tail(down[g])
    BY <1>5 DEF ResumeWorker, Control
  <2>2. Only(down'[g], {C("Resume")})
    BY <2>1, OnlyTail DEF Running
  <2> QED
    BY <1>5, <2>2 DEF ResumeWorker, Running
<1>6. CASE WithdrawWorker(g)
  <2>1. down[g] # <<>> /\ Head(down[g]) = C("Withdraw")
    BY <1>6 DEF WithdrawWorker, Control
  <2> QED
    BY <2>1, OnlyTail, LoopControls DEF Running
<1>7. CASE Drain(g)
  <2>1. down[g] # <<>> /\ Head(down[g]) = C("Drain")
    BY <1>7 DEF Drain, Control
  <2> QED
    BY <2>1, OnlyTail, LoopControls DEF Running
<1>8. CASE WriteCommit(g) \/ WriteFails(g) \/ WriteBegin(g) \/ Reload(g)
  BY <1>8 DEF WriteCommit, supVars, sigVars, workVars, Worker, Send, Alive, Running,
     WriteFails, WriteBegin, Reload
<1>9. CASE RequestRestart(g)
  <2>1. up'[g] = up[g] \o <<R>>
    BY <1>9 DEF RequestRestart, Send, Alive, R, Running
  <2>2. Only(up'[g], {R})
    BY SMTT(40), <2>1, OnlyAppended, ControlsTyped DEF Running
  <2> QED
    BY <1>9, <2>2 DEF RequestRestart, workVars, supVars, Running
<1> QED
  BY <1>1, <1>2, <1>3, <1>4, <1>5, <1>6, <1>7, <1>8, <1>9 DEF WorkerStep, Lead, EndWrite

\* A step of a frozen worker changes neither its freeze nor its document.
LEMMA FrozenKept ==
  ASSUME HandoffTypeOK, NEW g \in Gens, Frozen(g), WorkerStep(g)
  PROVE  Frozen(g)' \/ genLife'[g] = "gone"
<1> USE DEF HandoffTypeOK
<1>1. CASE Start(g) \/ Commit(g) \/ AnnounceReady(g)
  BY <1>1 DEF Start, supVars, sigVars, workVars, Worker, Send, Alive, Frozen, Quiet, Control,
     Commit, AnnounceReady
<1>2. CASE StartRefused(g) \/ WorkerExit(g) \/ Fails(g)
  BY <1>2 DEF StartRefused, Kill, supVars, sigVars, workVars, Worker, Send, Alive, Frozen,
     Quiet, Control, WorkerExit, Fails
<1>3. CASE FreezeUpdates(g) \/ ResumeWorker(g) \/ WithdrawWorker(g) \/ Drain(g)
  BY <1>3 DEF FreezeUpdates, Control, supVars, sigVars, workVars, Worker, Send, Alive, Frozen,
     Quiet, ResumeWorker, WithdrawWorker, Drain
<1>4. CASE ExportSnapshot(g)
  BY <1>4 DEF ExportSnapshot, supVars, sigVars, workVars, Worker, Send, Alive, Frozen, Quiet,
     Control
<1>5. CASE WriteCommit(g) \/ WriteFails(g) \/ WriteBegin(g) \/ Reload(g)
  BY <1>5 DEF WriteCommit, supVars, sigVars, workVars, Worker, Send, Alive, Frozen, Quiet,
     Control, WriteFails, WriteBegin, Reload
<1>6. CASE RequestRestart(g)
  <2>1. up'[g] = up[g] \o <<R>>
    BY <1>6 DEF RequestRestart, Send, Alive, R, Frozen, Quiet
  <2>2. Only(up'[g], {R})
    BY SMTT(40), <2>1, OnlyAppended, ControlsTyped DEF Frozen, Quiet
  <2> QED
    BY <1>6, <2>2 DEF RequestRestart, workVars, supVars, Frozen, Quiet
<1> QED
  BY <1>1, <1>2, <1>3, <1>4, <1>5, <1>6 DEF WorkerStep, Lead, EndWrite

\* A step of a draining generation leaves it without writes.
LEMMA RetiringKept ==
  ASSUME HandoffTypeOK, NEW g \in Gens, Retiring(g), WorkerStep(g)
  PROVE  Retiring(g)'
<1> USE DEF HandoffTypeOK
<1>1. CASE Start(g) \/ Commit(g) \/ AnnounceReady(g)
  BY <1>1 DEF Start, supVars, sigVars, workVars, Worker, Send, Alive, Retiring, Control,
     Commit, AnnounceReady
<1>2. CASE StartRefused(g) \/ WorkerExit(g) \/ Fails(g)
  BY <1>2 DEF StartRefused, Kill, supVars, sigVars, workVars, Worker, Send, Alive, Retiring,
     Control, WorkerExit, Fails
<1>3. CASE FreezeUpdates(g)
  <2>1. down[g] # <<>> /\ Head(down[g]) = C("FreezeExport") /\ genLife[g] = "serving"
    BY <1>3 DEF FreezeUpdates, Control
  <2> QED
    BY <2>1, OnlyTail, LoopControls DEF Retiring
<1>4. CASE ExportSnapshot(g)
  BY <1>4 DEF ExportSnapshot, supVars, sigVars, workVars, Worker, Send, Alive, Retiring, Control
<1>5. CASE ResumeWorker(g)
  <2>1. down[g] # <<>> /\ Head(down[g]) = C("Resume") /\ genLife[g] = "serving"
    BY <1>5 DEF ResumeWorker, Control
  <2> QED
    BY <2>1, OnlyTail, LoopControls DEF Retiring
<1>6. CASE WithdrawWorker(g)
  <2>1. down[g] # <<>> /\ Head(down[g]) = C("Withdraw") /\ genLife[g] = "serving"
    BY <1>6 DEF WithdrawWorker, Control
  <2> QED
    BY <2>1, OnlyTail, LoopControls DEF Retiring
<1>7. CASE Drain(g)
  BY <1>7 DEF Drain, Control, supVars, sigVars, workVars, Worker, Send, Alive, Retiring
<1>8. CASE WriteCommit(g) \/ WriteFails(g) \/ WriteBegin(g) \/ Reload(g)
  BY <1>8 DEF WriteCommit, supVars, sigVars, workVars, Worker, Send, Alive, Retiring, Control,
     WriteFails, WriteBegin, Reload
<1>9. CASE RequestRestart(g)
  BY <1>9 DEF RequestRestart, supVars, sigVars, workVars, Worker, Send, Alive, Retiring, Control
<1> QED
  BY <1>1, <1>2, <1>3, <1>4, <1>5, <1>6, <1>7, <1>8, <1>9 DEF WorkerStep, Lead, EndWrite

\* A worker asked to freeze gets there past the resumes before it.
LEMMA FreezeSentKept ==
  ASSUME HandoffTypeOK, NEW g \in Gens, FreezeSent(g), WorkerStep(g)
  PROVE  FreezeSent(g)' \/ Exporting(g)' \/ genLife'[g] = "gone"
<1>0. UNCHANGED got
  BY WorkerFrame
<1> USE <1>0 DEF HandoffTypeOK
<1>1. CASE Start(g) \/ Commit(g) \/ AnnounceReady(g)
  BY <1>1 DEF Start, supVars, sigVars, workVars, Worker, Send, Alive, FreezeSent, Commit,
     AnnounceReady
<1>2. CASE StartRefused(g) \/ WorkerExit(g) \/ Fails(g)
  BY <1>2 DEF StartRefused, Kill, supVars, sigVars, workVars, Worker, Send, Alive, FreezeSent,
     WorkerExit, Fails
<1>3. CASE FreezeUpdates(g)
  <2>1. down[g] # <<>> /\ Head(down[g]) = C("FreezeExport") /\ down'[g] = Tail(down[g])
    BY <1>3 DEF FreezeUpdates, Control
  <2>2. down'[g] = <<>>
    BY <2>1, FreezeLastTail, LoopControls DEF FreezeSent
  <2> QED
    BY <1>3, <2>2 DEF FreezeUpdates, FreezeSent, Exporting, Worker, supVars
<1>4. CASE ExportSnapshot(g)
  BY <1>4 DEF ExportSnapshot, supVars, sigVars, workVars, Worker, Send, Alive, FreezeSent
<1>5. CASE ResumeWorker(g)
  <2>1. down[g] # <<>> /\ Head(down[g]) = C("Resume") /\ down'[g] = Tail(down[g])
    BY <1>5 DEF ResumeWorker, Control
  <2>2. FreezeLast(down'[g])
    BY <2>1, FreezeLastTail, LoopControls DEF FreezeSent
  <2> QED
    BY <1>5, <2>2 DEF ResumeWorker, FreezeSent, Worker, supVars
<1>6. CASE WithdrawWorker(g)
  <2>1. down[g] # <<>> /\ Head(down[g]) = C("Withdraw")
    BY <1>6 DEF WithdrawWorker, Control
  <2> QED
    BY <2>1, FreezeLastTail, LoopControls DEF FreezeSent
<1>7. CASE Drain(g)
  <2>1. down[g] # <<>> /\ Head(down[g]) = C("Drain")
    BY <1>7 DEF Drain, Control
  <2> QED
    BY <2>1, FreezeLastTail, LoopControls DEF FreezeSent
<1>8. CASE WriteCommit(g) \/ WriteFails(g) \/ WriteBegin(g) \/ Reload(g)
  BY <1>8 DEF WriteCommit, supVars, sigVars, workVars, Worker, Send, Alive, FreezeSent,
     WriteFails, WriteBegin, Reload
<1>9. CASE RequestRestart(g)
  <2>1. up'[g] = up[g] \o <<R>>
    BY <1>9 DEF RequestRestart, Send, Alive, R, FreezeSent
  <2>2. Only(up'[g], {R})
    BY SMTT(40), <2>1, OnlyAppended, ControlsTyped DEF FreezeSent
  <2> QED
    BY <1>9, <2>2 DEF RequestRestart, workVars, supVars, FreezeSent
<1> QED
  BY <1>1, <1>2, <1>3, <1>4, <1>5, <1>6, <1>7, <1>8, <1>9 DEF WorkerStep, Lead, EndWrite

\* It exports once it holds the writer lock: a transaction in flight ends before.
LEMMA ExportingKept ==
  ASSUME HandoffTypeOK, NEW g \in Gens, Exporting(g), WorkerStep(g)
  PROVE  Exporting(g)' \/ Exported(g)' \/ genLife'[g] = "gone"
<1>0. UNCHANGED got
  BY WorkerFrame
<1> USE <1>0 DEF HandoffTypeOK
<1>1. CASE Start(g) \/ Commit(g) \/ AnnounceReady(g)
  BY <1>1 DEF Start, supVars, sigVars, workVars, Worker, Send, Alive, Exporting, Control,
     Commit, AnnounceReady
<1>2. CASE StartRefused(g) \/ WorkerExit(g) \/ Fails(g)
  BY <1>2 DEF StartRefused, Kill, supVars, sigVars, workVars, Worker, Send, Alive, Exporting,
     Control, WorkerExit, Fails
<1>3. CASE FreezeUpdates(g) \/ ResumeWorker(g) \/ WithdrawWorker(g) \/ Drain(g)
  BY <1>3 DEF FreezeUpdates, Control, supVars, sigVars, workVars, Worker, Send, Alive,
     Exporting, ResumeWorker, WithdrawWorker, Drain
<1>4. CASE ExportSnapshot(g)
  <2>1. up'[g] = up[g] \o ExportOf(doc[g])
    BY <1>4 DEF ExportSnapshot, Send, Alive, Exporting
  <2>2. ExportOf(doc[g]) \in Seq(Message) /\ ExportOf(doc[g]) # <<>>
    BY MessagesTyped DEF ExportOf
  <2>3. \E at \in Nat : Sends(up'[g], at, ExportOf(doc[g]))
    BY <2>1, <2>2, SendsStarts DEF Exporting
  <2> QED
    BY <1>4, <2>3 DEF ExportSnapshot, Exporting, Exported, Quiet, Worker, supVars
<1>5. CASE WriteCommit(g) \/ WriteFails(g) \/ WriteBegin(g) \/ Reload(g)
  BY <1>5 DEF WriteCommit, supVars, sigVars, workVars, Worker, Send, Alive, Exporting, Control,
     WriteFails, WriteBegin, Reload
<1>6. CASE RequestRestart(g)
  <2>1. up'[g] = up[g] \o <<R>>
    BY <1>6 DEF RequestRestart, Send, Alive, R, Exporting
  <2>2. Only(up'[g], {R})
    BY <2>1, OnlyAppended, ControlsTyped DEF Exporting
  <2> QED
    BY <1>6, <2>2 DEF RequestRestart, workVars, supVars, Exporting
<1> QED
  BY <1>1, <1>2, <1>3, <1>4, <1>5, <1>6 DEF WorkerStep, Lead, EndWrite

\* After that its document stays the one it exported.
LEMMA ExportedKept ==
  ASSUME HandoffTypeOK, NEW g \in Gens, Exported(g), WorkerStep(g)
  PROVE  Exported(g)' \/ genLife'[g] = "gone"
<1>0. UNCHANGED got
  BY WorkerFrame
<1> USE <1>0 DEF HandoffTypeOK
<1>1. CASE Start(g) \/ Commit(g) \/ AnnounceReady(g)
  BY <1>1 DEF Start, supVars, sigVars, workVars, Worker, Send, Alive, Exported, Quiet, Control,
     Commit, AnnounceReady
<1>2. CASE StartRefused(g) \/ WorkerExit(g) \/ Fails(g)
  BY <1>2 DEF StartRefused, Kill, supVars, sigVars, workVars, Worker, Send, Alive, Exported,
     Quiet, Control, WorkerExit, Fails
<1>3. CASE FreezeUpdates(g) \/ ResumeWorker(g) \/ WithdrawWorker(g) \/ Drain(g)
  BY <1>3 DEF FreezeUpdates, Control, supVars, sigVars, workVars, Worker, Send, Alive,
     Exported, Quiet, ResumeWorker, WithdrawWorker, Drain
<1>4. CASE ExportSnapshot(g)
  BY <1>4 DEF ExportSnapshot, supVars, sigVars, workVars, Worker, Send, Alive, Exported, Quiet,
     Control
<1>5. CASE WriteCommit(g) \/ WriteFails(g) \/ WriteBegin(g) \/ Reload(g)
  BY <1>5 DEF WriteCommit, supVars, sigVars, workVars, Worker, Send, Alive, Exported, Quiet,
     Control, WriteFails, WriteBegin, Reload
<1>6. CASE RequestRestart(g)
  <2>1. up'[g] = up[g] \o <<R>>
    BY <1>6 DEF RequestRestart, Send, Alive, R, Exported, Quiet
  <2>2. /\ ExportOf(doc[g]) \in Seq(Message)
        /\ <<Sockets, C("ExportDone")>> \in Seq(Message) /\ <<C("ExportDone")>> \in Seq(Message)
    <3>1. doc[g] \in 0..MaxDocs
      OBVIOUS
    <3>2. C("ExportDone") \in Message /\ Sockets \in Message
      BY MessagesTyped DEF Controls
    <3> QED
      BY <3>1, <3>2, MessagesTyped
  <2>3. \A at \in Nat, t \in Seq(Message) : Sends(up[g], at, t) => Sends(up'[g], at, t)
    BY <2>1, SendsAppended
  <2> QED
    BY <1>6, <2>2, <2>3 DEF RequestRestart, workVars, supVars, Exported, Quiet
<1> QED
  BY <1>1, <1>2, <1>3, <1>4, <1>5, <1>6 DEF WorkerStep, Lead, EndWrite

\* A dead process takes no step that revives it.
LEMMA GoneStays ==
  ASSUME HandoffTypeOK, NEW g \in Gens, WorkerStep(g), genLife[g] = "gone"
  PROVE  genLife'[g] = "gone"
<1> USE DEF HandoffTypeOK, Kill, Control, Alive, workVars, Worker
<1>1. CASE Start(g) \/ Commit(g) \/ AnnounceReady(g)
  BY <1>1 DEF Start, Commit, AnnounceReady
<1>2. CASE StartRefused(g) \/ WorkerExit(g) \/ Fails(g)
  BY <1>2 DEF StartRefused, Kill, WorkerExit, Fails
<1>3. CASE FreezeUpdates(g) \/ ResumeWorker(g) \/ WithdrawWorker(g) \/ Drain(g)
  BY <1>3 DEF FreezeUpdates, Control, ResumeWorker, WithdrawWorker, Drain
<1>4. CASE ExportSnapshot(g)
  BY <1>4 DEF ExportSnapshot
<1>5. CASE WriteCommit(g) \/ WriteFails(g) \/ WriteBegin(g) \/ Reload(g)
  BY <1>5 DEF WriteCommit, WriteFails, WriteBegin, Reload
<1>6. CASE RequestRestart(g)
  BY <1>6 DEF RequestRestart
<1> QED
  BY <1>1, <1>2, <1>3, <1>4, <1>5, <1>6 DEF WorkerStep, Lead, EndWrite

\* The three stages follow each other.
LEMMA AskedKept ==
  ASSUME HandoffTypeOK, NEW g \in Gens, Asked(g), WorkerStep(g)
  PROVE  Asked(g)' \/ genLife'[g] = "gone"
  BY FreezeSentKept, ExportingKept, ExportedKept DEF Asked

\* The supervisor reads the export in order, restart requests aside, and hands the
\* exported document over.
LEMMA AskedHead ==
  ASSUME HandoffTypeOK, OwnerInv, UnbornInv, Asked(activeGen), ReceiveExport
  PROVE  \/ Subsumed(Head(up[activeGen])) /\ Asked(activeGen)'
         \/ Collect(Head(up[activeGen])) /\ Asked(activeGen)'
         \/ Spawn(Head(up[activeGen])) /\ Frozen(activeGen)'
<1> DEFINE m == Head(up[activeGen])
           a == activeGen
<1>1. /\ a \in Gens /\ up[a] \in Seq(Message) /\ up[a] # <<>> /\ phase = "export" /\ activeGen' = a
      /\ up' = [up EXCEPT ![a] = Tail(@)] /\ up'[a] = Tail(up[a]) /\ doc[a] \in 0..MaxDocs
  BY DEF ReceiveExport, HandoffTypeOK
<1>2. ASSUME m = R
      PROVE  Subsumed(m) /\ UNCHANGED <<got, down, genLife, frozen, writing, doc>>
  <2>1. m.role = "Control" /\ m.control = "RestartRequested" /\ m # C("ExportDone")
    BY <1>2 DEF R, C
  <2> QED
    BY <2>1 DEF ReceiveExport, Collect, Spawn, Malformed, Subsumed, workVars, supVars
<1>3. CASE FreezeSent(a) \/ Exporting(a)
  <2>1. Only(up[a], {R})
    BY <1>3 DEF FreezeSent, Exporting
  <2>2. m = R /\ Only(up'[a], {R})
    BY <1>1, <2>1, OnlyTail
  <2> QED
    BY <1>1, <1>2, <1>3, <2>2 DEF FreezeSent, Exporting, Asked
<1>4. CASE Exported(a)
  <2>1. PICK at \in Nat :
          \/ got = {} /\ Sends(up[a], at, ExportOf(doc[a]))
          \/ got = {Snapshot(doc[a])} /\ Sends(up[a], at, <<Sockets, C("ExportDone")>>)
          \/ got = {Snapshot(doc[a]), Sockets} /\ Sends(up[a], at, <<C("ExportDone")>>)
    BY <1>4 DEF Exported
  <2>2. /\ ExportOf(doc[a]) \in Seq(Message) /\ ExportOf(doc[a])[1] = Snapshot(doc[a])
        /\ ExportOf(doc[a]) # <<>> /\ Len(ExportOf(doc[a])) > 1
        /\ Tail(ExportOf(doc[a])) = <<Sockets, C("ExportDone")>>
    BY <1>1, MessagesTyped DEF ExportOf
  <2>3. /\ <<Sockets, C("ExportDone")>> \in Seq(Message) /\ <<C("ExportDone")>> \in Seq(Message)
    BY MessagesTyped DEF Controls
  <2>4. R # Snapshot(doc[a]) /\ R # Sockets /\ R # C("ExportDone")
    BY DEF R, C, Snapshot, Sockets
  <2>5. CASE m = R
    <3>1. Exported(a)'
      <4>1. \A t \in Seq(Message) : t # <<>> /\ t[1] # R /\ Sends(up[a], at, t)
                                      => \E b \in Nat : Sends(up'[a], b, t)
        BY <1>1, <2>5, SendsTail
      <4>2. /\ UNCHANGED <<got, doc>> /\ activeGen' = a
            /\ Quiet(a)' /\ down'[a] = <<>>
        BY <1>1, <1>2, <1>4, <2>5 DEF Exported, Quiet
      <4>3. \E b \in Nat :
              \/ got = {} /\ Sends(up'[a], b, ExportOf(doc[a]))
              \/ got = {Snapshot(doc[a])} /\ Sends(up'[a], b, <<Sockets, C("ExportDone")>>)
              \/ got = {Snapshot(doc[a]), Sockets} /\ Sends(up'[a], b, <<C("ExportDone")>>)
        <5>1. CASE got = {} /\ Sends(up[a], at, ExportOf(doc[a]))
          BY <2>2, <2>4, <4>1, <5>1
        <5>2. CASE got = {Snapshot(doc[a])} /\ Sends(up[a], at, <<Sockets, C("ExportDone")>>)
          BY <2>3, <2>4, <4>1, <5>2
        <5>3. CASE got = {Snapshot(doc[a]), Sockets} /\ Sends(up[a], at, <<C("ExportDone")>>)
          BY <2>3, <2>4, <4>1, <5>3
        <5> QED
          BY <2>1, <5>1, <5>2, <5>3
      <4> QED
        BY <4>2, <4>3 DEF Exported
    <3> QED
      BY <1>2, <2>5, <3>1 DEF Asked
  <2>6. CASE m # R /\ got = {} /\ Sends(up[a], at, ExportOf(doc[a]))
    <3>1. m = Snapshot(doc[a]) /\ Sends(up'[a], 1, <<Sockets, C("ExportDone")>>)
      <4>1. m = ExportOf(doc[a])[1]
        BY <1>1, <2>2, <2>4, <2>6, SendsTail
      <4>2. Sends(Tail(up[a]), 1, Tail(ExportOf(doc[a])))
        BY <1>1, <2>2, <2>4, <2>6, <4>1, SendsFirst, Zenon
      <4> QED
        BY <1>1, <2>2, <4>1, <4>2
    <3>2. Collect(m)
      <4>1. m.role # "Control" /\ m # C("ExportDone") /\ m # R
        BY <3>1 DEF Snapshot, C, R
      <4>2. {x.role : x \in got} = {}
        BY <2>6
      <4> QED
        BY <4>1, <4>2 DEF ReceiveExport, Subsumed, Spawn, Malformed, R
    <3>3. got' = {Snapshot(doc[a])} /\ UNCHANGED <<down, genLife, frozen, writing, doc>>
      BY <2>6, <3>1, <3>2 DEF Collect, workVars
    <3> QED
      BY <1>1, <1>4, <3>1, <3>2, <3>3 DEF Asked, Exported, Quiet
  <2>7. CASE m # R /\ got = {Snapshot(doc[a])} /\ Sends(up[a], at, <<Sockets, C("ExportDone")>>)
    <3>1. m = Sockets /\ Sends(up'[a], 1, <<C("ExportDone")>>)
      <4> DEFINE t == <<Sockets, C("ExportDone")>>
      <4>1. t # <<>> /\ t[1] = Sockets /\ Len(t) > 1 /\ Tail(t) = <<C("ExportDone")>>
        OBVIOUS
      <4>2. m = t[1]
        BY <1>1, <2>3, <2>4, <2>7, <4>1, SendsTail
      <4>3. Sends(Tail(up[a]), 1, Tail(t))
        BY <1>1, <2>3, <2>4, <2>7, <4>1, <4>2, SendsFirst, Zenon
      <4> QED
        BY <1>1, <4>1, <4>2, <4>3
    <3>2. Collect(m)
      <4>1. m.role = "Listeners" /\ m # C("ExportDone") /\ m # R
        BY <3>1 DEF Sockets, C, R
      <4>2. {x.role : x \in got} = {"ConfigSnapshot"}
        BY <2>7 DEF Snapshot
      <4> QED
        BY <4>1, <4>2 DEF ReceiveExport, Subsumed, Spawn, Malformed, R
    <3>3. got' = {Snapshot(doc[a]), Sockets} /\ UNCHANGED <<down, genLife, frozen, writing, doc>>
      BY <2>7, <3>1, <3>2 DEF Collect, workVars
    <3> QED
      BY <1>1, <1>4, <3>1, <3>2, <3>3 DEF Asked, Exported, Quiet
  <2>8. CASE m # R /\ got = {Snapshot(doc[a]), Sockets} /\ Sends(up[a], at, <<C("ExportDone")>>)
    <3>1. m = C("ExportDone") /\ Only(up'[a], {R})
      BY <1>1, <2>3, <2>4, <2>8, SendsTail
    <3>2. {x.role : x \in got} = {"ConfigSnapshot", "Listeners"}
      BY <2>8 DEF Snapshot, Sockets
    <3>3. Spawn(m)
      <4>1. m.role = "Control" /\ m # R /\ m.control = "ExportDone"
        BY <3>1 DEF C, R
      <4> QED
        BY <3>1, <3>2, <4>1 DEF ReceiveExport, Subsumed, Collect, Malformed, R
    <3>4. (CHOOSE x \in got : x.role = "ConfigSnapshot") = Snapshot(doc[a])
      BY <2>8 DEF Snapshot, Sockets
    <3>5. handed' = doc[a]
      <4>1. handed' = (CHOOSE x \in got : x.role = "ConfigSnapshot").doc
        BY <3>3 DEF Spawn
      <4>2. Snapshot(doc[a]).doc = doc[a]
        BY DEF Snapshot
      <4> QED
        BY <3>4, <4>1, <4>2, Zenon
    <3>6. PICK c \in Gens : Spawning(c)
      BY <3>3, SpawnEffect
    <3>7. /\ genLife'[a] = genLife[a] /\ down'[a] = down[a]
          /\ UNCHANGED <<frozen, writing, doc>>
      BY <1>1, <3>6 DEF Spawning
    <3> QED
      BY <1>1, <1>4, <3>1, <3>3, <3>5, <3>7 DEF Frozen, Exported, Quiet
  <2> QED
    BY <2>1, <2>5, <2>6, <2>7, <2>8
<1> QED
  BY <1>3, <1>4 DEF Asked

\* Every step keeps WriterInv, if no export comes late.
LEMMA WriterStep ==
  ASSUME "slow" \notin Faults, HandoffTypeOK, OwnerInv, UnbornInv, LifeInv, StageInv, WriterInv, [HandoffNext]_handoffVars
  PROVE  WriterInv'
<1>1. CASE BootReady
  <2>1. /\ Fresh(activeGen) /\ activeGen \in Gens
        /\ up[activeGen] # <<>> /\ Head(up[activeGen]) = C("Ready")
    BY <1>1 DEF BootReady, StageInv, HandoffTypeOK
  <2>2. /\ phase' = "run" /\ up'[activeGen] = Tail(up[activeGen])
        /\ UNCHANGED <<activeGen, draining, genLife, down, frozen, writing>>
    BY <1>1, <2>1 DEF BootReady, workVars, HandoffTypeOK
  <2>3. genLife[activeGen] # "gone" => Running(activeGen)'
    <3>1. /\ genLife[activeGen] \in {"serving", "gone"}
          /\ genLife[activeGen] = "serving" =>
               down[activeGen] = <<>> /\ Only(Tail(up[activeGen]), {R})
      BY <2>1, ReadyHead
    <3> QED
      BY <2>2, <3>1, OnlyEmpty DEF Running
  <2> QED
    BY <2>2, <2>3 DEF WriterInv, Retiring
<1>2. CASE BootFails \/ Bail \/ Stopped
  <2>1. phase' = "exited" /\ UNCHANGED <<draining, down>>
    BY <1>2 DEF BootFails, Bail, Stopped
  <2>2. \A g \in Gens : /\ genLife'[g] \in {genLife[g], "gone"} /\ frozen'[g] = frozen[g]
                        /\ writing'[g] => writing[g]
    BY <1>2 DEF BootFails, Bail, Stopped, Kill
  <2>3. \A g \in draining : Retiring(g)'
    <3> SUFFICES ASSUME NEW g \in draining PROVE Retiring(g)'
      OBVIOUS
    <3>1. Retiring(g) /\ g \in Gens
      BY DEF WriterInv, HandoffTypeOK
    <3>2. down'[g] = down[g] /\ frozen'[g] = frozen[g] /\ ~writing'[g]
      BY <2>1, <2>2, <3>1 DEF Retiring
    <3>3. genLife'[g] = genLife[g] \/ genLife'[g] = "gone"
      BY <2>2, <3>1
    <3> QED
      BY <3>1, <3>2, <3>3 DEF Retiring
  <2> QED
    BY <2>1, <2>3 DEF WriterInv
<1>3. CASE RunPass
  <2>1. /\ draining' \subseteq draining /\ activeGen \notin draining /\ phase = "run"
        /\ UNCHANGED <<activeGen, genLife, frozen, writing>>
    BY <1>3 DEF RunPass, Pass, workVars, OwnerInv
  <2>2. \/ UNCHANGED down /\ phase' \in {"run", "bail"}
        \/ /\ down' = Send(down, activeGen, <<C("FreezeExport")>>)
           /\ phase' = "export" /\ got' = {}
    BY <1>3 DEF RunPass, Pass, FreezeActive, Idle
  <2>3. \A g \in draining' : Retiring(g)'
    BY <2>1, <2>2 DEF WriterInv, Retiring, Send, HandoffTypeOK
  <2>4. ASSUME genLife[activeGen] # "gone"
        PROVE  (phase' \in {"run", "bail"} => Running(activeGen)') /\ (phase' = "export" => Asked(activeGen)')
    <3>1. Running(activeGen)
      BY <2>1, <2>4 DEF WriterInv
    <3>2. up'[activeGen] = up[activeGen] \/ (up[activeGen] # <<>> /\ up'[activeGen] = Tail(up[activeGen]))
      BY <1>3 DEF RunPass, HandoffTypeOK
    <3>3. Only(up'[activeGen], {R})
      <4>1. up[activeGen] \in Seq(Message) /\ Only(up[activeGen], {R})
        BY <3>1 DEF Running, HandoffTypeOK
      <4>2. up[activeGen] # <<>> => Only(Tail(up[activeGen]), {R})
        BY <4>1, OnlyTail
      <4> QED
        BY <3>2, <4>1, <4>2
    <3>4. down'[activeGen] \in {down[activeGen], down[activeGen] \o <<C("FreezeExport")>>}
      BY <2>2 DEF Send, HandoffTypeOK
    <3>5. CASE phase' = "export"
      <4>1. down'[activeGen] = down[activeGen] \o <<C("FreezeExport")>>
        BY <2>2, <3>1, <3>5 DEF Send, Alive, Running, HandoffTypeOK
      <4>2. FreezeLast(down'[activeGen])
        BY <3>1, <4>1, FreezeLastStarts DEF Running, HandoffTypeOK
      <4> QED
        BY <2>1, <2>2, <3>1, <3>3, <3>5, <4>2 DEF Running, Asked, FreezeSent
    <3>6. CASE phase' # "export"
      BY <2>1, <2>2, <3>1, <3>3, <3>6 DEF Running
    <3> QED
      BY <3>5, <3>6
  <2> QED
    BY <2>1, <2>2, <2>3, <2>4 DEF WriterInv
<1>4. CASE ReceiveExport
  <2>1. phase = "export" /\ UNCHANGED <<activeGen, draining>> /\ activeGen \notin draining
    BY <1>4 DEF ReceiveExport, OwnerInv
  <2>2. \A g \in draining : Retiring(g)'
    <3> SUFFICES ASSUME NEW g \in draining PROVE Retiring(g)'
      OBVIOUS
    <3>1. Retiring(g) /\ g \in Gens /\ g # activeGen
      BY <2>1 DEF WriterInv, HandoffTypeOK
    <3> DEFINE m == Head(up[activeGen])
    <3>2. CASE Spawn(m)
      <4>1. PICK c \in Gens : Spawning(c)
        BY <1>4, <3>2, SpawnEffect
      <4>2. g # c
        BY <4>1 DEF Spawning
      <4> QED
        BY <3>1, <4>1, <4>2 DEF Spawning, Retiring
    <3>3. CASE Collect(m) \/ Subsumed(m) \/ Malformed(m)
      BY <3>1, <3>3 DEF Collect, Subsumed, Malformed, Reject, Retiring, Send, workVars,
         HandoffTypeOK
    <3> QED
      BY <1>4, <3>2, <3>3 DEF ReceiveExport
  <2>3. genLife'[activeGen] = genLife[activeGen]
    <3>1. CASE Spawn(Head(up[activeGen]))
      <4>1. PICK c \in Gens : Spawning(c)
        BY <1>4, <3>1, SpawnEffect
      <4> QED
        BY <4>1 DEF Spawning, HandoffTypeOK
    <3>2. CASE ~Spawn(Head(up[activeGen]))
      BY <1>4, <3>2 DEF ReceiveExport, Collect, Subsumed, Malformed, workVars
    <3> QED
      BY <3>1, <3>2
  <2>4. ASSUME genLife[activeGen] # "gone"
        PROVE  (phase' = "export" /\ Asked(activeGen)') \/ (phase' = "prepared" /\ Frozen(activeGen)')
    BY <1>4, <2>1, <2>4, AskedHead DEF WriterInv, Collect, Subsumed, Spawn, supVars
  <2> QED
    BY <2>1, <2>2, <2>3, <2>4 DEF WriterInv
<1>5. CASE ExportFails
  <2>1. /\ genLife[activeGen] = "gone" /\ UNCHANGED <<activeGen, draining, genLife, frozen, writing>>
        /\ down' = down
    BY <1>5 DEF ExportFails, SpendFault, Reject, Send, Alive, workVars
  <2> QED
    BY <2>1 DEF WriterInv, Retiring
<1>6. CASE ExpectPrepared \/ CandidateFails
  <2>1. /\ phase \in {"prepared", "ready"} /\ phase' \in {"ready", "kill"} /\ activeGen # cand /\ cand \notin draining
        /\ UNCHANGED <<activeGen, draining, genLife, frozen, writing, doc, handed>>
    BY <1>6 DEF ExpectPrepared, CandidateFails, workVars, OwnerInv
  <2>2. \A g \in Gens \ {cand} : down'[g] = down[g] /\ up'[g] = up[g]
    BY <1>6 DEF ExpectPrepared, CandidateFails, Send, HandoffTypeOK
  <2> QED
    BY <2>1, <2>2 DEF WriterInv, Retiring, Frozen, Quiet, HandoffTypeOK
<1>7. CASE ExpectReady
  <2>0. PICK a \in Gens, c \in Gens : a = activeGen /\ c = cand
    BY <1>7 DEF ExpectReady, OwnerInv, HandoffTypeOK
  <2>1. /\ Fresh(c) /\ c # a /\ c \notin draining /\ a \notin draining
        /\ up[c] # <<>> /\ Head(up[c]) = C("Ready") /\ phase = "ready"
    BY <1>7, <2>0 DEF ExpectReady, StageInv, OwnerInv
  <2>2. /\ phase' = "run" /\ activeGen' = c /\ draining' = draining \cup {a}
        /\ UNCHANGED <<genLife, frozen, writing>>
        /\ down' = Send(down, a, <<C("Drain")>>) /\ up'[c] = Tail(up[c])
    BY <1>7, <2>0 DEF ExpectReady, workVars, HandoffTypeOK
  <2>3. \A g \in Gens \ {a} : down'[g] = down[g]
    BY <2>2 DEF Send, HandoffTypeOK
  <2>4. genLife[c] # "gone" => Running(c)'
    <3>1. /\ genLife[c] \in {"serving", "gone"}
          /\ genLife[c] = "serving" => down[c] = <<>> /\ Only(Tail(up[c]), {R})
      BY <2>1, ReadyHead
    <3> QED
      BY <2>1, <2>2, <2>3, <3>1, OnlyEmpty DEF Running
  <2>5. Retiring(a)'
    <3>1. CASE genLife[a] = "gone"
      BY <2>2, <3>1 DEF Retiring, LifeInv
    <3>2. CASE genLife[a] # "gone"
      <4>1. Frozen(a)
        BY <2>0, <2>1, <3>2 DEF WriterInv
      <4>2. down'[a] = <<>> \o <<C("Drain")>>
        BY <2>2, <4>1 DEF Send, Alive, Frozen, Quiet, HandoffTypeOK
      <4>3. Only(down'[a], {C("Drain")})
        BY <4>2 DEF Only
      <4> QED
        BY <2>2, <4>1, <4>3 DEF Retiring, Frozen, Quiet
    <3> QED
      BY <3>1, <3>2
  <2>6. \A g \in draining : Retiring(g)'
    BY <2>1, <2>2, <2>3 DEF WriterInv, Retiring, HandoffTypeOK
  <2> QED
    BY <2>2, <2>4, <2>5, <2>6 DEF WriterInv
<1>8. CASE CandidateStopped
  <2>1. /\ phase = "kill" /\ phase' = "run" /\ cand # activeGen /\ activeGen \in Gens
        /\ activeGen \notin draining /\ cand \notin draining
        /\ UNCHANGED <<activeGen, draining, up, frozen>>
        /\ down' = Send(down, activeGen, <<C("Resume")>>)
    BY <1>8 DEF CandidateStopped, Reject, Kill, OwnerInv, HandoffTypeOK
  <2>2. \A g \in Gens \ {cand} : genLife'[g] = genLife[g] /\ writing'[g] = writing[g]
    BY <1>8 DEF CandidateStopped, Kill, HandoffTypeOK
  <2>3. \A g \in draining : Retiring(g)'
    BY <2>1, <2>2 DEF WriterInv, Retiring, Send, HandoffTypeOK
  <2>4. genLife[activeGen] # "gone" => Running(activeGen)'
    <3> SUFFICES ASSUME genLife[activeGen] # "gone" PROVE Running(activeGen)'
      OBVIOUS
    <3>1. Frozen(activeGen)
      BY <2>1 DEF WriterInv
    <3>2. down'[activeGen] = <<>> \o <<C("Resume")>>
      BY <2>1, <3>1 DEF Send, Alive, Frozen, Quiet, HandoffTypeOK
    <3>3. Only(down'[activeGen], {C("Resume")})
      BY <3>2 DEF Only
    <3> QED
      BY <2>1, <2>2, <3>1, <3>3 DEF Running, Frozen, Quiet
  <2> QED
    BY <2>1, <2>2, <2>3, <2>4 DEF WriterInv
<1>9. CASE Shutdown \/ ChannelFails
  <2>1. /\ phase' = "lameduck" /\ activeGen \notin draining
        /\ UNCHANGED <<activeGen, draining, genLife, frozen, writing>>
    BY <1>9 DEF Shutdown, ChannelFails, BeginShutdown, workVars, OwnerInv
  <2>2. \A g \in draining : down'[g] \in {down[g], down[g] \o <<C("Drain")>>}
    BY <1>9, <2>1 DEF Shutdown, ChannelFails, BeginShutdown, HandoffTypeOK
  <2>3. \A g \in draining : Only(down[g], {C("Drain")}) => Only(down'[g], {C("Drain")})
    <3>1. \A g \in draining : down[g] \in Seq(Message)
      BY DEF HandoffTypeOK
    <3>2. \A g \in draining : Only(down[g], {C("Drain")}) => Only(down[g] \o <<C("Drain")>>, {C("Drain")})
      BY <3>1, OnlyAppended, ControlsTyped
    <3> QED
      BY <2>2, <3>2
  <2> QED
    BY <2>1, <2>3 DEF WriterInv, Retiring
<1>10. CASE LameDuckEnds
  <2>1. /\ phase' = "stopping" /\ activeGen \notin draining
        /\ UNCHANGED <<activeGen, draining, genLife, frozen, writing>>
        /\ down' = Send(down, activeGen, <<C("Drain")>>)
    BY <1>10 DEF LameDuckEnds, workVars, OwnerInv
  <2> QED
    BY <2>1 DEF WriterInv, Retiring, Send, HandoffTypeOK
<1>11. CASE Hangup \/ Terminate
  BY <1>11 DEF Hangup, Terminate, supVars, workVars, WriterInv, Running, Asked, FreezeSent,
     Exporting, Exported, Frozen, Quiet, Retiring
<1>12. ASSUME NEW g \in Gens, WorkerStep(g) PROVE WriterInv'
  <2>1. UNCHANGED <<phase, activeGen, draining, got, handed>> /\ activeGen \in Gens
    BY <1>12, WorkerFrame DEF HandoffTypeOK
  <2>2. \A h \in draining : Retiring(h)'
    <3> SUFFICES ASSUME NEW h \in draining PROVE Retiring(h)'
      OBVIOUS
    <3>1. Retiring(h) /\ h \in Gens
      BY DEF WriterInv, HandoffTypeOK
    <3>2. CASE h = g
      BY <1>12, <3>1, <3>2, RetiringKept
    <3>3. CASE h # g
      BY <1>12, <3>1, <3>3, WorkerFrame DEF Retiring
    <3> QED
      BY <3>2, <3>3
  <2>3. CASE activeGen = g
    BY <1>12, <2>1, <2>2, <2>3, RunningKept, AskedKept, FrozenKept, GoneStays DEF WriterInv
  <2>4. CASE activeGen # g
    <3>1. /\ Running(activeGen) => Running(activeGen)'
          /\ Frozen(activeGen) => Frozen(activeGen)'
          /\ Asked(activeGen) => Asked(activeGen)'
          /\ genLife'[activeGen] = genLife[activeGen]
      BY <1>12, <2>1, <2>4, WorkerFrame DEF Running, Frozen, Quiet, Asked, FreezeSent,
         Exporting, Exported
    <3> QED
      BY <2>1, <2>2, <3>1 DEF WriterInv
  <2> QED
    BY <2>3, <2>4
<1>13. CASE UNCHANGED handoffVars
  BY <1>13 DEF handoffVars, WriterInv, Running, Asked, FreezeSent, Exporting, Exported, Frozen,
     Quiet, Retiring
<1> QED
  BY <1>1, <1>2, <1>3, <1>4, <1>5, <1>6, <1>7, <1>8, <1>9, <1>10, <1>11, <1>12,
     <1>13 DEF HandoffNext, Supervise, WorkerStep

\* One more element, at most one more.
LEMMA OneMore ==
  ASSUME NEW S, IsFiniteSet(S), Cardinality(S) \in Nat, NEW x
  PROVE  /\ IsFiniteSet(S \cup {x}) /\ Cardinality(S \cup {x}) \in Nat
         /\ Cardinality(S \cup {x}) <= Cardinality(S) + 1
<1>1. Cardinality(S \cup {x}) = IF x \in S THEN Cardinality(S) ELSE Cardinality(S) + 1
  BY FS_AddElement
<1> QED
  BY <1>1, FS_AddElement

\* Both invariants hold when the supervisor has spawned the first generation.
LEMMA InitHolds ==
  HandoffInit => Inv /\ WriterInv
<1> SUFFICES ASSUME HandoffInit PROVE Inv /\ WriterInv
  OBVIOUS
<1>0. 1 \in Gens /\ 0 \in 0..MaxDocs /\ 0 \in 0..MaxSignals
  BY HandoffAssumption DEF Gens
<1>1. HandoffTypeOK
  <2>1. down \in [Gens -> Seq(Message)] /\ up \in [Gens -> Seq(Message)]
    BY MessagesTyped DEF HandoffInit, Controls
  <2> QED
    BY <1>0, <2>1, HandoffAssumption DEF HandoffInit, HandoffTypeOK
<1>2. OfferInv
  BY <1>0, ControlsDistinct DEF HandoffInit, OfferInv, Offer
<1>3. OwnerInv
  BY <1>0 DEF HandoffInit, OwnerInv, Owned, Alive
<1>4. UnbornInv
  BY <1>0, HandoffAssumption DEF HandoffInit, UnbornInv, Unborn, Alive, Gens
<1>5. LifeInv /\ DiskInv
  BY <1>0 DEF HandoffInit, LifeInv, DiskInv
<1>6. StageInv /\ ServeInv
  BY <1>0 DEF HandoffInit, StageInv, Fresh, ServeInv, Served
<1>7. RoomInv
  BY FS_EmptySet, HandoffAssumption DEF HandoffInit, RoomInv, Replacing
<1>8. WriterInv
  BY DEF HandoffInit, WriterInv
<1> QED
  BY <1>1, <1>2, <1>3, <1>4, <1>5, <1>6, <1>7, <1>8 DEF Inv

\* Inv is inductive.
LEMMA InvKept ==
  Inv /\ [HandoffNext]_handoffVars => Inv'
  BY TypeStep, OfferStep, OwnerStep, UnbornStep, LifeStep, DiskStep, StageStep, ServeStep,
     RoomStep
     DEF Inv

\* Inv always holds, whatever faults happen.
LEMMA Invariant ==
  HandoffSpec => []Inv
  BY InitHolds, InvKept, PTL DEF HandoffSpec

\* Every step the supervisor, a worker or a signal takes keeps the supervisor's
\* variables, the channels and the workers within their types: in particular no
\* replacement reads a configuration out of a message that carries none.
THEOREM HandoffTypeCorrect ==
  HandoffSpec => []HandoffTypeOK
<1>1. Inv => HandoffTypeOK
  BY DEF Inv
<1> QED
  BY <1>1, Invariant, PTL

\* Whatever happens to a replacement - a crash at any point, a timeout, a
\* malformed export, a rejected update - some generation accepts connections
\* until the endpoint is shut down or the serving worker itself dies, and the
\* installed executable is the one that serves whenever the loop is idle, unless
\* the rollback of a rejected update itself failed.
THEOREM HandoffKeepsService ==
  HandoffSpec => []ServiceKept
<1>1. ASSUME Inv PROVE ServiceKept
  <2>1. SomeoneAccepts
    BY <1>1 DEF Inv, SomeoneAccepts, ServeInv, Served, LifeInv, HandoffTypeOK
  <2>2. DiskMatchesActive
    <3> SUFFICES ASSUME phase = "run", ~unrestored PROVE disk = ver[activeGen]
      BY DEF DiskMatchesActive
    <3>1. updating = FALSE /\ ver[activeGen] \in Nat
      BY <1>1 DEF Inv, DiskInv, HandoffTypeOK
    <3> QED
      BY <1>1, <3>1 DEF Inv, DiskInv
  <2> QED
    BY <2>1, <2>2 DEF ServiceKept
<1> QED
  BY <1>1, Invariant, PTL

\* However often restarts are requested, at most the serving generation, a
\* candidate and MaxDraining draining ones are alive.
THEOREM HandoffBounded ==
  HandoffSpec => []BoundedGenerations
<1>1. ASSUME Inv PROVE BoundedGenerations
  <2> DEFINE live == {g \in Gens : Alive(g)}
             one == draining \cup {activeGen}
  <2>1. IsFiniteSet(draining) /\ Cardinality(draining) \in Nat /\ Cardinality(draining) <= MaxDraining
    BY <1>1, DrainingFinite DEF Inv, RoomInv
  <2>2. IsFiniteSet(one) /\ Cardinality(one) \in Nat /\ Cardinality(one) <= Cardinality(draining) + 1
    BY <2>1, OneMore
  <2>3. /\ IsFiniteSet(one \cup {cand}) /\ Cardinality(one \cup {cand}) \in Nat
        /\ Cardinality(one \cup {cand}) <= Cardinality(one) + 1
    BY <2>2, OneMore
  <2>4. live \subseteq one \cup {cand}
    BY <1>1 DEF Inv, OwnerInv, Owned
  <2>5. Cardinality(live) \in Nat /\ Cardinality(live) <= Cardinality(one \cup {cand})
    BY <2>3, <2>4, FS_Subset, FS_CardinalityType
  <2> QED
    BY <2>1, <2>2, <2>3, <2>5, HandoffAssumption DEF BoundedGenerations
<1> QED
  BY <1>1, Invariant, PTL

\* If no export answers after the supervisor stopped waiting for it, the worker
\* it freezes is the one it hears: the serving worker, the export it collects
\* and the draining workers stay as WriterInv says.
LEMMA WriterInvariant ==
  ASSUME "slow" \notin Faults
  PROVE  HandoffSpec => []WriterInv
<1>1. Inv /\ WriterInv /\ [HandoffNext]_handoffVars => WriterInv'
  BY WriterStep DEF Inv
<1> QED
  BY <1>1, InitHolds, Invariant, PTL DEF HandoffSpec

\* One generation at a time accepts configuration writes: a candidate accepts
\* them only after its predecessor was frozen and its transaction in flight
\* ended, and a draining generation never does again.
THEOREM HandoffSingleWriter ==
  ASSUME "slow" \notin Faults
  PROVE  HandoffSpec => []SingleWriter
<1>1. ASSUME Inv, WriterInv PROVE SingleWriter
  <2>1. \A g \in draining : ~Writable(g)
    BY <1>1 DEF WriterInv, Retiring, Writable
  <2>2. phase \in {"prepared", "ready", "kill"} => ~Writable(activeGen)
    BY <1>1 DEF WriterInv, Frozen, Quiet, Writable
  <2>3. cand \in Gens => phase \in {"prepared", "ready", "kill"}
    BY <1>1, HandoffAssumption DEF Inv, OwnerInv, Gens
  <2>4. \A g \in Gens : Writable(g) => g \in Owned
    BY <1>1 DEF Inv, OwnerInv, Writable, Alive
  <2> QED
    BY <2>1, <2>2, <2>3, <2>4 DEF SingleWriter, Owned
<1> QED
  BY <1>1, Invariant, WriterInvariant, PTL

\* The candidate starts from the exact running configuration of the worker whose
\* writes were frozen, and that configuration does not change until the
\* replacement is over.
THEOREM HandoffExactSnapshot ==
  ASSUME "slow" \notin Faults
  PROVE  HandoffSpec => []ExactSnapshot
<1>1. WriterInv => ExactSnapshot
  BY DEF WriterInv, ExactSnapshot, Frozen
<1> QED
  BY <1>1, WriterInvariant, PTL
=============================================================================
