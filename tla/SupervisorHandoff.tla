------------------------- MODULE SupervisorHandoff -------------------------
(***************************************************************************)
(* The stable-PID supervisor (supervisor.rs) and the gateway generations   *)
(* it replaces.  A generation talks to the supervisor over its own         *)
(* SEQPACKET channel (restart.rs): down[g] carries controls to it, up[g]   *)
(* its answers and the descriptors of an export.  The export is abstracted *)
(* to the configuration snapshot, the listening sockets and the end mark.  *)
(*                                                                         *)
(* Configuration is the local file of the single-node mode: every document *)
(* is identified by the number of the write that produced it.              *)
(***************************************************************************)
EXTENDS Integers, Sequences, FiniteSets

CONSTANTS
  MaxGens,         \* generations ever spawned
  MaxDocs,         \* configuration writes
  MaxSignals,      \* restart signals and administrator restart requests
  MaxDraining,     \* draining generations that keep a replacement from starting
  Updates,         \* whether signed updates are enabled
  Faults,          \* which faults a run exercises
  MaxFaults        \* how many of them may happen

ASSUME HandoffAssumption ==
  /\ MaxGens \in Nat \ {0} /\ MaxDraining \in Nat /\ MaxDocs \in Nat
  /\ MaxSignals \in Nat /\ MaxFaults \in Nat
ASSUME UpdatesAssumption == Updates \in BOOLEAN

VARIABLES
  phase,      \* how far the supervisor got
  activeGen, cand, draining, \* generations it owns (0: none)
  got,        \* what receive_export has collected
  handed,     \* the snapshot given to the candidate
  updating,   \* the replacement activates a new executable
  disk, ver,  \* release of the installed file and of each generation
  unrestored, \* a rejected update could not be rolled back
  spawned,    \* generations spawned so far
  signals,    \* restart signals delivered so far
  hup, term,  \* pending SIGHUP and SIGTERM
  down, up,   \* the channels
  genLife, accepting, frozen, writing, \* each generation
  doc,        \* its active document
  file, docs, \* the document in the state file, documents written so far
  faults

supVars == <<phase, activeGen, cand, draining, got, handed, updating, disk, unrestored, spawned>>
sigVars == <<signals, hup, term>>
workVars == <<ver, genLife, accepting, frozen, writing, doc>>
handoffVars == <<phase, activeGen, cand, draining, got, handed, updating, disk, unrestored,
          ver, spawned, signals, hup, term, down, up, genLife, accepting, frozen, writing, doc,
          file, docs, faults>>

Gens == 1..MaxGens
Controls == {"FreezeExport", "Resume", "Commit", "Drain", "Ready", "Prepared",
             "ExportDone", "RestartRequested", "Withdraw"}
Descriptors == [role : {"ConfigSnapshot"}, doc : 0..MaxDocs] \cup
               [role : {"Listeners"}, doc : {0}]
Message == [role : {"Control"}, control : Controls] \cup Descriptors
C(control) == [role |-> "Control", control |-> control]
Snapshot(d) == [role |-> "ConfigSnapshot", doc |-> d]
Sockets == [role |-> "Listeners", doc |-> 0]
ExportOf(d) == <<Snapshot(d), Sockets, C("ExportDone")>>

Alive(g) == genLife[g] \notin {"none", "gone"}
SpendFault(kind) == kind \in Faults /\ faults > 0 /\ faults' = faults - 1
Send(channel, g, messages) ==
  IF Alive(g) THEN [channel EXCEPT ![g] = @ \o messages] ELSE channel

----------------------------------------------------------------------------
(* The supervisor *)

HandoffInit ==
  /\ phase = "boot" /\ activeGen = 1 /\ cand = 0 /\ draining = {}
  /\ got = {} /\ handed = 0 /\ updating = FALSE
  /\ disk = 0 /\ unrestored = FALSE /\ ver = [g \in Gens |-> 0] /\ spawned = 1
  /\ signals = 0 /\ hup = FALSE /\ term = FALSE
  /\ down = [g \in Gens |-> IF g = 1 THEN <<C("Commit")>> ELSE <<>>]
  /\ up = [g \in Gens |-> <<>>]
  /\ genLife = [g \in Gens |-> IF g = 1 THEN "starting" ELSE "none"]
  /\ accepting = [g \in Gens |-> FALSE] /\ frozen = [g \in Gens |-> FALSE]
  /\ writing = [g \in Gens |-> FALSE] /\ doc = [g \in Gens |-> 0]
  /\ file = 0 /\ docs = 0 /\ faults = MaxFaults

Kill(gs) ==
  /\ genLife' = [g \in Gens |-> IF g \in gs THEN "gone" ELSE genLife[g]]
  /\ accepting' = [g \in Gens |-> accepting[g] /\ g \notin gs]
  /\ writing' = [g \in Gens |-> writing[g] /\ g \notin gs]
  /\ UNCHANGED <<ver, frozen, doc>>

\* The first generation reports Ready; anything else ends the supervisor.
BootReady ==
  /\ phase = "boot" /\ up[activeGen] # <<>> /\ Head(up[activeGen]) = C("Ready")
  /\ phase' = "run" /\ up' = [up EXCEPT ![activeGen] = Tail(@)]
  /\ UNCHANGED <<activeGen, cand, draining, got, handed, updating, disk, unrestored,
                 spawned, sigVars, down, workVars, file, docs, faults>>

BootFails ==
  /\ phase = "boot"
  /\ genLife[activeGen] = "gone" \/ (up[activeGen] # <<>> /\ Head(up[activeGen]) # C("Ready"))
  /\ phase' = "exited" /\ Kill({activeGen})
  /\ UNCHANGED <<activeGen, cand, draining, got, handed, updating, disk, unrestored,
                 spawned, sigVars, down, up, file, docs, faults>>

\* What one pass of the loop reacts to.  The signal is preferred to a message
\* read in the same pass, which is dropped; the update timer overrides both.
Event(m) ==
  IF hup THEN "restart" ELSE IF m = C("RestartRequested") THEN "restart" ELSE "none"

FreezeActive(update) ==
  /\ phase' = "export" /\ got' = {} /\ updating' = update
  /\ disk' = IF update THEN disk + 1 ELSE disk
  /\ down' = Send(down, activeGen, <<C("FreezeExport")>>)

Idle == phase' = phase /\ UNCHANGED <<got, updating, disk, down>>

\* Mutant: replacements start however many generations still drain.
FreeAlways(live) == TRUE
\* A replacement is only started while fewer than two generations drain; a
\* request that finds two is dropped.
Free(live) == Cardinality(live) < MaxDraining

\* One pass of the run loop over message m (or none).
Pass(m, due) ==
  LET live == {g \in draining : genLife[g] # "gone"}
      free == Free(live)
      event == IF due THEN "update" ELSE Event(m)
  IN  /\ draining' = live
      /\ hup' = FALSE
      /\ IF genLife[activeGen] = "gone"
         THEN phase' = "bail" /\ UNCHANGED <<got, updating, disk, down>>
         ELSE \/ event = "restart" /\ free /\ spawned < MaxGens /\ FreezeActive(FALSE)
              \/ event = "update" /\ free /\ spawned < MaxGens /\ FreezeActive(TRUE)
              \/ event = "update" /\ free /\ Idle   \* nothing newer, or staging failed
              \/ (event = "none" \/ ~free) /\ Idle

RunPass ==
  /\ phase = "run" /\ ~term
  /\ \/ /\ up[activeGen] # <<>> /\ Pass(Head(up[activeGen]), FALSE)
        /\ up' = [up EXCEPT ![activeGen] = Tail(@)]
     \/ /\ up[activeGen] = <<>>
        /\ hup \/ genLife[activeGen] = "gone" \/ \E g \in draining : genLife[g] = "gone"
        /\ Pass(C("Ready"), FALSE) /\ UNCHANGED up
     \/ /\ Updates /\ Pass(C("Ready"), TRUE)
        /\ up' = [up EXCEPT ![activeGen] = IF @ = <<>> THEN @ ELSE Tail(@)]
  /\ UNCHANGED <<activeGen, cand, handed, unrestored, spawned, signals, term, workVars, file,
                 docs, faults>>

\* The worker was found to have exited after a message or a timeout had been
\* read: every generation dies with the supervisor (kill_on_drop).
Bail ==
  /\ phase = "bail" /\ phase' = "exited" /\ Kill(Gens)
  /\ UNCHANGED <<activeGen, cand, draining, got, handed, updating, disk, unrestored,
                 spawned, sigVars, down, up, file, docs, faults>>

\* The previous executable is renamed back; when that fails the new one stays
\* installed, and the rejection goes on all the same.
Rollback ==
  \/ disk' = (IF updating THEN disk - 1 ELSE disk) /\ UNCHANGED unrestored
  \/ updating /\ "rollback" \in Faults /\ unrestored' = TRUE /\ UNCHANGED disk

\* Mutant: a rejected replacement leaves the worker frozen.
RejectWithoutResume ==
  /\ phase' = "run" /\ cand' = 0 /\ got' = {} /\ updating' = FALSE
  /\ Rollback /\ UNCHANGED down

\* The replacement is rejected: the executable is restored, the worker told
\* to resume.
Reject ==
  /\ phase' = "run" /\ cand' = 0 /\ got' = {} /\ updating' = FALSE
  /\ Rollback /\ down' = Send(down, activeGen, <<C("Resume")>>)

\* receive_export: collect one message of the export.
Collect(m) ==
  /\ m.role # "Control" /\ m.role \notin {x.role : x \in got}
  /\ got' = got \cup {m}
  /\ UNCHANGED <<phase, cand, handed, updating, disk, unrestored, spawned, down, workVars>>

Subsumed(m) == m = C("RestartRequested") /\ UNCHANGED <<supVars, down, workVars>>

\* The export is complete: a candidate is spawned from the installed file and
\* given the same descriptors.
Spawn(m) ==
  /\ m = C("ExportDone") /\ {x.role : x \in got} = {"ConfigSnapshot", "Listeners"}
  /\ LET c == spawned + 1
         snapshot == CHOOSE x \in got : x.role = "ConfigSnapshot"
     IN  /\ spawned' = c /\ cand' = c /\ handed' = snapshot.doc
         /\ genLife' = [genLife EXCEPT ![c] = "starting"]
         /\ ver' = [ver EXCEPT ![c] = disk]
         /\ down' = [down EXCEPT ![c] = <<C("FreezeExport")>> \o ExportOf(snapshot.doc)]
  /\ phase' = "prepared" /\ got' = {}
  /\ UNCHANGED <<updating, disk, unrestored, accepting, frozen, writing, doc>>

\* A duplicate, an incomplete export or any other control.
Malformed(m) ==
  /\ \/ m.role # "Control" /\ m.role \in {x.role : x \in got}
     \/ m = C("ExportDone") /\ {x.role : x \in got} # {"ConfigSnapshot", "Listeners"}
     \/ m.role = "Control" /\ m.control \notin {"ExportDone", "RestartRequested"}
  /\ Reject /\ UNCHANGED <<handed, spawned, workVars>>

ReceiveExport ==
  /\ phase = "export" /\ up[activeGen] # <<>>
  /\ LET m == Head(up[activeGen])
     IN  Collect(m) \/ Subsumed(m) \/ Spawn(m) \/ Malformed(m)
  /\ up' = [up EXCEPT ![activeGen] = Tail(@)]
  /\ UNCHANGED <<activeGen, draining, sigVars, file, docs, faults>>

\* Fifteen seconds passed, the channel closed, or the candidate cannot be
\* spawned.
ExportFails ==
  /\ phase = "export"
  /\ SpendFault("slow") \/ (genLife[activeGen] = "gone" /\ up[activeGen] = <<>> /\ UNCHANGED faults)
  /\ Reject
  /\ UNCHANGED <<activeGen, draining, handed, spawned, sigVars, up, workVars, file, docs>>

\* Mutant: the predecessor drains as soon as the candidate is prepared.
ExpectPreparedDraining ==
  /\ phase = "prepared" /\ up[cand] # <<>> /\ Head(up[cand]) = C("Prepared")
  /\ phase' = "ready"
  /\ up' = [up EXCEPT ![cand] = Tail(@)]
  /\ down' = Send(Send(down, cand, <<C("Commit")>>), activeGen, <<C("Drain")>>)
  /\ UNCHANGED <<activeGen, cand, draining, got, handed, updating, disk, unrestored,
                 spawned, sigVars, workVars, file, docs, faults>>

\* PREPARED: the candidate may commit.
ExpectPrepared ==
  /\ phase = "prepared" /\ up[cand] # <<>> /\ Head(up[cand]) = C("Prepared")
  /\ phase' = "ready"
  /\ up' = [up EXCEPT ![cand] = Tail(@)]
  /\ down' = Send(down, cand, <<C("Commit")>>)
  /\ UNCHANGED <<activeGen, cand, draining, got, handed, updating, disk, unrestored,
                 spawned, sigVars, workVars, file, docs, faults>>

\* The candidate serves: the predecessor drains.
ExpectReady ==
  /\ phase = "ready" /\ up[cand] # <<>> /\ Head(up[cand]) = C("Ready")
  /\ phase' = "run" /\ activeGen' = cand /\ cand' = 0
  /\ draining' = draining \cup {activeGen}
  /\ updating' = FALSE /\ unrestored' = FALSE
  /\ up' = [up EXCEPT ![cand] = Tail(@)]
  /\ down' = Send(down, activeGen, <<C("Drain")>>)
  /\ UNCHANGED <<got, handed, disk, spawned, sigVars, workVars, file, docs, faults>>

\* An unexpected answer, a closed channel or a timeout: the candidate is told
\* to drain and gets two seconds.
CandidateFails ==
  /\ phase \in {"prepared", "ready"}
  /\ \/ SpendFault("timeout")
     \/ /\ \/ genLife[cand] = "gone" /\ up[cand] = <<>>
           \/ up[cand] # <<>> /\ Head(up[cand]) # C(IF phase = "ready" THEN "Ready" ELSE "Prepared")
        /\ UNCHANGED faults
  /\ phase' = "kill" /\ down' = Send(down, cand, <<C("Drain")>>)
  /\ UNCHANGED <<activeGen, cand, draining, got, handed, updating, disk, unrestored,
                 spawned, sigVars, up, workVars, file, docs>>

\* Mutant: the worker resumes while the rejected candidate still runs.
ResumeBeforeKill ==
  /\ phase = "kill" /\ Reject
  /\ UNCHANGED <<activeGen, draining, handed, spawned, sigVars, up, workVars, file, docs, faults>>

\* The candidate exited or is killed; only then does the worker resume.
CandidateStopped ==
  /\ phase = "kill" /\ Kill({cand}) /\ Reject
  /\ UNCHANGED <<activeGen, draining, handed, spawned, sigVars, up, file, docs, faults>>

\* The loop is left: withdraw the endpoint, keep accepting for the lame-duck
\* window, then drain; retiring generations just finish.
BeginShutdown ==
  /\ phase = "run" /\ phase' = "lameduck"
  /\ down' = [g \in Gens |-> IF g = activeGen /\ Alive(g) THEN down[g] \o <<C("Withdraw")>>
                             ELSE IF g \in draining /\ Alive(g) THEN down[g] \o <<C("Drain")>>
                             ELSE down[g]]
  /\ UNCHANGED <<activeGen, cand, draining, got, handed, updating, disk, unrestored, spawned,
                 sigVars, up, workVars, file, docs>>

\* SIGTERM or SIGINT.
Shutdown == term /\ BeginShutdown /\ UNCHANGED faults

\* Reading the worker's channel fails: its process is gone and the channel
\* closed, or the read itself errs.  A SIGHUP of the same pass is preferred.
ChannelFails ==
  /\ ~term /\ ~hup /\ BeginShutdown
  /\ \/ genLife[activeGen] = "gone" /\ up[activeGen] = <<>> /\ UNCHANGED faults
     \/ SpendFault("channel")

LameDuckEnds ==
  /\ phase = "lameduck" /\ phase' = "stopping"
  /\ down' = Send(down, activeGen, <<C("Drain")>>)
  /\ UNCHANGED <<activeGen, cand, draining, got, handed, updating, disk, unrestored,
                 spawned, sigVars, up, workVars, file, docs, faults>>

\* Every generation exited or outlived the drain deadline and is killed.
Stopped ==
  /\ phase = "stopping" /\ phase' = "exited" /\ Kill(draining \cup {activeGen})
  /\ UNCHANGED <<activeGen, cand, draining, got, handed, updating, disk, unrestored,
                 spawned, sigVars, down, up, file, docs, faults>>

----------------------------------------------------------------------------
(* A generation *)

Worker(g) == UNCHANGED <<supVars, sigVars, faults>>

\* A fresh start loads the file; a replacement takes the exported snapshot,
\* validates it and reports Prepared.
Start(g) ==
  /\ genLife[g] = "starting" /\ down[g] # <<>>
  /\ \/ /\ Head(down[g]) = C("Commit")
        /\ genLife' = [genLife EXCEPT ![g] = "warming"]
        /\ accepting' = [accepting EXCEPT ![g] = TRUE]
        /\ doc' = [doc EXCEPT ![g] = file]
        /\ down' = [down EXCEPT ![g] = Tail(@)] /\ UNCHANGED up
     \/ /\ Head(down[g]) = C("FreezeExport")
        /\ genLife' = [genLife EXCEPT ![g] = "prepared"]
        /\ doc' = [doc EXCEPT ![g] = down[g][2].doc]
        /\ down' = [down EXCEPT ![g] = SubSeq(@, 5, Len(@))]
        /\ up' = Send(up, g, <<C("Prepared")>>) /\ UNCHANGED accepting
  /\ UNCHANGED <<ver, frozen, writing, file, docs>> /\ Worker(g)

\* COMMIT: listeners and accept loops start.
Commit(g) ==
  /\ genLife[g] = "prepared" /\ down[g] # <<>> /\ Head(down[g]) = C("Commit")
  /\ genLife' = [genLife EXCEPT ![g] = "warming"]
  /\ accepting' = [accepting EXCEPT ![g] = TRUE]
  /\ down' = [down EXCEPT ![g] = Tail(@)]
  /\ UNCHANGED <<up, ver, frozen, writing, doc, file, docs>> /\ Worker(g)

\* Startup fails (an invalid snapshot, a listener, no COMMIT in time), or the
\* process crashes.
Fails(g) ==
  /\ \/ genLife[g] \in {"starting", "prepared", "warming"} /\ SpendFault("start")
     \/ Alive(g) /\ SpendFault("crash")
  /\ Kill({g})
  /\ UNCHANGED <<supVars, sigVars, down, up, file, docs>>

\* A Drain where COMMIT was expected ends the candidate.
StartRefused(g) ==
  /\ genLife[g] \in {"starting", "prepared"} /\ down[g] # <<>> /\ Head(down[g]) = C("Drain")
  /\ Kill({g})
  /\ UNCHANGED <<down, up, file, docs>> /\ Worker(g)

AnnounceReady(g) ==
  /\ genLife[g] = "warming"
  /\ genLife' = [genLife EXCEPT ![g] = "serving"]
  /\ up' = Send(up, g, <<C("Ready")>>)
  /\ UNCHANGED <<ver, accepting, frozen, writing, doc, down, file, docs>> /\ Worker(g)

\* lifecycle_wait handles one control.
Control(g, control) ==
  /\ genLife[g] = "serving" /\ down[g] # <<>> /\ Head(down[g]) = C(control)
  /\ down' = [down EXCEPT ![g] = Tail(@)]

FreezeUpdates(g) ==
  /\ Control(g, "FreezeExport")
  /\ frozen' = [frozen EXCEPT ![g] = TRUE]
  /\ genLife' = [genLife EXCEPT ![g] = "exporting"]
  /\ UNCHANGED <<up, ver, accepting, writing, doc, file, docs>> /\ Worker(g)

\* Mutant: the export does not wait for the transaction in flight.
ExportSnapshotUnlocked(g) ==
  /\ genLife[g] = "exporting"
  /\ genLife' = [genLife EXCEPT ![g] = "serving"]
  /\ up' = Send(up, g, ExportOf(doc[g]))
  /\ UNCHANGED <<ver, accepting, frozen, writing, doc, down, file, docs>> /\ Worker(g)

\* The writer lock was obtained: snapshot and sockets are sent.
ExportSnapshot(g) ==
  /\ genLife[g] = "exporting" /\ ~writing[g]
  /\ genLife' = [genLife EXCEPT ![g] = "serving"]
  /\ up' = Send(up, g, ExportOf(doc[g]))
  /\ UNCHANGED <<ver, accepting, frozen, writing, doc, down, file, docs>> /\ Worker(g)

ResumeWorker(g) ==
  /\ Control(g, "Resume")
  /\ frozen' = [frozen EXCEPT ![g] = FALSE]
  /\ UNCHANGED <<up, ver, genLife, accepting, writing, doc, file, docs>> /\ Worker(g)

WithdrawWorker(g) ==
  /\ Control(g, "Withdraw")
  /\ frozen' = [frozen EXCEPT ![g] = TRUE]
  /\ UNCHANGED <<up, ver, genLife, accepting, writing, doc, file, docs>> /\ Worker(g)

\* Drain: accept loops close and writes are frozen; established streams stay.
Drain(g) ==
  /\ Control(g, "Drain")
  /\ frozen' = [frozen EXCEPT ![g] = TRUE]
  /\ accepting' = [accepting EXCEPT ![g] = FALSE]
  /\ genLife' = [genLife EXCEPT ![g] = "ending"]
  /\ UNCHANGED <<up, ver, writing, doc, file, docs>> /\ Worker(g)

\* The last stream ended or the grace deadline passed.
WorkerExit(g) ==
  /\ genLife[g] = "ending" /\ Kill({g})
  /\ UNCHANGED <<up, down, file, docs>> /\ Worker(g)

\* An administrative write: the stopping check under the writer lock, then
\* the saved and published document.
WriteBegin(g) ==
  /\ genLife[g] \in {"warming", "serving"} /\ ~frozen[g] /\ ~writing[g] /\ docs < MaxDocs
  /\ writing' = [writing EXCEPT ![g] = TRUE]
  /\ UNCHANGED <<ver, genLife, accepting, frozen, doc, down, up, file, docs>> /\ Worker(g)

WriteCommit(g) ==
  /\ writing[g] /\ docs < MaxDocs
  /\ docs' = docs + 1 /\ file' = docs + 1
  /\ doc' = [doc EXCEPT ![g] = docs + 1]
  /\ writing' = [writing EXCEPT ![g] = FALSE]
  /\ UNCHANGED <<ver, genLife, accepting, frozen, down, up>> /\ Worker(g)

WriteFails(g) ==
  /\ writing[g] /\ writing' = [writing EXCEPT ![g] = FALSE]
  /\ UNCHANGED <<ver, genLife, accepting, frozen, doc, down, up, file, docs>> /\ Worker(g)

\* The watcher follows a file another generation wrote.
Reload(g) ==
  /\ genLife[g] \in {"warming", "serving"} /\ ~frozen[g] /\ ~writing[g] /\ doc[g] # file
  /\ doc' = [doc EXCEPT ![g] = file]
  /\ UNCHANGED <<ver, genLife, accepting, frozen, writing, down, up, file, docs>> /\ Worker(g)

----------------------------------------------------------------------------
(* Signals *)

Hangup ==
  /\ phase # "exited" /\ ~hup /\ signals < MaxSignals
  /\ hup' = TRUE /\ signals' = signals + 1
  /\ UNCHANGED <<supVars, term, down, up, workVars, file, docs, faults>>

Terminate ==
  /\ phase # "exited" /\ ~term /\ SpendFault("term")
  /\ term' = TRUE
  /\ UNCHANGED <<supVars, signals, hup, down, up, workVars, file, docs>>

\* POST /v1/lifecycle/restart at a generation that accepts.
RequestRestart(g) ==
  /\ accepting[g] /\ signals < MaxSignals
  /\ signals' = signals + 1
  /\ up' = Send(up, g, <<C("RestartRequested")>>)
  /\ UNCHANGED <<supVars, hup, term, down, workVars, file, docs, faults>>

Supervise ==
  \/ BootReady \/ BootFails \/ RunPass \/ Bail \/ ReceiveExport \/ ExportFails
  \/ ExpectPrepared \/ ExpectReady \/ CandidateFails \/ CandidateStopped
  \/ Shutdown \/ ChannelFails \/ LameDuckEnds \/ Stopped
Lead(g) ==
  \/ Start(g) \/ Commit(g) \/ StartRefused(g) \/ AnnounceReady(g) \/ FreezeUpdates(g)
  \/ ExportSnapshot(g) \/ ResumeWorker(g) \/ WithdrawWorker(g) \/ Drain(g) \/ WorkerExit(g)
EndWrite(g) == WriteCommit(g) \/ WriteFails(g)
HandoffNext ==
  \/ Supervise \/ Hangup \/ Terminate
  \/ \E g \in Gens :
       Lead(g) \/ EndWrite(g) \/ Fails(g) \/ WriteBegin(g) \/ Reload(g) \/ RequestRestart(g)

HandoffSpec == HandoffInit /\ [][HandoffNext]_handoffVars

\* The supervisor's loop runs on and its phase deadlines fire; a started
\* transaction ends; a worker's lifecycle loop runs on, and the fair writer
\* lock it waits for in freeze_updates is not always taken before it.
HandoffFairSpec ==
  /\ HandoffSpec /\ WF_handoffVars(Supervise)
  /\ \A g \in Gens : SF_handoffVars(Lead(g)) /\ WF_handoffVars(EndWrite(g))

----------------------------------------------------------------------------
(* Properties *)

HandoffTypeOK ==
  /\ phase \in {"boot", "run", "bail", "export", "prepared", "ready", "kill",
                "lameduck", "stopping", "exited"}
  /\ activeGen \in Gens /\ cand \in Gens \cup {0} /\ draining \subseteq Gens
  /\ got \subseteq Descriptors /\ handed \in 0..MaxDocs /\ updating \in BOOLEAN
  /\ disk \in Nat /\ unrestored \in BOOLEAN /\ ver \in [Gens -> Nat] /\ spawned \in Gens
  /\ signals \in 0..MaxSignals /\ hup \in BOOLEAN /\ term \in BOOLEAN
  /\ down \in [Gens -> Seq(Message)] /\ up \in [Gens -> Seq(Message)]
  /\ genLife \in [Gens -> {"none", "starting", "prepared", "warming", "serving",
                         "exporting", "ending", "gone"}]
  /\ accepting \in [Gens -> BOOLEAN] /\ frozen \in [Gens -> BOOLEAN]
  /\ writing \in [Gens -> BOOLEAN] /\ doc \in [Gens -> 0..MaxDocs]
  /\ file \in 0..MaxDocs /\ docs \in 0..MaxDocs /\ faults \in Nat

\* The listeners never go unanswered: until the endpoint is shut down, or the
\* serving worker itself dies, some generation accepts connections, whatever
\* happens to a replacement.
SomeoneAccepts ==
  phase \in {"run", "export", "prepared", "ready", "kill", "lameduck"} /\ genLife[activeGen] # "gone"
    => \E g \in Gens : accepting[g]

\* One generation at a time accepts configuration writes.
Writable(g) == genLife[g] \in {"warming", "serving", "exporting"} /\ (~frozen[g] \/ writing[g])
SingleWriter == \A g, h \in Gens : Writable(g) /\ Writable(h) => g = h

\* docs/UPDATES.md: the candidate starts from the exact running configuration
\* of the worker whose writes were frozen.
ExactSnapshot ==
  phase \in {"prepared", "ready"} /\ genLife[activeGen] # "gone" => handed = doc[activeGen]

\* The installed executable is the one that serves whenever no replacement
\* is under way: every rejected update was rolled back, unless the rollback
\* itself failed, and then a later replacement puts it right.
DiskMatchesActive == phase = "run" /\ ~unrestored => disk = ver[activeGen]

\* A replacement costs neither the listeners nor the installed executable.
ServiceKept == SomeoneAccepts /\ DiskMatchesActive

\* However often restarts are requested, at most the serving generation, a
\* candidate and two draining ones exist.
BoundedGenerations == Cardinality({g \in Gens : Alive(g)}) <= MaxDraining + 2

\* A serving worker is not left frozen: a rejected replacement resumes it.
FreezeEnds ==
  \A g \in Gens : (activeGen = g /\ frozen[g]) ~>
     (activeGen # g \/ ~frozen[g] \/ phase \in {"lameduck", "stopping", "exited", "bail"}
      \/ genLife[g] = "gone")

\* A terminated supervisor leaves no generation behind.
ShutdownEnds == term ~> (phase = "exited" /\ \A g \in Gens : ~Alive(g))

\* Neither a rejected replacement nor a shutdown is left half way.
ReplacementsEnd == FreezeEnds /\ ShutdownEnds
=============================================================================
