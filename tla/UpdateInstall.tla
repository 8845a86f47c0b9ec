---------------------------- MODULE UpdateInstall ----------------------------
(***************************************************************************)
(* Signed updates of one executable (update.rs) by the supervisors that     *)
(* share its path (supervisor.rs): a release is fetched into a temporary    *)
(* file, preflighted, linked in over the installed binary while a hard link *)
(* keeps the old one, and confirmed by a generation that becomes ready, or  *)
(* undone.  Directory operations reach the disk when the directory is       *)
(* synced; when the machine fails, any of the others may have reached it,   *)
(* each as a whole.  Any of these operations may fail and a supervisor may  *)
(* be killed between two of them.                                           *)
(*                                                                          *)
(* A binary is its version.  What a replacement of the generation does is   *)
(* the subject of SupervisorHandoff; here it succeeds or it fails.          *)
(***************************************************************************)
EXTENDS Integers, Sequences, FiniteSets, FiniteSetsExt

CONSTANTS
  Supervisors,    \* processes that update one executable path
  Releases,       \* versions a release origin may offer
  FirstInstalled, \* the version found installed
  TempNames,      \* bound on temporary files: staged and rollback paths
  UnsyncedRoom,   \* bound on operations the disk may not have seen
  StorageFaults,  \* bound on operations that fail
  Outages         \* bound on kills and machine failures

ASSUME UpdateAssumption ==
  /\ Releases \subseteq Nat \ {0} /\ FirstInstalled \in Releases
  /\ "install" \notin TempNames
  /\ {UnsyncedRoom, StorageFaults, Outages} \subseteq Nat

VARIABLES
  disk,       \* the directory as of its last sync: contents by name
  unsynced,   \* operations since, each the contents of the names it changed
  lock,       \* the owner of the update lock file
  updater,    \* supervisors: their step, the release they install, their paths
  version,    \* the version a supervisor takes itself to be
  proven,     \* history: the last version a generation of which became ready
  before,     \* history: the directory when the running update began
  faulted,    \* history: whether an operation of the running update failed
  faults, outages

directory == <<disk, unsynced>>
installVars == <<disk, unsynced, lock, updater, version, proven, before, faulted, faults, outages>>

Paths == {"install"} \cup TempNames
NoFile == 0
Partial == -1
Contents == Releases \cup {NoFile, Partial}

\* The directory if exactly these of the operations since a sync took effect.
After(dir, ops, done) ==
  [n \in Paths |->
     LET by == {i \in done : n \in DOMAIN ops[i]}
     IN IF by = {} THEN dir[n] ELSE ops[Max(by)][n]]
Current == After(disk, unsynced, DOMAIN unsynced)
CrashStates == {After(disk, unsynced, done) : done \in SUBSET DOMAIN unsynced}

Do(op) == unsynced' = Append(unsynced, op) /\ UNCHANGED disk
Put(n, c) == [m \in {n} |-> c]
\* rename and hard_link: the target's contents change as one.
Renamed(from, to) == [m \in {from, to} |-> IF m = to THEN Current[from] ELSE NoFile]
\* A name no file has, nor may come to have again (the placeholder that
\* reserves it is created and removed at once).
Unused == {n \in TempNames : disk[n] = NoFile /\ \A i \in DOMAIN unsynced : n \notin DOMAIN unsynced[i]}

Serving == [at |-> "serving", release |-> 0, staged |-> "install", rollback |-> "install"]
Down == [Serving EXCEPT !.at = "down"]
EmptyDir == [n \in Paths |-> NoFile]
At(s, steps) == updater[s].at \in steps
To(s, step) == updater' = [updater EXCEPT ![s].at = step]

InstallInit ==
  /\ disk = [n \in Paths |-> IF n = "install" THEN FirstInstalled ELSE NoFile]
  /\ unsynced = <<>> /\ lock = {}
  /\ updater = [s \in Supervisors |-> Serving]
  /\ version = [s \in Supervisors |-> FirstInstalled]
  /\ proven = FirstInstalled /\ before = EmptyDir
  /\ faulted = FALSE /\ faults = 0 /\ outages = 0

\* sync_directory.
Synced == disk' = Current /\ unsynced' = <<>>
Fault == faults < StorageFaults /\ faults' = faults + 1 /\ faulted' = TRUE
NoFault == UNCHANGED <<faults, faulted>>

\* The end of an update: the lock file is closed.
Ends(s) ==
  /\ lock' = lock \ {s}
  /\ updater' = [updater EXCEPT ![s] = Serving]
  /\ before' = EmptyDir

----------------------------------------------------------------------------
(* Staging *)

\* Mutant: try_lock's refusal is ignored.
MayLockAlways(s) == TRUE
\* The lock file is locked before anything is fetched.
MayLock(s) == lock = {}

\* verify_envelope: the offered version against the supervisor's own.
Newer(s, r) == r > version[s]

\* stage_candidate, then the start of the download into a temporary file.
BeginUpdate(s, r) ==
  /\ At(s, {"serving"}) /\ MayLock(s) /\ Newer(s, r)
  /\ Len(unsynced) < UnsyncedRoom /\ Unused # {}
  /\ LET n == CHOOSE n \in Unused : TRUE
     IN /\ Do(Put(n, Partial))
        /\ updater' = [updater EXCEPT ![s] = [Serving EXCEPT !.at = "fetching", !.release = r, !.staged = n]]
  /\ lock' = lock \cup {s}
  /\ before' = Current /\ faulted' = FALSE
  /\ UNCHANGED <<version, proven, faults, outages>>

\* The whole artifact has the signed size and digest and is synced, and so is
\* its directory.
Fetched(s) ==
  /\ At(s, {"fetching"}) /\ To(s, "staged")
  /\ disk' = [Current EXCEPT ![updater[s].staged] = updater[s].release] /\ unsynced' = <<>>
  /\ NoFault
  /\ UNCHANGED <<lock, version, proven, before, outages>>

\* The guards of the rollback link and the staged file remove them in this
\* order; what a removal answers is ignored.
Leftovers(s) == {updater[s].rollback, updater[s].staged} \ {"install"}
Removed(ops, n, gone) == IF n \in gone THEN Append(ops, Put(n, NoFile)) ELSE ops
Cleared(s) ==
  \E gone \in SUBSET Leftovers(s) :
    /\ unsynced' = Removed(Removed(unsynced, updater[s].rollback, gone), updater[s].staged, gone)
    /\ UNCHANGED disk
    /\ IF gone = Leftovers(s) THEN NoFault ELSE Fault

\* Download, verification, preflight, or an operation before the swap fails.
UpdateFails(s) ==
  /\ At(s, {"fetching", "staged", "linked", "retained"})
  /\ Ends(s) /\ Cleared(s)
  /\ UNCHANGED <<version, proven, outages>>

\* SIGTERM while staging: the future is dropped and the supervisor ends.
Interrupted(s) ==
  /\ At(s, {"fetching", "staged"})
  /\ lock' = lock \ {s} /\ updater' = [updater EXCEPT ![s] = Down] /\ before' = EmptyDir
  /\ Cleared(s)
  /\ UNCHANGED <<version, proven, outages>>

----------------------------------------------------------------------------
(* Activation *)

\* activate: the staged file is verified again and the installed binary linked.
Link(s) ==
  /\ At(s, {"staged"}) /\ Unused # {}
  /\ LET n == CHOOSE n \in Unused : TRUE
     IN /\ Do(Put(n, Current["install"]))
        /\ updater' = [updater EXCEPT ![s].at = "linked", ![s].rollback = n]
  /\ NoFault /\ UNCHANGED <<lock, version, proven, before, outages>>

\* The link is on the disk before the swap begins.
Retain(s) ==
  /\ At(s, {"linked"}) /\ To(s, "retained")
  /\ Synced
  /\ NoFault /\ UNCHANGED <<lock, version, proven, before, outages>>

Swap(s) ==
  /\ At(s, {"retained"}) /\ To(s, "swapped")
  /\ Do(Renamed(updater[s].staged, "install"))
  /\ NoFault /\ UNCHANGED <<lock, version, proven, before, outages>>

Activated(s) ==
  /\ At(s, {"swapped"}) /\ To(s, "activated")
  /\ Synced
  /\ NoFault /\ UNCHANGED <<lock, version, proven, before, outages>>

\* The swap cannot be synced: the rollback is renamed back, or stays where it
\* is when that fails too.
ActivationFails(s) ==
  /\ At(s, {"swapped"}) /\ Fault
  /\ Do(Renamed(updater[s].rollback, "install")) \/ UNCHANGED directory
  /\ Ends(s)
  /\ UNCHANGED <<version, proven, outages>>

----------------------------------------------------------------------------
(* Confirmation *)

\* replace: a generation of the installed binary became ready.
Replaced(s) ==
  /\ At(s, {"activated"}) /\ To(s, "ready")
  /\ proven' = Current["install"]
  /\ NoFault /\ UNCHANGED <<directory, lock, version, before, outages>>

\* discard_rollback, whose failure is logged.
Discard(s) ==
  /\ At(s, {"ready"})
  /\ \/ disk' = [Current EXCEPT ![updater[s].rollback] = NoFile] /\ unsynced' = <<>> /\ NoFault
     \/ Do(Put(updater[s].rollback, NoFile)) /\ Fault
     \/ UNCHANGED directory /\ Fault
  /\ version' = [version EXCEPT ![s] = updater[s].release]
  /\ Ends(s)
  /\ UNCHANGED <<proven, outages>>

\* replace fails and rollback restores the retained binary.
Restore(s) ==
  /\ At(s, {"activated"})
  /\ LET back == Renamed(updater[s].rollback, "install")
     IN \/ /\ disk' = [n \in Paths |-> IF n \in DOMAIN back THEN back[n] ELSE Current[n]]
           /\ unsynced' = <<>> /\ NoFault
        \/ Do(back) /\ Fault
        \/ UNCHANGED directory /\ Fault
  /\ Ends(s)
  /\ UNCHANGED <<version, proven, outages>>

----------------------------------------------------------------------------
(* Outages *)

\* The operating system writes a directory back when it likes.
WriteBack == /\ unsynced # <<>> /\ Synced
             /\ UNCHANGED <<lock, updater, version, proven, before, faulted, faults, outages>>

Outage == outages < Outages /\ outages' = outages + 1

\* A killed supervisor leaves its files; the system releases its lock.
Killed(s) ==
  /\ ~At(s, {"down"}) /\ Outage
  /\ lock' = lock \ {s} /\ updater' = [updater EXCEPT ![s] = Down]
  /\ before' = (IF lock' = {} THEN EmptyDir ELSE before)
  /\ UNCHANGED <<directory, version, proven, faulted, faults>>

MachineFails ==
  /\ Outage
  /\ disk' \in CrashStates /\ unsynced' = <<>>
  /\ lock' = {} /\ updater' = [s \in Supervisors |-> Down]
  /\ before' = EmptyDir
  /\ UNCHANGED <<version, proven, faulted, faults>>

\* A supervisor is started from the installed binary and is of its version.
Started(s) ==
  /\ At(s, {"down"}) /\ Current["install"] \in Releases
  /\ To(s, "serving")
  /\ version' = [version EXCEPT ![s] = Current["install"]]
  /\ UNCHANGED <<directory, lock, proven, before, faulted, faults, outages>>

InstallNext ==
  \/ WriteBack \/ MachineFails
  \/ \E s \in Supervisors :
       \/ \E r \in Releases : BeginUpdate(s, r)
       \/ Fetched(s) \/ UpdateFails(s) \/ Interrupted(s)
       \/ Link(s) \/ Retain(s) \/ Swap(s) \/ Activated(s) \/ ActivationFails(s)
       \/ Replaced(s) \/ Discard(s) \/ Restore(s)
       \/ Killed(s) \/ Started(s)

InstallSpec == InstallInit /\ [][InstallNext]_installVars

----------------------------------------------------------------------------
(* Properties *)

InstallTypeOK ==
  /\ disk \in [Paths -> Contents]
  /\ \A i \in DOMAIN unsynced : unsynced[i] \in UNION {[ns -> Contents] : ns \in SUBSET Paths}
  /\ lock \subseteq Supervisors
  /\ version \in [Supervisors -> Releases] /\ proven \in Releases
  /\ \A s \in Supervisors : updater[s].staged \in Paths /\ updater[s].rollback \in Paths

\* Whatever a machine failure keeps of the directory, the executable path
\* names a whole release, and the last release that was seen to work is
\* there or under a retained name.
BinaryKept ==
  \A d \in CrashStates : d["install"] \in Releases /\ \E n \in Paths : d[n] = proven

\* An update is reported active only when a generation of it was ready and no
\* machine failure can bring another release back.  One that is rejected
\* without a storage fault leaves the directory as it found it, and a
\* generation that failed leaves no trace on the disk either.
OutcomeTruthful ==
  \A s \in Supervisors :
    LET ended == updater'[s].at = "serving"
        rejected == ended /\ At(s, {"fetching", "staged", "linked", "retained", "swapped", "activated"})
    IN /\ ended /\ At(s, {"ready"}) =>
             /\ proven = updater[s].release
             /\ \A d \in CrashStates' : d["install"] = updater[s].release
       /\ rejected /\ ~faulted' =>
             /\ Current' = before
             /\ At(s, {"activated"}) => CrashStates' = {before}

\* An update never costs the instance its binary: at all times the path is
\* recoverable, and what the supervisor reports is what the disk holds.
InstallTruthful == [](InstallTypeOK /\ BinaryKept) /\ [][OutcomeTruthful]_installVars
=============================================================================
