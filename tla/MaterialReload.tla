----------------------------- MODULE MaterialReload -----------------------------
(***************************************************************************)
(* Certificates and keys read from files while their owner replaces them.     *)
(* Three watchers poll a certificate file and its key: the gateway's one pair  *)
(* (tls.rs), the certificate sets of a snapshot (certificates.rs), which both   *)
(* keep what they have when a reload fails, and workload material               *)
(* (workload_material.rs), which is withdrawn instead; workload connections     *)
(* live as long as the material they were verified with (workload_http.rs).     *)
(* The last part is the country database's slot (geoip_runtime.rs, geoip.rs)    *)
(* under a clock that may be set back.                                          *)
(* A file's content is a version; a pair is usable when both files have the     *)
(* same usable version.  Every write changes the files' metadata, `stamp`.      *)
(***************************************************************************)
EXTENDS Naturals, FiniteSets

CONSTANTS WatcherKinds, \* the watchers to explore, see SetKinds
          Usable,       \* versions that validate
          Unusable,     \* versions that do not
          MaxWrites,    \* bound on writes to the files
          MaxTargets,   \* bound on snapshots published
          MaxClock,     \* bound on the clock
          MaxAge        \* max_age of the country database, in clock units

ASSUME MaterialReloadAssumption ==
  /\ WatcherKinds \subseteq {"pair", "set", "public", "workload"}
  /\ Usable \subseteq Nat \ {0} /\ Usable # {} /\ Unusable \subseteq Nat \ {0} /\ Usable \cap Unusable = {}
  /\ MaxWrites \in Nat /\ MaxTargets \in Nat \ {0} /\ MaxClock \in Nat /\ MaxAge \in Nat

VARIABLES
  kind,       \* which watcher runs
  certFile, keyFile, \* the versions in the two files
  stamp,      \* the files' metadata
  target,     \* the slot of the active snapshot
  held,       \* per slot, the version it holds; 0 when it is closed
  look,       \* the watcher: step, slot, stamp and versions it has read
  observed,   \* last_observation / check: slot and stamp, {} when none
  attempted,  \* last_attempt, or the published and rejected digests: slot, versions
  conn,       \* a workload connection: step, and whether the material it was
              \* verified with is still the very one the active slot holds
  complete,   \* history: versions both files held at one time
  unread,     \* history: the last observation's content could not be read
  clock,      \* the wall clock, which may be set back
  geoFile,    \* build epoch of the database file; {} when it is missing
  geoSlot,    \* Slot::current: epoch and whether its freshness failure is latched
  floor,      \* poisoned_epoch_floor
  geoLoad,    \* the load in flight: the database read, {} when none
  geoQuery,   \* a request between loading the slot and checking freshness
  watching,   \* the slot is published and its watcher is not cancelled
  lapsed      \* history: epochs found stale while they were admitted

materialVars == <<kind, certFile, keyFile, stamp, target, held, look, observed, attempted,
                  conn, complete, unread>>

Versions == Usable \cup Unusable
Rest == [at |-> "rest", slot |-> 0, stamp |-> 0, cert |-> 0, key |-> 0]
Empty == 0
SetKinds == {"set", "public"}  \* legacy certificates, and one named public listener
NoConnection == [at |-> "none", same |-> FALSE]
Stale == conn' = [conn EXCEPT !.same = FALSE]

\* server_config, sni_server_config and Prepared::load: the key fits the
\* certificate and both validate.
Validates(cert, key) == cert = key /\ cert \in Usable

\* Publication loads the files once; a workload slot starts closed all the same.
Opened(version) == IF kind = "workload" THEN Empty ELSE version

MaterialInit ==
  /\ kind \in WatcherKinds /\ certFile = (CHOOSE v \in Usable : TRUE) /\ keyFile = certFile
  /\ stamp = 1 /\ target = 1
  /\ held = [t \in 1..MaxTargets |-> IF t = 1 THEN Opened(certFile) ELSE Empty]
  /\ look = Rest /\ observed = {} /\ conn = NoConnection
  /\ attempted = IF kind = "pair" THEN {<<1, certFile, keyFile>>} ELSE {}
  /\ complete = {certFile} /\ unread = FALSE

Snapshots == <<kind, target, held>>
Memory == <<observed, attempted>>
OnDisk == <<certFile, keyFile, stamp, complete>>

\* The files' owner writes one of them.
WriteFile(file, v) ==
  /\ stamp <= MaxWrites /\ stamp' = stamp + 1
  /\ IF file = "cert" THEN certFile' = v /\ UNCHANGED keyFile ELSE keyFile' = v /\ UNCHANGED certFile
  /\ complete' = IF certFile' = keyFile' THEN complete \cup {certFile'} ELSE complete
  /\ UNCHANGED <<Snapshots, look, Memory, conn, unread>>

\* A snapshot is published whose certificates were loaded while preparing it.
PublishSnapshot ==
  /\ kind # "pair" /\ target < MaxTargets /\ Validates(certFile, keyFile)
  /\ target' = target + 1 /\ Stale
  /\ held' = [held EXCEPT ![target + 1] = Opened(certFile)]
  /\ UNCHANGED <<kind, OnDisk, look, Memory, unread>>

-----------------------------------------------------------------------------
(* One pass of a watcher: metadata, certificate, key, judgement. *)

\* An unchanged observation is skipped until the full verification is due.
LookAt(verifyDue) ==
  /\ look = Rest
  /\ verifyDue \/ kind = "pair" \/ observed # {<<target, stamp>>}
  /\ look' = [Rest EXCEPT !.at = "cert", !.slot = target, !.stamp = stamp]
  /\ observed' = IF kind \in SetKinds THEN {<<target, stamp>>} ELSE observed
  /\ unread' = IF kind \in SetKinds THEN FALSE ELSE unread
  /\ UNCHANGED <<Snapshots, OnDisk, attempted, conn>>

ReadCert ==
  /\ look.at = "cert" /\ look' = [look EXCEPT !.at = "key", !.cert = certFile]
  /\ UNCHANGED <<Snapshots, OnDisk, Memory, conn, unread>>

ReadKey ==
  /\ look.at = "key" /\ look' = [look EXCEPT !.at = "judge", !.key = keyFile]
  /\ UNCHANGED <<Snapshots, OnDisk, Memory, conn, unread>>

\* Workload material that cannot be had is withdrawn, from a slot still present.
CloseSlot ==
  IF look.slot = target
  THEN held' = [held EXCEPT ![look.slot] = Empty] /\ observed' = {} /\ Stale
  ELSE UNCHANGED <<held, observed, conn>>

\* A file is missing, not regular, too large or changed while it was read.
ReadFails ==
  /\ look.at \in {"cert", "key"} /\ look' = Rest
  /\ IF kind = "workload" THEN CloseSlot ELSE UNCHANGED <<held, observed, conn>>
  /\ unread' = TRUE
  /\ UNCHANGED <<kind, target, OnDisk, attempted>>

Installed(version) ==
  held' = [held EXCEPT ![look.slot] = version] /\ Stale

\* ReloadingTls::watch: neither the published nor the last rejected pair.
JudgePair ==
  /\ kind = "pair" /\ look.at = "judge" /\ look' = Rest
  /\ LET digest == <<look.slot, look.cert, look.key>> IN
     IF digest \in attempted THEN UNCHANGED <<held, attempted, conn>>
     ELSE IF Validates(look.cert, look.key)
     THEN Installed(look.cert) /\ attempted' = {digest}
     ELSE /\ attempted' = {digest, <<look.slot, held[look.slot], held[look.slot]>>}
          /\ UNCHANGED <<held, conn>>
  /\ unread' = FALSE
  /\ UNCHANGED <<kind, target, OnDisk, observed>>

\* certificates::watch: not the last attempt; into a slot still current.
JudgeSet ==
  /\ kind = "set" /\ look.at = "judge" /\ look' = Rest
  /\ LET digest == <<look.slot, look.cert, look.key>> IN
     /\ attempted' = {digest}
     /\ IF digest \notin attempted /\ Validates(look.cert, look.key) /\ look.slot = target
        THEN Installed(look.cert) ELSE UNCHANGED <<held, conn>>
  /\ UNCHANGED <<kind, target, OnDisk, observed, unread>>

\* certificates::watch_public, one listener of it: the same judgement, with a
\* memory that is dropped when the active snapshot no longer has the listener.
JudgePublic ==
  /\ kind = "public" /\ look.at = "judge" /\ look' = Rest
  /\ LET digest == <<look.slot, look.cert, look.key>> IN
     /\ attempted' = {digest}
     /\ IF digest \notin attempted /\ Validates(look.cert, look.key) /\ look.slot = target
        THEN Installed(look.cert) ELSE UNCHANGED <<held, conn>>
  /\ UNCHANGED <<kind, target, OnDisk, observed, unread>>

\* A snapshot without the listener: the next pass forgets what it had seen.
ForgetListener ==
  /\ kind = "public" /\ look = Rest /\ (observed # {} \/ attempted # {})
  /\ observed' = {} /\ attempted' = {} /\ target < MaxTargets /\ Validates(certFile, keyFile)
  /\ target' = target + 1 /\ held' = [held EXCEPT ![target + 1] = certFile] /\ Stale
  /\ UNCHANGED <<kind, OnDisk, look, unread>>

\* Mutant: the metadata is not compared again after the material is read.
StableNever == TRUE

\* refresh_many: the metadata before and after the reads agree.
Stable == look.stamp = stamp

\* Slot::refresh_many: the same material keeps its identity, other material
\* replaces it, and anything else withdraws it.
JudgeWorkload ==
  /\ kind = "workload" /\ look.at = "judge" /\ look' = Rest
  /\ IF ~(Validates(look.cert, look.key) /\ Stable) THEN CloseSlot
     ELSE IF look.slot # target THEN UNCHANGED <<held, observed, conn>>
     ELSE /\ observed' = {<<look.slot, look.stamp>>}
          /\ IF held[look.slot] = look.cert THEN UNCHANGED <<held, conn>>
             ELSE Installed(look.cert)
  /\ UNCHANGED <<kind, target, OnDisk, attempted, unread>>

-----------------------------------------------------------------------------
(* A workload HTTP connection. *)

\* serve: the handshake uses the slot's material; a closed slot refuses.
Handshake ==
  /\ kind = "workload" /\ conn.at = "none" /\ held[target] # Empty
  /\ conn' = [at |-> "handshake", same |-> TRUE]
  /\ UNCHANGED <<Snapshots, OnDisk, look, Memory, unread>>

\* Evidence::current, without the identity's expiry.
EvidenceCurrent == conn.same

\* The peer is authorized, unless the material was replaced meanwhile.
Authorize ==
  /\ conn.at = "handshake"
  /\ conn' = IF EvidenceCurrent THEN [conn EXCEPT !.at = "open"] ELSE NoConnection
  /\ UNCHANGED <<Snapshots, OnDisk, look, Memory, unread>>

\* RevocableIo::check at its tick, before a read, write or flush.
CheckIo ==
  /\ conn.at \in {"open", "checked"}
  /\ conn' = [conn EXCEPT !.at = IF EvidenceCurrent THEN "checked" ELSE "revoked"]
  /\ UNCHANGED <<Snapshots, OnDisk, look, Memory, unread>>

\* The peer leaves, the identity expires, the connection idles out or is cancelled.
CloseConnection ==
  /\ conn.at # "none" /\ conn' = NoConnection
  /\ UNCHANGED <<Snapshots, OnDisk, look, Memory, unread>>

MaterialNext ==
  \/ PublishSnapshot \/ ReadCert \/ ReadKey \/ ReadFails \/ JudgePair \/ JudgeSet
  \/ JudgePublic \/ ForgetListener
  \/ JudgeWorkload
  \/ Handshake \/ Authorize \/ CheckIo \/ CloseConnection
  \/ \E verifyDue \in BOOLEAN : LookAt(verifyDue)
  \/ \E file \in {"cert", "key"}, v \in Versions : WriteFile(file, v)

MaterialSpec == MaterialInit /\ [][MaterialNext]_materialVars

-----------------------------------------------------------------------------
(* The country database.  A database is its build epoch and its latch. *)

geoVars == <<clock, geoFile, geoSlot, floor, geoLoad, geoQuery, watching, lapsed>>
Epochs == 0..MaxClock
MaxOf(a, b) == IF a >= b THEN a ELSE b

GeoInit ==
  /\ clock = 1 /\ geoFile = {1} /\ geoSlot = {} /\ floor = 0 /\ geoLoad = {} /\ geoQuery = {}
  /\ watching = TRUE /\ lapsed = {}

\* check_freshness: not older than its age, not from the future, never failed before.
FreshNow(db) == ~db.latched /\ db.epoch <= clock /\ clock <= db.epoch + MaxAge

\* Slot::freshness_checked: a failure latches and poisons the epoch.
Admissible(db) == FreshNow(db) /\ db.epoch >= floor
Poisoned(db) == IF FreshNow(db) THEN floor ELSE MaxOf(floor, db.epoch + 1)
Latched(dbs) == {[db EXCEPT !.latched = ~FreshNow(db)] : db \in dbs}

SetClock(t) ==
  /\ t \in Epochs /\ clock' = t
  /\ UNCHANGED <<geoFile, geoSlot, floor, geoLoad, geoQuery, watching, lapsed>>

ReplaceDatabase(content) ==
  /\ geoFile' = content
  /\ UNCHANGED <<clock, geoSlot, floor, geoLoad, geoQuery, watching, lapsed>>

\* A request loads the slot ...
GeoQuery ==
  /\ geoQuery = {} /\ geoSlot # {} /\ geoQuery' = geoSlot
  /\ UNCHANGED <<clock, geoFile, geoSlot, floor, geoLoad, watching, lapsed>>

\* ... and checks what it has, the failure being the generation's for good.
GeoAnswer ==
  /\ geoQuery # {} /\ geoQuery' = {}
  /\ LET db == CHOOSE d \in geoQuery : TRUE IN
     /\ floor' = Poisoned(db)
     /\ lapsed' = IF FreshNow(db) THEN lapsed ELSE lapsed \cup {db.epoch}
     /\ geoSlot' = IF geoSlot = geoQuery THEN Latched(geoSlot) ELSE geoSlot
  /\ UNCHANGED <<clock, geoFile, geoLoad, watching>>

\* Database::load in a blocking task; the file is checked for its age then.
GeoRead ==
  /\ watching /\ geoLoad = {} /\ geoFile # {}
  /\ LET e == CHOOSE e \in geoFile : TRUE IN
     geoLoad' = {[epoch |-> e, latched |-> FALSE,
                  loaded |-> FreshNow([epoch |-> e, latched |-> FALSE])]}
  /\ UNCHANGED <<clock, geoFile, geoSlot, floor, geoQuery, watching, lapsed>>

\* refresh_once and publish, the load having succeeded: the admitted generation
\* is checked as well, then replaced unless it is the same and fresh.
GeoPublish ==
  /\ geoLoad # {} /\ geoLoad' = {}
  /\ LET db == CHOOSE d \in geoLoad : TRUE
         new == [epoch |-> db.epoch, latched |-> FALSE]
         stale == {d \in geoSlot : ~FreshNow(d)}
         late == {d \in stale \cup {d \in {new} : db.loaded} : ~FreshNow(d)}
         poison == IF late = {} THEN floor
                   ELSE MaxOf(floor, 1 + (CHOOSE e \in {d.epoch : d \in late} :
                                            \A d \in late : d.epoch <= e)) IN
     IF ~watching THEN UNCHANGED <<geoSlot, floor, lapsed>>
     ELSE /\ floor' = poison /\ lapsed' = lapsed \cup {d.epoch : d \in stale}
          /\ geoSlot' = IF ~db.loaded \/ ~FreshNow(new) \/ new.epoch < poison THEN {}
                        ELSE IF geoSlot = {new} THEN geoSlot ELSE {new}
  /\ UNCHANGED <<clock, geoFile, geoQuery, watching>>

\* The file cannot be read: the slot closes, after a look at what it held.
GeoUnavailable ==
  /\ watching /\ geoLoad = {} /\ geoFile = {} /\ geoSlot # {}
  /\ LET db == CHOOSE d \in geoSlot : TRUE IN
     floor' = Poisoned(db) /\ lapsed' = IF FreshNow(db) THEN lapsed ELSE lapsed \cup {db.epoch}
  /\ geoSlot' = {}
  /\ UNCHANGED <<clock, geoFile, geoLoad, geoQuery, watching>>

\* The snapshot is replaced: its watcher is cancelled and joined.
GeoRetire ==
  /\ watching /\ watching' = FALSE
  /\ UNCHANGED <<clock, geoFile, geoSlot, floor, geoLoad, geoQuery, lapsed>>

GeoNext ==
  \/ GeoQuery \/ GeoAnswer \/ GeoRead \/ GeoPublish \/ GeoUnavailable \/ GeoRetire
  \/ \E t \in Epochs : SetClock(t)
  \/ \E content \in {{}} \cup {{e} : e \in Epochs} : ReplaceDatabase(content)

GeoSpec == GeoInit /\ [][GeoNext]_geoVars

-----------------------------------------------------------------------------
(* Properties. *)

\* However the files are replaced under the watchers (tls.rs watch,
\* certificates.rs watch, Slot::refresh_many): a watcher at rest whose last
\* observation still matches the files has usable material in the active slot
\* installed, unless the read itself failed, and what it installs is usable;
\* workload material is only ever what both files held at one time, a slot
\* without a verified observation is closed, and no connection is let through on
\* the evidence of material that was withdrawn or replaced since.
MaterialSound ==
  /\ (kind \in SetKinds /\ look = Rest /\ observed = {<<target, stamp>>} /\ ~unread
        /\ Validates(certFile, keyFile)) => held[target] = certFile
  /\ kind # "workload" => held[target] \in Usable
  /\ kind = "workload" =>
       /\ held[target] \in complete \cup {0}
       /\ observed = {<<target, stamp>>} => held[target] = certFile /\ Validates(certFile, keyFile)
       /\ (observed = {} => held[target] = Empty)
  /\ EvidenceCurrent => held[target] # Empty

\* A country database that was found stale while admitted is not admitted again,
\* whatever the clock is set to (geoip.rs, the epoch floor).
GeoSound == \A db \in geoSlot : Admissible(db) => \A e \in lapsed : db.epoch > e

\* What a process serves from files is a key that fits its certificate, for
\* workloads a pair that was complete on disk; a bad write never replaces it, and
\* a stale country database never comes back.
MaterialCoherent == MaterialSound /\ GeoSound
=============================================================================
