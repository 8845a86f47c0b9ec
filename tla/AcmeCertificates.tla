--------------------------- MODULE AcmeCertificates ----------------------------
(***************************************************************************)
(* How certificates are obtained and published on one ACME account.          *)
(*                                                                         *)
(* First the standalone issuer (hangang-acme-issuer.rs), several processes   *)
(* over one account file and one output directory, with the account's        *)
(* registration in AcmeEngine::new (acme.rs).  Each process supervises one   *)
(* attempt at a time, replaces its settings when their file changes, and     *)
(* publishes a certificate as an immutable generation directory the          *)
(* `current` pointer is renamed to.                                          *)
(*                                                                         *)
(* Then the gateway's own ACME runtime (acme_runtime.rs) in several          *)
(* processes that share an account file and its adjacent TLS bundle.  In     *)
(* each process the run loop rereads its settings and watches the bundle,    *)
(* and at most one issuance attempt runs beside it under the account lock;   *)
(* the loop and the attempt both write the resolver, the record of what is   *)
(* loaded and the status.  A bundle's digest is the certificate it holds.    *)
(*                                                                         *)
(* A certificate is a number; its age is 0, then 1 inside the renewal        *)
(* window, then 2 once expired.  Issuer and gateway share no state.          *)
(***************************************************************************)
EXTENDS Naturals, Sequences, FiniteSets

-----------------------------------------------------------------------------
(* The standalone issuer *)

CONSTANTS Issuers,        \* the issuer processes
          Bindings,       \* whether accounts may be bound externally (eab)
          IssueLimit,     \* bound on certificates the authority issues
          StopLimit,      \* bound on crashes and settings replaced, together
          KeyLimit        \* bound on account keys ever generated

ASSUME AcmeIssuerAssumption ==
  Bindings \subseteq BOOLEAN /\ IssueLimit \in Nat /\ StopLimit \in Nat /\ KeyLimit \in Nat

VARIABLES
  ages,        \* ages of the certificates issued
  directories, \* generation directories: the files each holds
  pointer,     \* what `current` points to; 0 when absent
  accountFile, \* the account file: key (0 when absent) and whether credentials are there
  registered,  \* account keys the authority knows
  keys,        \* account keys generated so far
  lockHolder,  \* the process holding the account lock; {} when free
  work,        \* per process, its attempt: step, certificate, account key
  eab,         \* whether the account is bound externally
  settingsFresh, \* per process, whether its settings file is the one in force
  manifest,    \* the status file: phase and certificate named
  stops,       \* crashes and replacements so far
  hasty,       \* history: orders placed although the current pair was current
  orphaned     \* history: externally bound registrations whose credentials were lost

issuerVars == <<ages, directories, pointer, accountFile, registered, keys, lockHolder, work,
                eab, settingsFresh,
                manifest, stops, hasty, orphaned>>

AtWait == [at |-> "waiting", cert |-> 0, key |-> 0]
Files == {"cert", "key"}
Complete(g) == g \in DOMAIN directories /\ directories[g] = Files

IssuerInit ==
  /\ ages = <<>> /\ directories = <<>> /\ pointer = 0
  /\ accountFile = [key |-> 0, credentials |-> FALSE] /\ registered = {} /\ keys = 0
  /\ lockHolder = {} /\ work = [i \in Issuers |-> AtWait] /\ settingsFresh = [i \in Issuers |-> TRUE]
  /\ eab \in Bindings /\ manifest = [phase |-> "renewing", cert |-> 0]
  /\ stops = 0 /\ hasty = {} /\ orphaned = {}

Disk == <<directories, pointer>>
IssuerAuthority == <<ages, registered, keys, accountFile, eab>>
Ghosts == <<hasty, orphaned>>

\* current_certificate_meta: a pointer to a generation that validates.
CurrentPair == IF pointer # 0 /\ Complete(pointer) /\ ages[pointer] < 2 THEN pointer ELSE 0
StillCurrent == CurrentPair # 0 /\ ages[CurrentPair] = 0

\* publish_status and current_phase: advisory, written whole by a rename.
PublishManifest(phase) == manifest' = [phase |-> phase, cert |-> CurrentPair]
CurrentPhase == IF StillCurrent THEN "ready" ELSE "renewing"

Goes(i, at) == work' = [work EXCEPT ![i].at = at]
IssueEnds(i) == work' = [work EXCEPT ![i] = AtWait] /\ lockHolder' = lockHolder \ {i}

-----------------------------------------------------------------------------
(* One attempt, run_one. *)

\* supervise starts it: the status first, then the lock; losing it is success.
BeginIssue(i) ==
  /\ work[i].at = "waiting" /\ settingsFresh[i]
  /\ PublishManifest(CurrentPhase)
  /\ IF lockHolder = {} THEN lockHolder' = {i} /\ Goes(i, "locked")
     ELSE UNCHANGED <<work, lockHolder>>
  /\ UNCHANGED <<Disk, IssuerAuthority, settingsFresh, stops, Ghosts>>

\* The pair on disk is current: nothing to do.
NothingDue(i) ==
  /\ work[i].at = "locked" /\ StillCurrent /\ PublishManifest(CurrentPhase) /\ IssueEnds(i)
  /\ UNCHANGED <<Disk, IssuerAuthority, settingsFresh, stops, Ghosts>>

\* load_or_create_account: an account file is read, or a key is generated and
\* written before the authority hears of it.
LoadAccount(i) ==
  /\ work[i].at = "locked" /\ ~StillCurrent
  /\ IF accountFile.key # 0
     THEN /\ work' = [work EXCEPT ![i].at = IF accountFile.credentials THEN "engine" ELSE "registering",
                                  ![i].key = accountFile.key]
          /\ UNCHANGED <<accountFile, keys>>
     ELSE /\ keys < KeyLimit /\ keys' = keys + 1
          /\ accountFile' = [key |-> keys + 1, credentials |-> FALSE]
          /\ work' = [work EXCEPT ![i].at = "registering", ![i].key = keys + 1]
  /\ UNCHANGED <<Disk, ages, registered, lockHolder, eab, settingsFresh, manifest, stops, Ghosts>>

\* The account is created: with the stored key, or with a new one when it is
\* bound externally.  The answer may be lost.
Register(i, answered) ==
  /\ work[i].at = "registering"
  /\ IF eab THEN keys < KeyLimit /\ keys' = keys + 1 ELSE UNCHANGED keys
  /\ LET key == IF eab THEN keys + 1 ELSE work[i].key IN
     /\ registered' = registered \cup {key}
     /\ IF answered
        THEN /\ work' = [work EXCEPT ![i].at = "registered", ![i].key = key]
             /\ UNCHANGED <<orphaned, lockHolder>>
        ELSE IssueEnds(i) /\ orphaned' = IF eab THEN orphaned \cup {key} ELSE orphaned
  /\ UNCHANGED <<Disk, ages, accountFile, eab, settingsFresh, manifest, stops, hasty>>

\* persist_account_credentials: key and credentials in one replacement.
PersistAccount(i) ==
  /\ work[i].at = "registered"
  /\ accountFile' = [key |-> work[i].key, credentials |-> TRUE] /\ Goes(i, "engine")
  /\ UNCHANGED <<Disk, ages, registered, keys, lockHolder, eab, settingsFresh, manifest, stops, Ghosts>>

IssuerOrder(i) ==
  /\ work[i].at = "engine" /\ Goes(i, "ordering")
  /\ hasty' = IF StillCurrent THEN hasty \cup {i} ELSE hasty
  /\ UNCHANGED <<Disk, IssuerAuthority, lockHolder, settingsFresh, manifest, stops, orphaned>>

Obtains(i) ==
  /\ work[i].at = "ordering" /\ Len(ages) < IssueLimit
  /\ ages' = Append(ages, 0) /\ directories' = Append(directories, {})
  /\ work' = [work EXCEPT ![i].at = "writing", ![i].cert = Len(ages) + 1]
  /\ UNCHANGED <<pointer, registered, keys, accountFile, eab, lockHolder, settingsFresh, manifest,
                 stops, Ghosts>>

\* A failed, timed out or cancelled attempt.
AttemptEnds(i, phase) ==
  /\ work[i].at \in {"engine", "ordering", "writing", "placed"}
  /\ phase = "cancelled" => ~settingsFresh[i]
  /\ IF phase = "cancelled" THEN UNCHANGED manifest ELSE PublishManifest("retrying")
  /\ IssueEnds(i)
  /\ UNCHANGED <<Disk, IssuerAuthority, settingsFresh, stops, Ghosts>>

-----------------------------------------------------------------------------
(* write_generation: a private directory, renamed, then pointed to. *)

\* Both files are synced in the temporary directory, which is then renamed.
Placed(i) == work[i].at = "placed"

PlaceGeneration(i) ==
  /\ work[i].at = "writing"
  /\ directories' = [directories EXCEPT ![work[i].cert] = Files]
  /\ Goes(i, "placed")
  /\ UNCHANGED <<pointer, IssuerAuthority, lockHolder, settingsFresh, manifest, stops, Ghosts>>

\* The pointer's temporary link is renamed over `current`.
Point(i) ==
  /\ Placed(i) /\ pointer' = work[i].cert /\ Goes(i, "pointed")
  /\ UNCHANGED <<directories, IssuerAuthority, lockHolder, settingsFresh, manifest, stops, Ghosts>>

\* The attempt returns and the status is refreshed.
AttemptSucceeds(i) ==
  /\ work[i].at = "pointed" /\ PublishManifest(CurrentPhase) /\ IssueEnds(i)
  /\ UNCHANGED <<Disk, IssuerAuthority, settingsFresh, stops, Ghosts>>

-----------------------------------------------------------------------------
(* The supervisor's other steps. *)

\* The settings file changes.
IssuerFileChanges(i) ==
  /\ stops < StopLimit /\ stops' = stops + 1
  /\ settingsFresh[i] /\ settingsFresh' = [settingsFresh EXCEPT ![i] = FALSE]
  /\ UNCHANGED <<Disk, IssuerAuthority, lockHolder, work, manifest, Ghosts>>

\* The poll finds a valid replacement: the attempt has been cancelled and
\* awaited, or none runs; backoff, retry and the DNS provider start over.
AdoptSettings(i) ==
  /\ ~settingsFresh[i] /\ work[i].at = "waiting" /\ settingsFresh' = [settingsFresh EXCEPT ![i] = TRUE]
  /\ UNCHANGED <<Disk, IssuerAuthority, lockHolder, work, manifest, stops, Ghosts>>

\* A replacement that does not prepare, or changes the challenge mode, leaves
\* the attempt and the settings alone.
Refuse(i) ==
  /\ ~settingsFresh[i] /\ work[i].at # "waiting" /\ settingsFresh' = [settingsFresh EXCEPT ![i] = TRUE]
  /\ UNCHANGED <<Disk, IssuerAuthority, lockHolder, work, manifest, stops, Ghosts>>

\* The process is killed; the lock goes with it.
IssuerCrash(i) ==
  /\ stops < StopLimit /\ stops' = stops + 1 /\ IssueEnds(i)
  /\ orphaned' = IF work[i].at = "registered" /\ eab THEN orphaned \cup {work[i].key} ELSE orphaned
  /\ UNCHANGED <<Disk, IssuerAuthority, settingsFresh, manifest, hasty>>

Heartbeat(i) ==
  /\ PublishManifest(IF work[i].at = "waiting" THEN CurrentPhase ELSE "renewing")
  /\ UNCHANGED <<Disk, IssuerAuthority, lockHolder, work, settingsFresh, stops, Ghosts>>

GrowOld(c) ==
  /\ c \in DOMAIN ages /\ ages[c] < 2 /\ (\A older \in 1..(c - 1) : ages[older] > ages[c])
  /\ ages' = [ages EXCEPT ![c] = @ + 1]
  /\ UNCHANGED <<Disk, registered, keys, accountFile, eab, lockHolder, work, settingsFresh,
                 manifest, stops, Ghosts>>

IssuerNext ==
  \/ \E c \in 1..IssueLimit : GrowOld(c)
  \/ \E i \in Issuers :
       \/ BeginIssue(i) \/ NothingDue(i) \/ LoadAccount(i) \/ PersistAccount(i) \/ IssuerOrder(i)
       \/ Obtains(i) \/ PlaceGeneration(i) \/ Point(i) \/ AttemptSucceeds(i)
       \/ IssuerFileChanges(i) \/ AdoptSettings(i) \/ Refuse(i) \/ IssuerCrash(i) \/ Heartbeat(i)
       \/ \E flag \in BOOLEAN : Register(i, flag)
       \/ \E phase \in {"retrying", "cancelled"} : AttemptEnds(i, phase)

-----------------------------------------------------------------------------
(* Properties. *)

\* Whatever crashes, fails, is replaced or runs beside it (run_one,
\* write_generation, AcmeEngine::new): the pointer names a complete pair; one
\* process at a time orders, and not while the pair on disk is current; the
\* account file never holds credentials of a key the authority does not know;
\* and the authority gets to know a single account, but for an externally bound
\* one whose registration was never heard of.
IssuerSound ==
  /\ pointer # 0 => Complete(pointer)
  /\ Cardinality({i \in Issuers : work[i].at \in {"ordering", "writing", "placed"}}) <= 1
  /\ hasty = {}
  /\ accountFile.credentials => accountFile.key \in registered
  /\ Cardinality(registered \ orphaned) <= 1

-----------------------------------------------------------------------------
(* The runtime of a gateway *)

CONSTANTS Instances,   \* the processes
          DomainSets,  \* configured domain sets
          MaxCerts,    \* bound on certificates the authority issues
          MaxTroubles  \* bound on unusable files left at the path by others,
                       \* processes ending and settings replaced, together

ASSUME AcmeBundlesAssumption ==
  MaxCerts \in Nat \ {0} /\ MaxTroubles \in Nat /\ DomainSets # {}

VARIABLES
  certs,     \* the certificates issued: domains, age
  bundleFile, \* what the bundle file holds: 0 nothing, Spoiled, or a certificate
  account,   \* the processes holding the account lock
  wanted,    \* per process, the domains its settings file names
  settled,   \* per process, the domains of the settings in force
  resolver,  \* per process, the certificate the public resolver answers with
  loaded,    \* per process, `loaded`: the certificate recorded as published
  expires,   \* per process, status.expires_unix by certificate; 0 is None
  pendingBundle, \* per process, issued material that is not published yet
  rejected,  \* per process, the last rejected bundle
  watcher,   \* per process, the watcher's load: phase and what it read
  renewal,   \* per process, the attempt: phase and the certificate at hand
  running,   \* per process, whether it runs
  bundleTroubles, \* files spoiled, processes ended and settings replaced so far
  everWritten, \* history: certificates that were ever written to the bundle
  dropped,   \* history: certificates given up on, and why that was right
  wasteful   \* history: orders placed although the bundle was current

bundleVars == <<certs, bundleFile, account, wanted, settled, resolver, loaded, expires,
                pendingBundle, rejected,
                watcher, renewal, running, bundleTroubles, everWritten, dropped, wasteful>>

Spoiled == MaxCerts + 1
AtRest == [at |-> "rest", cert |-> 0]
Phase(phase, cert) == [at |-> phase, cert |-> cert]

\* validate_certificate and the domain check of load_bundle.
Loadable(c, domains) ==
  c \in 1..Len(certs) /\ certs[c].domains = domains /\ certs[c].age < 2
Due(c) == c # 0 => certs[c].age > 0

BundlesInit ==
  /\ certs = <<>> /\ bundleFile = 0 /\ account = {} /\ bundleTroubles = 0
  /\ wanted = [p \in Instances |-> CHOOSE domains \in DomainSets : TRUE]
  /\ settled = wanted
  /\ resolver = [p \in Instances |-> 0] /\ loaded = resolver /\ expires = resolver
  /\ pendingBundle = resolver /\ rejected = resolver
  /\ watcher = [p \in Instances |-> AtRest] /\ renewal = watcher
  /\ running = [p \in Instances |-> TRUE]
  /\ everWritten = {} /\ dropped = {} /\ wasteful = {}

Set(f, p, v) == [f EXCEPT ![p] = v]
Outside == <<certs, bundleFile, account>>
Lives == <<wanted, settled, running, bundleTroubles>>
Past == <<everWritten, dropped, wasteful>>
View == <<resolver, loaded, expires>>
Task == <<pendingBundle, rejected, watcher, renewal>>

-----------------------------------------------------------------------------
(* The bundle watcher: the read and the publication are steps apart. *)

\* watch_bundle: a bundle that is neither loaded nor the last rejected is read.
WatchRead(p) ==
  /\ running[p] /\ watcher[p] = AtRest /\ settled[p] = wanted[p]
  /\ bundleFile \notin {0, loaded[p], rejected[p]}
  /\ watcher' = Set(watcher, p, Phase("read", bundleFile))
  /\ UNCHANGED <<Outside, Lives, Past, View, pendingBundle, rejected, renewal>>

\* load_bundle fails: only the rejection is remembered.
WatchRejects(p) ==
  /\ watcher[p].at = "read" /\ ~Loadable(watcher[p].cert, settled[p])
  /\ rejected' = Set(rejected, p, watcher[p].cert) /\ watcher' = Set(watcher, p, AtRest)
  /\ UNCHANGED <<Outside, Lives, Past, View, pendingBundle, renewal>>

\* publish_loaded: first the resolver ...
WatchStores(p) ==
  /\ watcher[p].at = "read" /\ Loadable(watcher[p].cert, settled[p])
  /\ resolver' = Set(resolver, p, watcher[p].cert)
  /\ watcher' = Set(watcher, p, Phase("stored", watcher[p].cert))
  /\ UNCHANGED <<Outside, Lives, Past, loaded, expires, pendingBundle, rejected, renewal>>

\* ... then the record and the status.
WatchRecords(p) ==
  /\ watcher[p].at = "stored"
  /\ loaded' = Set(loaded, p, watcher[p].cert) /\ expires' = Set(expires, p, watcher[p].cert)
  /\ rejected' = Set(rejected, p, 0) /\ watcher' = Set(watcher, p, AtRest)
  /\ UNCHANGED <<Outside, Lives, Past, resolver, pendingBundle, renewal>>

-----------------------------------------------------------------------------
(* The run loop. *)

\* restore when nothing runs beside it: published, or the status says pending.
Restored(p, domains) ==
  IF Loadable(bundleFile, domains)
  THEN resolver' = Set(resolver, p, bundleFile) /\ loaded' = Set(loaded, p, bundleFile)
       /\ expires' = Set(expires, p, bundleFile)
  ELSE expires' = Set(expires, p, 0) /\ UNCHANGED <<resolver, loaded>>

SettingsChange(p, domains) ==
  /\ wanted[p] # domains /\ wanted' = Set(wanted, p, domains)
  /\ bundleTroubles < MaxTroubles /\ bundleTroubles' = bundleTroubles + 1
  /\ UNCHANGED <<Outside, settled, running, Past, View, Task>>

\* New settings: the attempt has been cancelled and awaited, the bundle is
\* judged again and the next attempt is due at once.
Reconfigure(p) ==
  /\ running[p] /\ wanted[p] # settled[p]
  /\ watcher[p] = AtRest /\ renewal[p] = AtRest
  /\ settled' = Set(settled, p, wanted[p]) /\ Restored(p, wanted[p])
  /\ rejected' = Set(rejected, p, 0)
  /\ UNCHANGED <<Outside, wanted, running, bundleTroubles, Past, pendingBundle, watcher, renewal>>

\* The attempt is due: no certificate, or its renewal window has begun.  Its
\* first step tries the account lock, once; losing it ends the attempt.
StartAttempt(p) ==
  /\ running[p] /\ renewal[p] = AtRest /\ watcher[p] = AtRest
  /\ settled[p] = wanted[p] /\ Due(expires[p])
  /\ account = {} /\ account' = {p}
  /\ renewal' = Set(renewal, p, Phase("locked", 0))
  /\ UNCHANGED <<certs, bundleFile, Lives, Past, View, pendingBundle, rejected, watcher>>

-----------------------------------------------------------------------------
(* One issuance attempt. *)

\* restore under the lock: another process may have renewed meanwhile.
AttemptReads(p) ==
  /\ renewal[p].at = "locked"
  /\ IF Loadable(bundleFile, settled[p])
     THEN renewal' = Set(renewal, p, Phase("reading", bundleFile)) /\ UNCHANGED expires
     ELSE renewal' = Set(renewal, p, Phase("judging", 0)) /\ expires' = Set(expires, p, 0)
  /\ UNCHANGED <<Outside, Lives, Past, resolver, loaded, pendingBundle, rejected, watcher>>

AttemptStores(p) ==
  /\ renewal[p].at \in {"reading", "written"}
  /\ resolver' = Set(resolver, p, renewal[p].cert)
  /\ renewal' = Set(renewal, p, Phase(IF renewal[p].at = "reading" THEN "stored" ELSE "served",
                                      renewal[p].cert))
  /\ UNCHANGED <<Outside, Lives, Past, loaded, expires, pendingBundle, rejected, watcher>>

AttemptRecords(p) ==
  /\ renewal[p].at = "stored"
  /\ loaded' = Set(loaded, p, renewal[p].cert) /\ expires' = Set(expires, p, renewal[p].cert)
  /\ renewal' = Set(renewal, p, Phase("judging", 0))
  /\ UNCHANGED <<Outside, Lives, Past, resolver, pendingBundle, rejected, watcher>>

\* The attempt is over: its lock goes, and the loop may start another.
Over(p) == account' = account \ {p} /\ renewal' = Set(renewal, p, AtRest)

\* The status shows a current certificate: nothing to do.
AlreadyCurrent(p) ==
  /\ renewal[p].at = "judging" /\ ~Due(expires[p])
  /\ pendingBundle' = Set(pendingBundle, p, 0)
  /\ dropped' = IF pendingBundle[p] = 0 THEN dropped ELSE dropped \cup {pendingBundle[p]}
  /\ Over(p)
  /\ UNCHANGED <<certs, bundleFile, Lives, everWritten, wasteful, View, rejected, watcher>>

\* take_pending: usable for these settings, or discarded.
Promotable(c, domains) == certs[c].domains = domains /\ certs[c].age = 0
PublishPending(p) ==
  /\ renewal[p].at = "judging" /\ Due(expires[p]) /\ pendingBundle[p] # 0
  /\ IF Promotable(pendingBundle[p], settled[p])
     THEN renewal' = Set(renewal, p, Phase("publishing", pendingBundle[p])) /\ UNCHANGED <<pendingBundle,
                                                                                           dropped>>
     ELSE /\ dropped' = dropped \cup {pendingBundle[p]} /\ pendingBundle' = Set(pendingBundle, p, 0)
          /\ UNCHANGED renewal
  /\ UNCHANGED <<Outside, Lives, everWritten, wasteful, View, rejected, watcher>>

\* validate_bundle_destination fails, or the order does.
AttemptFails(p) ==
  /\ \/ renewal[p].at = "ordering"
     \/ renewal[p].at = "judging" /\ Due(expires[p]) /\ pendingBundle[p] = 0
  /\ Over(p)
  /\ UNCHANGED <<certs, bundleFile, Lives, Past, View, pendingBundle, rejected, watcher>>

\* The destination can be written to: the order is placed.
PlaceOrder(p) ==
  /\ renewal[p].at = "judging" /\ Due(expires[p]) /\ pendingBundle[p] = 0 /\ Len(certs) < MaxCerts
  /\ renewal' = Set(renewal, p, Phase("ordering", 0))
  /\ wasteful' = IF Loadable(bundleFile, settled[p]) /\ ~Due(bundleFile)
               THEN wasteful \cup {p} ELSE wasteful
  /\ UNCHANGED <<Outside, Lives, everWritten, dropped, View, pendingBundle, rejected, watcher>>

\* Mutant: what was issued is retained only after it is published.
PendingLater(p, c) == pendingBundle

\* Issued material is retained before the publication is tried.
PendingAfter(p, c) == Set(pendingBundle, p, c)

BundleIssued(p) ==
  /\ renewal[p].at = "ordering" /\ Len(certs) < MaxCerts
  /\ certs' = Append(certs, [domains |-> settled[p], age |-> 0])
  /\ pendingBundle' = PendingAfter(p, Len(certs) + 1)
  /\ renewal' = Set(renewal, p, Phase("publishing", Len(certs) + 1))
  /\ UNCHANGED <<bundleFile, account, Lives, Past, View, rejected, watcher>>

\* Sink::publish: a synced temporary file is renamed over the bundle.
WriteBundle(p) ==
  /\ renewal[p].at = "publishing"
  /\ bundleFile' = renewal[p].cert /\ everWritten' = everWritten \cup {renewal[p].cert}
  /\ renewal' = Set(renewal, p, Phase("written", renewal[p].cert))
  /\ UNCHANGED <<certs, account, Lives, dropped, wasteful, View, pendingBundle, rejected, watcher>>

\* The write or the sync of the directory fails; the material is retained.
BundleFails(p) ==
  /\ renewal[p].at \in {"publishing", "written"}
  /\ Over(p)
  /\ UNCHANGED <<certs, bundleFile, Lives, Past, View, pendingBundle, rejected, watcher>>

AttemptDone(p) ==
  /\ renewal[p].at = "served"
  /\ loaded' = Set(loaded, p, renewal[p].cert) /\ expires' = Set(expires, p, renewal[p].cert)
  /\ pendingBundle' = Set(pendingBundle, p, 0)
  /\ Over(p)
  /\ UNCHANGED <<certs, bundleFile, Lives, Past, resolver, rejected, watcher>>

\* New settings cancel the operation's token.
Cancelled(p) ==
  /\ renewal[p].at = "ordering" /\ wanted[p] # settled[p]
  /\ Over(p)
  /\ UNCHANGED <<certs, bundleFile, Lives, Past, View, pendingBundle, rejected, watcher>>

-----------------------------------------------------------------------------
(* Time, other writers, and the processes' lives. *)

\* Certificates of one lifetime expire in the order they were issued.
Age(c) ==
  /\ c \in 1..Len(certs) /\ certs[c].age < 2
  /\ \A older \in 1..(c - 1) : certs[older].age > certs[c].age
  /\ certs' = [certs EXCEPT ![c].age = @ + 1]
  /\ UNCHANGED <<bundleFile, account, Lives, Past, View, Task>>

Spoil ==
  /\ bundleTroubles < MaxTroubles /\ bundleFile' = Spoiled /\ bundleTroubles' = bundleTroubles + 1
  /\ UNCHANGED <<certs, account, wanted, settled, running, Past, View, Task>>

\* stop, or a crash: the attempt is cancelled with the run loop, the lock and
\* the memory go.
ProcessEnds(p) ==
  /\ running[p] /\ bundleTroubles < MaxTroubles /\ bundleTroubles' = bundleTroubles + 1
  /\ running' = Set(running, p, FALSE) /\ Over(p)
  /\ dropped' = dropped \cup ({pendingBundle[p], renewal[p].cert} \ {0})
  /\ pendingBundle' = Set(pendingBundle, p, 0)
  /\ resolver' = Set(resolver, p, 0) /\ loaded' = Set(loaded, p, 0) /\ expires' = Set(expires, p, 0)
  /\ rejected' = Set(rejected, p, 0) /\ watcher' = Set(watcher, p, AtRest)
  /\ UNCHANGED <<certs, bundleFile, wanted, settled, everWritten, wasteful>>

\* Runtime::new and start: the settings are read and the bundle restored.
ProcessStarts(p) ==
  /\ ~running[p] /\ running' = Set(running, p, TRUE)
  /\ settled' = Set(settled, p, wanted[p]) /\ Restored(p, wanted[p])
  /\ UNCHANGED <<Outside, wanted, bundleTroubles, Past, Task>>

BundlesNext ==
  \/ Spoil
  \/ \E c \in 1..MaxCerts : Age(c)
  \/ \E p \in Instances :
       \/ WatchRead(p) \/ WatchRejects(p) \/ WatchStores(p) \/ WatchRecords(p)
       \/ Reconfigure(p) \/ StartAttempt(p) \/ AttemptReads(p)
       \/ AttemptStores(p) \/ AttemptRecords(p) \/ AlreadyCurrent(p) \/ PublishPending(p)
       \/ AttemptFails(p) \/ PlaceOrder(p) \/ BundleIssued(p) \/ WriteBundle(p) \/ BundleFails(p)
       \/ AttemptDone(p) \/ Cancelled(p) \/ ProcessEnds(p) \/ ProcessStarts(p)
       \/ \E domains \in DomainSets : SettingsChange(p, domains)

-----------------------------------------------------------------------------
(* Properties. *)

\* Across processes, failures and restarts (attempt_with, take_pending,
\* Sink::publish, watch_bundle): one order at a time is placed for the account;
\* none is placed while the bundle on disk is current and known to be; a
\* certificate the authority issued reaches the bundle or is retained until it
\* is stale, superseded or its process ended; and a resolver only ever holds a
\* certificate that was written to the bundle.
BundlesSound ==
  /\ Cardinality({p \in Instances : renewal[p].at \in {"ordering", "publishing"}}) <= 1
  /\ wasteful = {}
  /\ \A c \in 1..Len(certs) :
       c \in everWritten \/ c \in dropped \/ \E p \in Instances : pendingBundle[p] = c
  /\ \A p \in Instances : resolver[p] \in everWritten \cup {0}

-----------------------------------------------------------------------------
(* Both *)

AcmeVars == <<issuerVars, bundleVars>>
AcmeInit == IssuerInit /\ BundlesInit
AcmeNext == \/ IssuerNext /\ UNCHANGED bundleVars
            \/ BundlesNext /\ UNCHANGED issuerVars
AcmeSpec == AcmeInit /\ [][AcmeNext]_AcmeVars

\* An issued certificate is published or kept, never lost and never ordered
\* twice, across processes, crashes and restarts (hangang-acme-issuer.rs,
\* acme_runtime.rs; see IssuerSound and BundlesSound).
CertificatesKept == IssuerSound /\ BundlesSound
=============================================================================
