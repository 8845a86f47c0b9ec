----------------------- MODULE AcmeCertificatesProofs ------------------------
(***************************************************************************)
(* Certificates are neither lost nor ordered twice: CertificatesKept of      *)
(* module AcmeCertificates, for any number of issuers, gateways,             *)
(* certificates, account keys, crashes and changes of settings.              *)
(***************************************************************************)
EXTENDS AcmeCertificates, FiniteSetTheorems, TLAPS

----------------------------------------------------------------------------
(* The issuer: its inductive invariant *)

Steps == {"waiting", "locked", "registering", "registered", "engine", "ordering", "writing",
          "placed", "pointed"}

IssuerTypeOK ==
  /\ ages \in Seq(0..2) /\ directories \in Seq(SUBSET Files) /\ Len(directories) = Len(ages)
  /\ pointer \in 0..Len(ages) /\ keys \in Nat /\ accountFile.key \in 0..keys
  /\ registered \subseteq 1..keys /\ lockHolder \subseteq Issuers
  /\ work \in [Issuers -> [at : Steps, cert : Nat, key : Nat]]
  /\ \A i \in Issuers : work[i].key \in 0..keys /\ work[i].cert \in 0..Len(ages)

\* An attempt holds the account lock from its first step to its last.
AttemptLocked == \A i \in Issuers : work[i].at # "waiting" => lockHolder = {i}

\* What the pointer names, or is about to name, is complete; an attempt that
\* is on its way to an order has found nothing current.
GenerationInv ==
  /\ pointer # 0 => Complete(pointer)
  /\ hasty = {}
  /\ \A i \in Issuers :
       /\ work[i].at \in {"writing", "placed"} => work[i].cert # 0
       /\ work[i].at = "placed" => Complete(work[i].cert)
       /\ work[i].at \in {"registering", "registered", "engine"} => ~StillCurrent

\* The registrations that were heard of.
Known == registered \ orphaned

\* The authority knows the account of the file; while an attempt has an
\* account to persist, it knows that one and the file has no credentials.
AccountInv ==
  /\ accountFile.credentials => accountFile.key \in registered
  /\ ~eab => registered \subseteq {accountFile.key}
  /\ \A i \in Issuers :
       /\ work[i].at \in {"registering", "registered"} =>
            ~accountFile.credentials /\ work[i].key # 0 /\ (~eab => work[i].key = accountFile.key)
       /\ work[i].at = "registered" => work[i].key \in registered /\ Known \subseteq {work[i].key}
  /\ eab /\ (\A i \in Issuers : work[i].at # "registered") =>
       \A k \in Known : accountFile.credentials /\ k = accountFile.key

IssuerInv == IssuerTypeOK /\ AttemptLocked /\ GenerationInv /\ AccountInv

----------------------------------------------------------------------------
(* The runtime of a gateway: its inductive invariant *)

Phases == {"rest", "read", "stored", "locked", "reading", "judging", "ordering", "publishing",
           "written", "served"}
Loads == [at : Phases, cert : 0..Spoiled]

BundlesTypeOK ==
  /\ certs \in Seq([domains : DomainSets, age : 0..2]) /\ Len(certs) <= MaxCerts
  /\ bundleFile \in everWritten \cup {0, Spoiled}
  /\ everWritten \subseteq 1..MaxCerts
  /\ settled \in [Instances -> DomainSets] /\ wanted \in [Instances -> DomainSets]
  /\ resolver \in [Instances -> 0..Spoiled] /\ expires \in [Instances -> 0..Spoiled]
  /\ pendingBundle \in [Instances -> 0..Spoiled]
  /\ watcher \in [Instances -> Loads] /\ renewal \in [Instances -> Loads]
  /\ DOMAIN running = Instances

\* An attempt holds the account lock, and a process that has ended has none.
RenewalLocked(p) ==
  /\ renewal[p].at # "rest" => account = {p} /\ running[p]
  /\ renewal[p].at = "rest" => renewal[p] = AtRest
  /\ watcher[p].at = "rest" => watcher[p] = AtRest

\* What an attempt of process p, and the watcher beside it, may rely on.
AttemptKnows(p) ==
  /\ renewal[p].at \in {"locked", "reading", "stored", "judging"} =>
       watcher[p] = AtRest \/ bundleFile \in {watcher[p].cert, Spoiled}
  /\ renewal[p].at \in {"reading", "stored"} => bundleFile \in {renewal[p].cert, Spoiled}
  /\ renewal[p].at = "judging" =>
       (Loadable(bundleFile, settled[p]) => expires[p] = bundleFile)
  /\ renewal[p].at = "ordering" => pendingBundle[p] = 0
  /\ renewal[p].at \in {"publishing", "written", "served"} =>
       pendingBundle[p] = renewal[p].cert /\ renewal[p].cert # 0
  /\ renewal[p].at \in {"reading", "written", "served"} => renewal[p].cert \in everWritten

\* Whatever process p read or serves was written, and what it retains exists.
HoldsReal(p) ==
  /\ pendingBundle[p] \in 0..Len(certs)
  /\ resolver[p] \in everWritten \cup {0}
  /\ watcher[p].cert \in everWritten \cup {0, Spoiled}

ProcessInv(p) == RenewalLocked(p) /\ AttemptKnows(p) /\ HoldsReal(p)

\* A certificate was written, is retained, or was given up on.
Accounted ==
  \A c \in 1..Len(certs) :
    c \in everWritten \/ c \in dropped \/ \E p \in Instances : pendingBundle[p] = c

BundlesInv == BundlesTypeOK /\ wasteful = {} /\ Accounted /\ \A p \in Instances : ProcessInv(p)

----------------------------------------------------------------------------
(* The issuer: its steps *)

\* No certificate, no account and no attempt to begin with.
LEMMA IssuerInitHolds == IssuerInit => IssuerInv
<1> SUFFICES ASSUME IssuerInit PROVE IssuerInv
  OBVIOUS
<1>1. /\ ages = <<>> /\ directories = <<>> /\ pointer = 0 /\ registered = {} /\ keys = 0
      /\ accountFile = [key |-> 0, credentials |-> FALSE] /\ lockHolder = {}
      /\ \A i \in Issuers : work[i] = AtWait
      /\ work = [i \in Issuers |-> AtWait] /\ hasty = {} /\ orphaned = {}
  BY DEF IssuerInit
<1>2. IssuerTypeOK
  BY <1>1 DEF IssuerTypeOK, AtWait, Steps
<1> QED
  BY <1>1, <1>2 DEF IssuerInv, AttemptLocked, GenerationInv, AccountInv, Known, AtWait

\* The state an attempt depends on.
IssuerState == <<ages, directories, pointer, accountFile, registered, keys, lockHolder, work,
                 eab, hasty, orphaned>>

\* The issuer's invariant speaks of nothing beyond IssuerState.
LEMMA IssuerFrame ==
  ASSUME IssuerInv, UNCHANGED IssuerState
  PROVE  IssuerInv'
  BY DEF IssuerInv, IssuerState, IssuerTypeOK, AttemptLocked, GenerationInv, AccountInv, Known,
         Complete, StillCurrent, CurrentPair

\* A pair that is not current does not become so while the disk is left alone.
LEMMA StaysDue ==
  ASSUME IssuerTypeOK, ~StillCurrent, UNCHANGED Disk, DOMAIN ages' = DOMAIN ages,
         \A c \in DOMAIN ages : ages'[c] \in 0..2 /\ ages'[c] >= ages[c]
  PROVE  ~StillCurrent'
<1>1. Len(ages) \in Nat /\ DOMAIN ages = 1..Len(ages) /\ \A c \in DOMAIN ages : ages[c] \in 0..2
  BY DEF IssuerTypeOK
<1>2. Complete(pointer)' <=> Complete(pointer)
  BY DEF Complete, Disk
<1>3. pointer \in 0..Len(ages) /\ pointer' = pointer
  BY DEF IssuerTypeOK, Disk
<1>4. CASE pointer = 0
  BY <1>3, <1>4 DEF StillCurrent, CurrentPair
<1>5. CASE pointer # 0
  <2>1. pointer \in DOMAIN ages
    BY <1>1, <1>3, <1>5
  <2>2. CurrentPair = IF Complete(pointer) /\ ages[pointer] < 2 THEN pointer ELSE 0
    BY <1>5 DEF CurrentPair
  <2>3. CurrentPair' = IF Complete(pointer) /\ ages'[pointer] < 2 THEN pointer ELSE 0
    BY <1>5, <1>2, <1>3 DEF CurrentPair
  <2>4. ~(Complete(pointer) /\ ages[pointer] = 0)
    BY <1>1, <2>1, <2>2, <1>5 DEF StillCurrent
  <2> QED
    BY <1>1, <2>1, <2>3, <2>4, <1>3 DEF StillCurrent
<1> QED
  BY <1>4, <1>5

\* Whether a pair is current depends only on ages, directories and pointer.
LEMMA DueStays ==
  ASSUME IssuerTypeOK, UNCHANGED <<ages, directories, pointer>>
  PROVE  /\ StillCurrent' <=> StillCurrent
         /\ \A g : Complete(g)' <=> Complete(g)
  BY DEF StillCurrent, CurrentPair, Complete

\* An attempt ends: its process waits and its lock is free.
LEMMA IssueEndsKeeps ==
  ASSUME IssuerInv, NEW i \in Issuers, IssueEnds(i), UNCHANGED <<Disk, IssuerAuthority>>,
         hasty' = hasty,
         orphaned' = IF work[i].at = "registered" /\ eab THEN orphaned \cup {work[i].key} ELSE orphaned
  PROVE  IssuerInv'
<1>1. /\ ages' = ages /\ directories' = directories /\ pointer' = pointer /\ registered' = registered
      /\ keys' = keys /\ accountFile' = accountFile /\ eab' = eab
  BY DEF Disk, IssuerAuthority
<1>2. IssuerTypeOK /\ AttemptLocked /\ GenerationInv /\ AccountInv
  BY DEF IssuerInv
<1>3. work' = [work EXCEPT ![i] = AtWait] /\ lockHolder' = lockHolder \ {i}
  BY DEF IssueEnds
<1>4. /\ work' \in [Issuers -> [at : Steps, cert : Nat, key : Nat]]
      /\ work'[i] = AtWait /\ \A j \in Issuers \ {i} : work'[j] = work[j]
  <2>1. AtWait \in [at : Steps, cert : Nat, key : Nat]
    BY DEF AtWait, Steps
  <2> QED
    BY <1>2, <1>3, <2>1 DEF IssuerTypeOK
<1>5. IssuerTypeOK'
  BY <1>1, <1>2, <1>3, <1>4 DEF IssuerTypeOK, AtWait
<1>6. AttemptLocked'
  BY <1>2, <1>3, <1>4 DEF AttemptLocked, AtWait
<1>7. GenerationInv'
  <2>1. (StillCurrent' <=> StillCurrent) /\ \A g : Complete(g)' <=> Complete(g)
    BY <1>1, <1>2, DueStays
  <2>2. pointer' # 0 => Complete(pointer)'
    BY <1>1, <1>2, <2>1 DEF GenerationInv, Complete
  <2>3. ASSUME NEW j \in Issuers
        PROVE  /\ work'[j].at \in {"writing", "placed"} => work'[j].cert # 0
               /\ work'[j].at = "placed" => Complete(work[j].cert)'
               /\ work'[j].at \in {"registering", "registered", "engine"} => ~StillCurrent'
    BY <1>1, <1>2, <1>4, <2>1 DEF GenerationInv, AtWait
  <2> QED
    BY <1>2, <2>2, <2>3 DEF GenerationInv
<1>8. AccountInv'
  <2>2. ASSUME NEW j \in Issuers, work'[j].at \in {"registering", "registered"}
        PROVE  j # i /\ work'[j] = work[j] /\ work[i].at # "registered"
    BY <1>2, <1>4, <2>2 DEF AttemptLocked, AtWait
  <2>3. ASSUME NEW j \in Issuers, work'[j].at = "registered"
        PROVE  work'[j].key \in registered' /\ Known' \subseteq {work'[j].key}
    BY <1>1, <1>2, <2>2, <2>3 DEF AccountInv, Known
  <2>4. ASSUME eab, \A j \in Issuers : work'[j].at # "registered", NEW k \in Known'
        PROVE  accountFile.credentials /\ k = accountFile.key
    <3>1. CASE work[i].at = "registered"
      BY <1>1, <1>2, <2>4, <3>1 DEF AccountInv, Known
    <3>2. CASE work[i].at # "registered"
      <4>1. \A j \in Issuers : work[j].at # "registered"
        BY <2>4, <3>2, <1>4
      <4> QED
        BY <1>1, <1>2, <2>4, <3>2, <4>1 DEF AccountInv, Known
    <3> QED
      BY <3>1, <3>2
  <2>5. \A j \in Issuers : work'[j].at \in {"registering", "registered"} =>
          ~accountFile.credentials /\ work'[j].key # 0 /\ (~eab => work'[j].key = accountFile.key)
    BY <1>2, <2>2 DEF AccountInv
  <2>6. (accountFile.credentials => accountFile.key \in registered) /\ (~eab => registered \subseteq {accountFile.key})
    BY <1>2 DEF AccountInv
  <2> QED
    BY <1>1, <2>3, <2>4, <2>5, <2>6 DEF AccountInv
<1> QED
  BY <1>5, <1>6, <1>7, <1>8 DEF IssuerInv

Works == [at : Steps, cert : Nat, key : Nat]

\* A process that holds the lock, or takes it, moves to w: nobody else is at work.
LEMMA OneMoves ==
  ASSUME IssuerInv, NEW i \in Issuers, NEW w \in Works, work' = [work EXCEPT ![i] = w],
         lockHolder \in {{}, {i}}, lockHolder' = {i}
  PROVE  /\ work' \in [Issuers -> Works] /\ work'[i] = w
         /\ \A j \in Issuers \ {i} : work'[j] = work[j] /\ work[j].at = "waiting"
         /\ AttemptLocked' /\ lockHolder' \subseteq Issuers
<1>1. work \in [Issuers -> Works] /\ AttemptLocked
  BY DEF IssuerInv, IssuerTypeOK, Works
<1>2. work' \in [Issuers -> Works] /\ work'[i] = w /\ \A j \in Issuers \ {i} : work'[j] = work[j]
  BY <1>1
<1>3. \A j \in Issuers \ {i} : work[j].at = "waiting"
  BY <1>1 DEF AttemptLocked
<1> QED
  BY <1>2, <1>3 DEF AttemptLocked

\* One or two fields of an attempt change.
Takes(i, at, key) == work' = [work EXCEPT ![i].at = at, ![i].key = key]
Gets(i, at, cert) == work' = [work EXCEPT ![i].at = at, ![i].cert = cert]

\* A step that gives attempt i a phase and an account key, as one record.
LEMMA NewAccount ==
  ASSUME work \in [Issuers -> Works], NEW i \in Issuers, NEW at \in Steps, NEW key \in Nat,
         Takes(i, at, key)
  PROVE  \E w \in Works : /\ work' = [work EXCEPT ![i] = w]
                          /\ w.at = at /\ w.key = key /\ w.cert = work[i].cert
<1>1. PICK w : w = [work[i] EXCEPT !.at = at, !.key = key]
  OBVIOUS
<1>2. work' = [work EXCEPT ![i] = w]
  BY <1>1 DEF Takes
<1>3. w \in Works /\ w.at = at /\ w.key = key /\ w.cert = work[i].cert
  BY <1>1 DEF Works
<1> QED
  BY <1>2, <1>3

\* A step that gives attempt i a phase and a certificate, as one record.
LEMMA NewCertificate ==
  ASSUME work \in [Issuers -> Works], NEW i \in Issuers, NEW at \in Steps, NEW cert \in Nat,
         Gets(i, at, cert)
  PROVE  \E w \in Works : /\ work' = [work EXCEPT ![i] = w]
                          /\ w.at = at /\ w.key = work[i].key /\ w.cert = cert
<1>1. PICK w : w = [work[i] EXCEPT !.at = at, !.cert = cert]
  OBVIOUS
<1>2. work' = [work EXCEPT ![i] = w]
  BY <1>1 DEF Gets
<1>3. w \in Works /\ w.at = at /\ w.key = work[i].key /\ w.cert = cert
  BY <1>1 DEF Works
<1> QED
  BY <1>2, <1>3

\* A step that gives attempt i a phase only, as one record.
LEMMA NewStep ==
  ASSUME work \in [Issuers -> Works], NEW i \in Issuers, NEW at \in Steps, Goes(i, at)
  PROVE  \E w \in Works : /\ work' = [work EXCEPT ![i] = w]
                          /\ w.at = at /\ w.key = work[i].key /\ w.cert = work[i].cert
<1>1. PICK w : w = [work[i] EXCEPT !.at = at]
  OBVIOUS
<1>2. work' = [work EXCEPT ![i] = w]
  BY <1>1 DEF Goes
<1>3. w \in Works /\ w.at = at /\ w.key = work[i].key /\ w.cert = work[i].cert
  BY <1>1 DEF Works
<1> QED
  BY <1>2, <1>3

\* run_one's first step: the attempt that takes the free lock is the only one.
LEMMA BeginKeeps ==
  ASSUME IssuerInv, NEW i \in Issuers, BeginIssue(i)
  PROVE  IssuerInv'
<1>1. CASE lockHolder # {}
  BY <1>1, IssuerFrame DEF BeginIssue, IssuerState, Disk, IssuerAuthority, Ghosts
<1>2. CASE lockHolder = {}
  <2>1. /\ ages' = ages /\ directories' = directories /\ pointer' = pointer
        /\ registered' = registered /\ keys' = keys /\ accountFile' = accountFile /\ eab' = eab
        /\ hasty' = hasty /\ orphaned' = orphaned /\ lockHolder' = {i}
    BY <1>2 DEF BeginIssue, Disk, IssuerAuthority, Ghosts
  <2>2. IssuerTypeOK /\ GenerationInv /\ AccountInv
    BY DEF IssuerInv
  <2>3. work \in [Issuers -> Works] /\ "locked" \in Steps /\ Goes(i, "locked")
    BY <1>2, <2>2 DEF IssuerTypeOK, Works, Steps, BeginIssue
  <2>4. PICK w \in Works : /\ work' = [work EXCEPT ![i] = w]
                           /\ w.at = "locked" /\ w.cert = work[i].cert /\ w.key = work[i].key
    BY <2>3, NewStep
  <2>6. /\ work' \in [Issuers -> Works] /\ work'[i] = w
        /\ \A j \in Issuers \ {i} : work'[j] = work[j] /\ work[j].at = "waiting"
        /\ AttemptLocked' /\ lockHolder' \subseteq Issuers
    BY <1>2, <2>1, <2>4, OneMoves
  <2>7. IssuerTypeOK'
    BY <2>1, <2>2, <2>4, <2>6 DEF IssuerTypeOK, Works
  <2>8. GenerationInv'
    BY <2>1, <2>2, <2>4, <2>6 DEF GenerationInv, Complete
  <2>9. AccountInv'
    <3>1. work[i].at = "waiting"
      BY DEF BeginIssue
    <3> QED
      BY <2>1, <2>2, <2>4, <2>6, <3>1 DEF AccountInv, Known
  <2> QED
    BY <2>6, <2>7, <2>8, <2>9 DEF IssuerInv
<1> QED
  BY <1>1, <1>2

\* load_or_create_account: a key that is generated is new to the authority.
LEMMA LoadKeeps ==
  ASSUME IssuerInv, NEW i \in Issuers, LoadAccount(i)
  PROVE  IssuerInv'
<1>1. /\ ages' = ages /\ directories' = directories /\ pointer' = pointer
      /\ registered' = registered /\ eab' = eab /\ hasty' = hasty /\ orphaned' = orphaned
      /\ lockHolder' = lockHolder /\ work[i].at = "locked" /\ ~StillCurrent
  BY DEF LoadAccount, Disk, Ghosts
<1>2. IssuerTypeOK /\ GenerationInv /\ AccountInv /\ lockHolder = {i}
  BY <1>1 DEF IssuerInv, AttemptLocked
<1>3. PICK at : at = IF accountFile.key # 0 /\ accountFile.credentials THEN "engine" ELSE "registering"
  OBVIOUS
<1>4. /\ keys' \in Nat /\ keys' >= keys /\ accountFile'.key \in 0..keys'
      /\ accountFile.key # 0 => accountFile' = accountFile
      /\ accountFile.key = 0 => accountFile'.credentials = FALSE
      /\ accountFile'.key # 0
  BY <1>2 DEF LoadAccount, IssuerTypeOK
<1>5. PICK key : key = accountFile'.key
  OBVIOUS
<1>a. work \in [Issuers -> Works] /\ at \in Steps /\ key \in Nat
  BY <1>2, <1>3, <1>4, <1>5 DEF Steps, IssuerTypeOK, Works
<1>b. Takes(i, at, key)
  BY <1>3, <1>4, <1>5 DEF LoadAccount, Takes
<1>6. PICK w \in Works : /\ work' = [work EXCEPT ![i] = w]
                         /\ w.at = at /\ w.key = key /\ w.cert = work[i].cert
  BY <1>a, <1>b, NewAccount
<1>7. /\ work' \in [Issuers -> Works] /\ work'[i] = w
      /\ \A j \in Issuers \ {i} : work'[j] = work[j] /\ work[j].at = "waiting"
      /\ AttemptLocked' /\ lockHolder' \subseteq Issuers
  BY <1>1, <1>2, <1>6, OneMoves
<1>8. IssuerTypeOK'
  BY <1>1, <1>2, <1>3, <1>4, <1>5, <1>6, <1>7 DEF IssuerTypeOK, Works
<1>9. GenerationInv'
  <2>1. (StillCurrent' <=> StillCurrent) /\ \A g : Complete(g)' <=> Complete(g)
    BY <1>1, <1>2, DueStays
  <2>2. pointer' # 0 => Complete(pointer)'
    BY <1>1, <1>2 DEF GenerationInv, Complete
  <2> QED
    BY <1>1, <1>2, <1>3, <1>6, <1>7, <2>1, <2>2 DEF GenerationInv
<1>10. AccountInv'
  <2>1. accountFile.key = 0 => ~accountFile.credentials
    BY <1>2 DEF AccountInv, IssuerTypeOK
  <2>2. accountFile.key = 0 /\ ~eab => registered = {}
    BY <1>2 DEF AccountInv, IssuerTypeOK
  <2>3. \A j \in Issuers : work[j].at # "registered" /\ work'[j].at # "registered"
    BY <1>1, <1>3, <1>6, <1>7
  <2>4. \A k \in Known' : eab => accountFile.key # 0 /\ accountFile.credentials /\ k = accountFile.key
    BY <1>1, <1>2, <2>1, <2>3 DEF AccountInv, Known
  <2>5. ~accountFile'.credentials \/ (accountFile' = accountFile /\ accountFile.credentials)
    BY <1>4
  <2>6. CASE accountFile.key # 0
    BY <1>1, <1>2, <1>3, <1>4, <1>5, <1>6, <1>7, <2>3, <2>4, <2>6 DEF AccountInv, Known
  <2>7. CASE accountFile.key = 0
    BY <1>1, <1>2, <1>3, <1>4, <1>5, <1>6, <1>7, <2>2, <2>3, <2>4, <2>7 DEF AccountInv, Known
  <2> QED
    BY <2>6, <2>7
<1> QED
  BY <1>7, <1>8, <1>9, <1>10 DEF IssuerInv

\* AcmeEngine::new: a lost answer orphans only an externally bound key.
LEMMA RegisterKeeps ==
  ASSUME IssuerInv, NEW i \in Issuers, NEW answered \in BOOLEAN, Register(i, answered)
  PROVE  IssuerInv'
<1>1. /\ ages' = ages /\ directories' = directories /\ pointer' = pointer
      /\ accountFile' = accountFile /\ eab' = eab /\ hasty' = hasty /\ work[i].at = "registering"
  BY DEF Register, Disk
<1>2. IssuerTypeOK /\ GenerationInv /\ AccountInv /\ lockHolder = {i} /\ AttemptLocked
  BY <1>1 DEF IssuerInv, AttemptLocked
<1>3. PICK key : key = IF eab THEN keys + 1 ELSE work[i].key
  OBVIOUS
<1>4. ~accountFile.credentials /\ work[i].key # 0 /\ (~eab => work[i].key = accountFile.key)
  BY <1>1, <1>2 DEF AccountInv
<1>5. work[i].key \in 0..keys /\ keys \in Nat
  BY <1>2 DEF IssuerTypeOK
<1>6. keys' \in Nat /\ keys' >= keys /\ key \in 1..keys'
  BY <1>3, <1>4, <1>5 DEF Register
<1>7. registered' = registered \cup {key}
  BY <1>3 DEF Register
<1>8. eab => Known = {}
  <2>1. \A j \in Issuers : work[j].at # "registered"
    BY <1>1, <1>2 DEF AttemptLocked
  <2> QED
    BY <1>2, <1>4, <2>1 DEF AccountInv
<1>9. ~eab => registered' \subseteq {accountFile.key} /\ key = accountFile.key
  BY <1>2, <1>3, <1>4, <1>7 DEF AccountInv
<1>a. (StillCurrent' <=> StillCurrent) /\ \A g : Complete(g)' <=> Complete(g)
  BY <1>1, <1>2, DueStays
<1>b. pointer' # 0 => Complete(pointer)'
  BY <1>1, <1>2 DEF GenerationInv, Complete
<1>c. registered' \subseteq 1..keys' /\ accountFile'.key \in 0..keys'
  BY <1>1, <1>2, <1>6, <1>7 DEF IssuerTypeOK
<1>10. CASE answered
  <2>1. /\ Takes(i, "registered", key) /\ orphaned' = orphaned /\ lockHolder' = lockHolder
    BY <1>3, <1>10 DEF Register, Takes
  <2>2. work \in [Issuers -> Works] /\ "registered" \in Steps /\ key \in Nat
    BY <1>2, <1>6 DEF IssuerTypeOK, Works, Steps
  <2>3. PICK w \in Works : /\ work' = [work EXCEPT ![i] = w]
                           /\ w.at = "registered" /\ w.key = key /\ w.cert = work[i].cert
    BY <2>1, <2>2, NewAccount
  <2>4. /\ work' \in [Issuers -> Works] /\ work'[i] = w
        /\ \A j \in Issuers \ {i} : work'[j] = work[j] /\ work[j].at = "waiting"
        /\ AttemptLocked' /\ lockHolder' \subseteq Issuers
    BY <1>2, <2>1, <2>3, OneMoves
  <2>5. IssuerTypeOK'
    BY <1>1, <1>2, <1>6, <1>c, <2>3, <2>4 DEF IssuerTypeOK, Works
  <2>6. GenerationInv'
    BY <1>1, <1>2, <1>a, <1>b, <2>3, <2>4 DEF GenerationInv
  <2>7. AccountInv'
    <3>1. Known' \subseteq {key}
      BY <1>7, <1>8, <1>9, <2>1 DEF Known
    <3>2. key # 0 /\ key \in registered'
      BY <1>6, <1>7
    <3> QED
      BY <1>1, <1>4, <1>9, <2>3, <2>4, <3>1, <3>2 DEF AccountInv
  <2> QED
    BY <2>4, <2>5, <2>6, <2>7 DEF IssuerInv
<1>11. CASE ~answered
  <2>1. IssueEnds(i) /\ orphaned' = IF eab THEN orphaned \cup {key} ELSE orphaned
    BY <1>3, <1>11 DEF Register
  <2>2. AtWait \in Works /\ AtWait.at = "waiting" /\ AtWait.cert = 0 /\ AtWait.key = 0
    BY DEF AtWait, Works, Steps
  <2>3. /\ work' \in [Issuers -> Works] /\ work'[i] = AtWait /\ lockHolder' = {}
        /\ \A j \in Issuers \ {i} : work'[j] = work[j]
    BY <1>2, <2>1, <2>2 DEF IssueEnds, IssuerTypeOK, Works
  <2>4. \A j \in Issuers : work'[j].at = "waiting"
    BY <1>2, <2>2, <2>3 DEF AttemptLocked
  <2>5. IssuerTypeOK'
    <3>1. \A j \in Issuers : work[j].key \in 0..keys /\ work[j].cert \in 0..Len(ages)
      BY <1>2 DEF IssuerTypeOK
    <3>2. Len(ages) \in Nat
      BY <1>2 DEF IssuerTypeOK
    <3>3. \A j \in Issuers : work'[j].key \in 0..keys' /\ work'[j].cert \in 0..Len(ages)
      BY <1>5, <1>6, <2>2, <2>3, <3>1, <3>2
    <3> QED
      BY <1>1, <1>2, <1>6, <1>c, <2>3, <3>3 DEF IssuerTypeOK, Works
  <2>6. GenerationInv' /\ AttemptLocked'
    BY <1>1, <1>2, <1>b, <2>4 DEF GenerationInv, AttemptLocked
  <2>7. AccountInv'
    <3>1. eab => Known' = {}
      BY <1>7, <1>8, <2>1 DEF Known
    <3> QED
      BY <1>1, <1>4, <1>9, <2>4, <3>1 DEF AccountInv
  <2> QED
    BY <2>5, <2>6, <2>7 DEF IssuerInv
<1> QED
  BY <1>10, <1>11

\* persist_account_credentials: what is written was registered.
LEMMA PersistKeeps ==
  ASSUME IssuerInv, NEW i \in Issuers, PersistAccount(i)
  PROVE  IssuerInv'
<1>1. /\ ages' = ages /\ directories' = directories /\ pointer' = pointer /\ registered' = registered
      /\ keys' = keys /\ lockHolder' = lockHolder /\ eab' = eab /\ hasty' = hasty /\ orphaned' = orphaned
      /\ accountFile'.key = work[i].key /\ accountFile'.credentials /\ Goes(i, "engine")
      /\ work[i].at = "registered"
  BY DEF PersistAccount, Disk, Ghosts
<1>2. IssuerTypeOK /\ GenerationInv /\ AccountInv /\ lockHolder = {i}
  BY <1>1 DEF IssuerInv, AttemptLocked
<1>3. work \in [Issuers -> Works] /\ "engine" \in Steps
  BY <1>2 DEF IssuerTypeOK, Works, Steps
<1>4. PICK w \in Works : /\ work' = [work EXCEPT ![i] = w]
                         /\ w.at = "engine" /\ w.key = work[i].key /\ w.cert = work[i].cert
  BY <1>1, <1>3, NewStep
<1>5. /\ work' \in [Issuers -> Works] /\ work'[i] = w
      /\ \A j \in Issuers \ {i} : work'[j] = work[j] /\ work[j].at = "waiting"
      /\ AttemptLocked' /\ lockHolder' \subseteq Issuers
  BY <1>1, <1>2, <1>4, OneMoves
<1>6. IssuerTypeOK'
  BY <1>1, <1>2, <1>4, <1>5 DEF IssuerTypeOK, Works
<1>7. GenerationInv'
  <2>1. (StillCurrent' <=> StillCurrent) /\ \A g : Complete(g)' <=> Complete(g)
    BY <1>1, <1>2, DueStays
  <2>2. pointer' # 0 => Complete(pointer)'
    BY <1>1, <1>2 DEF GenerationInv, Complete
  <2> QED
    BY <1>1, <1>2, <1>4, <1>5, <2>1, <2>2 DEF GenerationInv
<1>8. AccountInv'
  BY <1>1, <1>2, <1>4, <1>5 DEF AccountInv, Known
<1> QED
  BY <1>5, <1>6, <1>7, <1>8 DEF IssuerInv

\* The order: the attempt found nothing current, and nothing became current since.
LEMMA OrderKeeps ==
  ASSUME IssuerInv, NEW i \in Issuers, IssuerOrder(i)
  PROVE  IssuerInv'
<1>1. /\ ages' = ages /\ directories' = directories /\ pointer' = pointer /\ registered' = registered
      /\ keys' = keys /\ accountFile' = accountFile /\ lockHolder' = lockHolder /\ eab' = eab
      /\ orphaned' = orphaned /\ Goes(i, "ordering") /\ work[i].at = "engine"
  BY DEF IssuerOrder, Disk, IssuerAuthority
<1>2. IssuerTypeOK /\ GenerationInv /\ AccountInv /\ lockHolder = {i}
  BY <1>1 DEF IssuerInv, AttemptLocked
<1>3. work \in [Issuers -> Works] /\ "ordering" \in Steps
  BY <1>2 DEF IssuerTypeOK, Works, Steps
<1>4. PICK w \in Works : /\ work' = [work EXCEPT ![i] = w]
                         /\ w.at = "ordering" /\ w.key = work[i].key /\ w.cert = work[i].cert
  BY <1>1, <1>3, NewStep
<1>5. /\ work' \in [Issuers -> Works] /\ work'[i] = w
      /\ \A j \in Issuers \ {i} : work'[j] = work[j] /\ work[j].at = "waiting"
      /\ AttemptLocked' /\ lockHolder' \subseteq Issuers
  BY <1>1, <1>2, <1>4, OneMoves
<1>6. IssuerTypeOK'
  BY <1>1, <1>2, <1>4, <1>5 DEF IssuerTypeOK, Works
<1>7. GenerationInv'
  <2>1. hasty' = {}
    BY <1>1, <1>2 DEF GenerationInv, IssuerOrder
  <2>2. pointer' # 0 => Complete(pointer)'
    BY <1>1, <1>2 DEF GenerationInv, Complete
  <2> QED
    BY <1>4, <1>5, <2>1, <2>2 DEF GenerationInv
<1>8. AccountInv'
  BY <1>1, <1>2, <1>4, <1>5 DEF AccountInv, Known
<1> QED
  BY <1>5, <1>6, <1>7, <1>8 DEF IssuerInv

\* An issued certificate's generation is new, so no pointer names it.
LEMMA ObtainsKeeps ==
  ASSUME IssuerInv, NEW i \in Issuers, Obtains(i)
  PROVE  IssuerInv'
<1>1. /\ pointer' = pointer /\ registered' = registered /\ keys' = keys /\ accountFile' = accountFile
      /\ eab' = eab /\ lockHolder' = lockHolder /\ hasty' = hasty /\ orphaned' = orphaned
      /\ ages' = Append(ages, 0) /\ directories' = Append(directories, {})
      /\ Gets(i, "writing", Len(ages) + 1) /\ work[i].at = "ordering"
  BY DEF Obtains, Ghosts, Gets
<1>2. IssuerTypeOK /\ GenerationInv /\ AccountInv /\ lockHolder = {i}
  BY <1>1 DEF IssuerInv, AttemptLocked
<1>3. work \in [Issuers -> Works] /\ "writing" \in Steps /\ Len(ages) + 1 \in Nat
  BY <1>2 DEF IssuerTypeOK, Works, Steps
<1>4. PICK w \in Works : /\ work' = [work EXCEPT ![i] = w]
                         /\ w.at = "writing" /\ w.key = work[i].key /\ w.cert = Len(ages) + 1
  BY <1>1, <1>3, NewCertificate
<1>5. /\ work' \in [Issuers -> Works] /\ work'[i] = w
      /\ \A j \in Issuers \ {i} : work'[j] = work[j] /\ work[j].at = "waiting"
      /\ AttemptLocked' /\ lockHolder' \subseteq Issuers
  BY <1>1, <1>2, <1>4, OneMoves
<1>6. /\ ages' \in Seq(0..2) /\ directories' \in Seq(SUBSET Files)
      /\ Len(ages') = Len(ages) + 1 /\ Len(directories') = Len(ages) + 1 /\ Len(ages) \in Nat
      /\ \A g \in DOMAIN directories : g \in DOMAIN directories' /\ directories'[g] = directories[g]
  <2>1. 0 \in 0..2 /\ {} \in SUBSET Files
    OBVIOUS
  <2> QED
    BY <1>1, <1>2, <2>1 DEF IssuerTypeOK
<1>7. IssuerTypeOK'
  BY <1>1, <1>2, <1>4, <1>5, <1>6 DEF IssuerTypeOK, Works
<1>8. GenerationInv'
  <2>1. pointer' # 0 => Complete(pointer)'
    BY <1>1, <1>2, <1>6 DEF GenerationInv, Complete
  <2> QED
    BY <1>1, <1>2, <1>4, <1>5, <1>6, <2>1 DEF GenerationInv
<1>9. AccountInv'
  BY <1>1, <1>2, <1>4, <1>5 DEF AccountInv, Known
<1> QED
  BY <1>5, <1>7, <1>8, <1>9 DEF IssuerInv

\* The rename of a generation directory completes it.
LEMMA PlaceKeeps ==
  ASSUME IssuerInv, NEW i \in Issuers, PlaceGeneration(i)
  PROVE  IssuerInv'
<1>1. /\ ages' = ages /\ pointer' = pointer /\ registered' = registered /\ keys' = keys
      /\ accountFile' = accountFile /\ eab' = eab /\ lockHolder' = lockHolder /\ hasty' = hasty
      /\ orphaned' = orphaned /\ directories' = [directories EXCEPT ![work[i].cert] = Files]
      /\ Goes(i, "placed") /\ work[i].at = "writing"
  BY DEF PlaceGeneration, Ghosts, IssuerAuthority
<1>2. IssuerTypeOK /\ GenerationInv /\ AccountInv /\ lockHolder = {i}
  BY <1>1 DEF IssuerInv, AttemptLocked
<1>3. work \in [Issuers -> Works] /\ "placed" \in Steps
  BY <1>2 DEF IssuerTypeOK, Works, Steps
<1>4. PICK w \in Works : /\ work' = [work EXCEPT ![i] = w]
                         /\ w.at = "placed" /\ w.key = work[i].key /\ w.cert = work[i].cert
  BY <1>1, <1>3, NewStep
<1>5. /\ work' \in [Issuers -> Works] /\ work'[i] = w
      /\ \A j \in Issuers \ {i} : work'[j] = work[j] /\ work[j].at = "waiting"
      /\ AttemptLocked' /\ lockHolder' \subseteq Issuers
  BY <1>1, <1>2, <1>4, OneMoves
<1>6. /\ directories' \in Seq(SUBSET Files) /\ Len(directories') = Len(directories)
      /\ DOMAIN directories' = DOMAIN directories
      /\ work[i].cert \in DOMAIN directories /\ directories'[work[i].cert] = Files
      /\ \A g \in DOMAIN directories : directories[g] = Files => directories'[g] = Files
  <2>1. work[i].cert \in 1..Len(directories) /\ directories \in Seq(SUBSET Files)
    BY <1>1, <1>2 DEF IssuerTypeOK, GenerationInv
  <2> QED
    BY <1>1, <2>1
<1>7. IssuerTypeOK'
  BY <1>1, <1>2, <1>4, <1>5, <1>6 DEF IssuerTypeOK, Works
<1>8. GenerationInv'
  <2>1. pointer' # 0 => Complete(pointer)'
    BY <1>1, <1>2, <1>6 DEF GenerationInv, Complete
  <2>2. w.cert # 0
    BY <1>1, <1>2, <1>4 DEF GenerationInv
  <2>3. work'[i].cert = work[i].cert
    BY <1>4, <1>5
  <2>4. Complete(work[i].cert)'
    BY <1>6, <2>3 DEF Complete
  <2> QED
    BY <1>1, <1>2, <1>4, <1>5, <2>1, <2>2, <2>4 DEF GenerationInv
<1>9. AccountInv'
  BY <1>1, <1>2, <1>4, <1>5 DEF AccountInv, Known
<1> QED
  BY <1>5, <1>7, <1>8, <1>9 DEF IssuerInv

\* The pointer moves to a generation that is complete.
LEMMA PointKeeps ==
  ASSUME IssuerInv, NEW i \in Issuers, Point(i)
  PROVE  IssuerInv'
<1>1. /\ ages' = ages /\ directories' = directories /\ registered' = registered /\ keys' = keys
      /\ accountFile' = accountFile /\ eab' = eab /\ lockHolder' = lockHolder /\ hasty' = hasty
      /\ orphaned' = orphaned /\ pointer' = work[i].cert
      /\ Goes(i, "pointed") /\ work[i].at = "placed"
  BY DEF Point, Placed, Ghosts, IssuerAuthority
<1>2. IssuerTypeOK /\ GenerationInv /\ AccountInv /\ lockHolder = {i}
  BY <1>1 DEF IssuerInv, AttemptLocked
<1>3. work \in [Issuers -> Works] /\ "pointed" \in Steps
  BY <1>2 DEF IssuerTypeOK, Works, Steps
<1>4. PICK w \in Works : /\ work' = [work EXCEPT ![i] = w]
                         /\ w.at = "pointed" /\ w.key = work[i].key /\ w.cert = work[i].cert
  BY <1>1, <1>3, NewStep
<1>5. /\ work' \in [Issuers -> Works] /\ work'[i] = w
      /\ \A j \in Issuers \ {i} : work'[j] = work[j] /\ work[j].at = "waiting"
      /\ AttemptLocked' /\ lockHolder' \subseteq Issuers
  BY <1>1, <1>2, <1>4, OneMoves
<1>6. IssuerTypeOK'
  BY <1>1, <1>2, <1>4, <1>5 DEF IssuerTypeOK, Works
<1>7. GenerationInv'
  <2>1. Complete(work[i].cert)
    BY <1>1, <1>2 DEF GenerationInv
  <2>2. Complete(pointer)'
    BY <1>1, <2>1 DEF Complete
  <2> QED
    BY <1>1, <1>2, <1>4, <1>5, <2>2 DEF GenerationInv
<1>8. AccountInv'
  BY <1>1, <1>2, <1>4, <1>5 DEF AccountInv, Known
<1> QED
  BY <1>5, <1>6, <1>7, <1>8 DEF IssuerInv

\* Ageing makes no pair current that was not.
LEMMA GrowOldKeeps ==
  ASSUME IssuerInv, NEW c, GrowOld(c)
  PROVE  IssuerInv'
<1>1. /\ directories' = directories /\ pointer' = pointer /\ registered' = registered /\ keys' = keys
      /\ accountFile' = accountFile /\ eab' = eab /\ lockHolder' = lockHolder /\ work' = work
      /\ hasty' = hasty /\ orphaned' = orphaned
      /\ c \in DOMAIN ages /\ ages[c] < 2 /\ ages' = [ages EXCEPT ![c] = ages[c] + 1]
  BY DEF GrowOld, Disk, Ghosts
<1>2. IssuerTypeOK /\ AttemptLocked /\ GenerationInv /\ AccountInv
  BY DEF IssuerInv
<1>3. /\ ages' \in Seq(0..2) /\ Len(ages') = Len(ages) /\ DOMAIN ages' = DOMAIN ages
      /\ \A d \in DOMAIN ages : ages'[d] \in 0..2 /\ ages'[d] >= ages[d]
  <2>1. ages \in Seq(0..2) /\ ages[c] + 1 \in 0..2
    BY <1>1, <1>2 DEF IssuerTypeOK
  <2>2. ages' \in Seq(0..2) /\ Len(ages') = Len(ages) /\ DOMAIN ages' = DOMAIN ages
    BY <1>1, <2>1
  <2>3. \A d \in DOMAIN ages : ages[d] \in 0..2 /\ ages'[d] = IF d = c THEN ages[d] + 1 ELSE ages[d]
    BY <1>1, <2>1
  <2> QED
    BY <1>1, <2>1, <2>2, <2>3
<1>4. IssuerTypeOK' /\ AttemptLocked'
  BY <1>1, <1>2, <1>3 DEF IssuerTypeOK, AttemptLocked
<1>5. GenerationInv'
  <2>1. ~StillCurrent => ~StillCurrent'
    BY <1>1, <1>2, <1>3, StaysDue DEF Disk
  <2>2. (pointer' # 0 => Complete(pointer)') /\ \A i \in Issuers : Complete(work[i].cert) => Complete(work[i].cert)'
    BY <1>1, <1>2 DEF GenerationInv, Complete
  <2> QED
    BY <1>1, <1>2, <2>1, <2>2 DEF GenerationInv
<1>6. AccountInv'
  BY <1>1, <1>2 DEF AccountInv, Known
<1> QED
  BY <1>4, <1>5, <1>6 DEF IssuerInv

\* Every step of the issuers keeps their invariant.
LEMMA IssuerKeeps == IssuerInv /\ [IssuerNext]_issuerVars => IssuerInv'
<1> SUFFICES ASSUME IssuerInv, [IssuerNext]_issuerVars PROVE IssuerInv'
  OBVIOUS
<1>1. CASE UNCHANGED issuerVars
  BY <1>1, IssuerFrame DEF issuerVars, IssuerState
<1>2. ASSUME NEW c \in 1..IssueLimit, GrowOld(c) PROVE IssuerInv'
  BY <1>2, GrowOldKeeps
<1>3. ASSUME NEW i \in Issuers, NothingDue(i) PROVE IssuerInv'
  BY <1>3, IssueEndsKeeps DEF NothingDue, Ghosts
<1>4. ASSUME NEW i \in Issuers, AttemptSucceeds(i) PROVE IssuerInv'
  BY <1>4, IssueEndsKeeps DEF AttemptSucceeds, Ghosts
<1>5. ASSUME NEW i \in Issuers, NEW phase \in {"retrying", "cancelled"}, AttemptEnds(i, phase)
      PROVE  IssuerInv'
  BY <1>5, IssueEndsKeeps DEF AttemptEnds, Ghosts
<1>6. ASSUME NEW i \in Issuers, IssuerCrash(i) PROVE IssuerInv'
  BY <1>6, IssueEndsKeeps DEF IssuerCrash
<1>7. ASSUME NEW i \in Issuers, IssuerFileChanges(i) \/ AdoptSettings(i) \/ Refuse(i) \/ Heartbeat(i)
      PROVE  IssuerInv'
  <2>1. UNCHANGED IssuerState
    BY <1>7 DEF IssuerFileChanges, AdoptSettings, Refuse, Heartbeat, IssuerState, Disk,
                IssuerAuthority, Ghosts
  <2> QED
    BY <2>1, IssuerFrame
<1> QED
  BY <1>1, <1>2, <1>3, <1>4, <1>5, <1>6, <1>7, BeginKeeps, LoadKeeps, RegisterKeeps, PersistKeeps,
     OrderKeeps, ObtainsKeeps, PlaceKeeps, PointKeeps DEF IssuerNext

\* A set within a singleton has at most one element.
LEMMA AtMostOne ==
  ASSUME NEW S, NEW x, S \subseteq {x}
  PROVE  Cardinality(S) <= 1
<1>1. IsFiniteSet({x}) /\ Cardinality({x}) = 1
  BY FS_Singleton
<1> QED
  BY <1>1, FS_Subset

\* The issuers' invariant implies what the runs check of them.
LEMMA IssuerInvSound == IssuerInv => IssuerSound
<1> SUFFICES ASSUME IssuerInv PROVE IssuerSound
  OBVIOUS
<1>1. AttemptLocked /\ GenerationInv /\ AccountInv
  BY DEF IssuerInv
<1>2. PICK S : S = {i \in Issuers : work[i].at \in {"ordering", "writing", "placed"}}
  OBVIOUS
<1>3. Cardinality(S) <= 1
  <2>1. CASE S = {}
    BY <2>1, AtMostOne
  <2>2. CASE S # {}
    <3>1. PICK i : i \in S
      BY <2>2
    <3>2. S \subseteq {i}
      BY <1>1, <1>2, <3>1 DEF AttemptLocked
    <3> QED
      BY <3>2, AtMostOne
  <2> QED
    BY <2>1, <2>2
<1>4. Cardinality(Known) <= 1
  <2>1. CASE \E i \in Issuers : work[i].at = "registered"
    <3>1. PICK i \in Issuers : work[i].at = "registered"
      BY <2>1
    <3>2. Known \subseteq {work[i].key}
      BY <1>1, <3>1 DEF AccountInv
    <3> QED
      BY <3>2, AtMostOne
  <2>2. CASE \A i \in Issuers : work[i].at # "registered"
    <3>1. Known \subseteq {accountFile.key}
      BY <1>1, <2>2 DEF AccountInv, Known
    <3> QED
      BY <3>1, AtMostOne
  <2> QED
    BY <2>1, <2>2
<1> QED
  BY <1>1, <1>2, <1>3, <1>4 DEF IssuerSound, GenerationInv, AccountInv, Known

----------------------------------------------------------------------------
(* The runtime of a gateway: its steps *)

\* The mark of an unusable file is no certificate.
LEMMA SpoiledReal ==
  Spoiled \in Nat /\ Spoiled \notin 1..MaxCerts /\ Spoiled # 0 /\ 0 \in 0..Spoiled
  BY AcmeBundlesAssumption DEF Spoiled

\* No certificate, no bundle and no attempt to begin with.
LEMMA BundlesInitHolds == BundlesInit => BundlesInv
<1> SUFFICES ASSUME BundlesInit PROVE BundlesInv
  OBVIOUS
<1>1. (CHOOSE domains \in DomainSets : TRUE) \in DomainSets
  BY AcmeBundlesAssumption
<1>2. AtRest \in Loads /\ AtRest.at = "rest" /\ AtRest.cert = 0
  BY SpoiledReal DEF AtRest, Loads, Phases
<1>3. /\ certs = <<>> /\ bundleFile = 0 /\ everWritten = {} /\ wasteful = {}
      /\ wanted = [p \in Instances |-> CHOOSE domains \in DomainSets : TRUE] /\ settled = wanted
      /\ resolver = [p \in Instances |-> 0] /\ expires = resolver /\ pendingBundle = resolver
      /\ watcher = [p \in Instances |-> AtRest] /\ renewal = watcher
      /\ running = [p \in Instances |-> TRUE]
  BY DEF BundlesInit
<1>4. BundlesTypeOK
  BY <1>1, <1>2, <1>3, SpoiledReal, AcmeBundlesAssumption DEF BundlesTypeOK
<1>5. Accounted
  BY <1>3 DEF Accounted
<1>6. ASSUME NEW p \in Instances PROVE ProcessInv(p)
  BY <1>2, <1>3 DEF ProcessInv, RenewalLocked, AttemptKnows, HoldsReal
<1> QED
  BY <1>3, <1>4, <1>5, <1>6 DEF BundlesInv

\* What was read and can be loaded was written.
LEMMA LoadableWritten ==
  ASSUME BundlesTypeOK, NEW c \in everWritten \cup {0, Spoiled}, NEW domains, Loadable(c, domains)
  PROVE  c \in everWritten /\ c # 0 /\ c # Spoiled
<1>1. Len(certs) \in Nat /\ Len(certs) <= MaxCerts /\ MaxCerts \in Nat
  BY AcmeBundlesAssumption DEF BundlesTypeOK
<1>2. c \in 1..Len(certs)
  BY DEF Loadable
<1> QED
  BY <1>1, <1>2 DEF Spoiled

\* Process p moves, the others do not.
OnlyProcess(p) ==
  \A q \in Instances \ {p} :
    /\ watcher'[q] = watcher[q] /\ renewal'[q] = renewal[q] /\ settled'[q] = settled[q]
    /\ expires'[q] = expires[q] /\ pendingBundle'[q] = pendingBundle[q]
    /\ resolver'[q] = resolver[q] /\ running'[q] = running[q]

\* p leaves the lock alone, takes it when it is free, or gives it up.
LockMoves(p) == account' \in {account, account \ {p}} \/ (account = {} /\ account' = {p})

\* The certificates and the bundle stay, or p has the lock.
FileMoves(p) == (certs' = certs /\ bundleFile' = bundleFile) \/ account = {p}

\* Process p's step disturbs no other: their attempts rest while p has the lock.
LEMMA OthersKept ==
  ASSUME BundlesInv, NEW p \in Instances, OnlyProcess(p), LockMoves(p), FileMoves(p),
         everWritten \subseteq everWritten', Len(certs) \in Nat, Len(certs') \in Nat,
         Len(certs') >= Len(certs)
  PROVE  \A q \in Instances \ {p} : ProcessInv(q)'
<1> SUFFICES ASSUME NEW q \in Instances \ {p} PROVE ProcessInv(q)'
  OBVIOUS
<1>1. RenewalLocked(q) /\ AttemptKnows(q) /\ HoldsReal(q)
  BY DEF BundlesInv, ProcessInv
<1>2. /\ watcher'[q] = watcher[q] /\ renewal'[q] = renewal[q] /\ settled'[q] = settled[q]
      /\ expires'[q] = expires[q] /\ pendingBundle'[q] = pendingBundle[q]
      /\ resolver'[q] = resolver[q] /\ running'[q] = running[q]
  BY DEF OnlyProcess
<1>3. RenewalLocked(q)'
  <2>1. account = {q} => account' = {q}
    BY DEF LockMoves
  <2> QED
    BY <1>1, <1>2, <2>1 DEF RenewalLocked
<1>4. AttemptKnows(q)'
  <2>1. CASE renewal[q].at = "rest"
    BY <1>2, <2>1 DEF AttemptKnows
  <2>2. CASE renewal[q].at # "rest"
    <3>1. certs' = certs /\ bundleFile' = bundleFile
      BY <1>1, <2>2 DEF RenewalLocked, FileMoves
    <3>2. Loadable(bundleFile, settled[q])' <=> Loadable(bundleFile, settled[q])
      BY <1>2, <3>1 DEF Loadable
    <3> QED
      BY <1>1, <1>2, <3>1, <3>2 DEF AttemptKnows
  <2> QED
    BY <2>1, <2>2
<1>5. HoldsReal(q)'
  BY <1>1, <1>2 DEF HoldsReal
<1> QED
  BY <1>3, <1>4, <1>5 DEF ProcessInv

\* What the invariant says of one process, by name.
LEMMA ProcessFacts ==
  ASSUME BundlesInv, NEW p \in Instances
  PROVE  /\ BundlesTypeOK /\ wasteful = {} /\ Accounted
         /\ RenewalLocked(p) /\ AttemptKnows(p) /\ HoldsReal(p)
         /\ renewal[p].at \in Phases /\ renewal[p].cert \in 0..Spoiled
         /\ watcher[p].at \in Phases /\ watcher[p].cert \in 0..Spoiled
         /\ resolver[p] \in 0..Spoiled /\ expires[p] \in 0..Spoiled
         /\ pendingBundle[p] \in 0..Spoiled /\ settled[p] \in DomainSets
         /\ wanted[p] \in DomainSets /\ Len(certs) \in Nat
         /\ watcher \in [Instances -> Loads] /\ renewal \in [Instances -> Loads]
         /\ resolver \in [Instances -> 0..Spoiled] /\ expires \in [Instances -> 0..Spoiled]
         /\ pendingBundle \in [Instances -> 0..Spoiled]
         /\ bundleFile \in everWritten \cup {0, Spoiled} /\ bundleFile \in 0..Spoiled
<1>1. BundlesTypeOK /\ wasteful = {} /\ Accounted /\ ProcessInv(p)
  BY DEF BundlesInv
<1>2. renewal[p] \in Loads /\ watcher[p] \in Loads
  BY <1>1 DEF BundlesTypeOK
<1>3. Len(certs) \in Nat /\ everWritten \subseteq 1..MaxCerts /\ bundleFile \in everWritten \cup {0, Spoiled}
  BY <1>1 DEF BundlesTypeOK
<1>4. bundleFile \in 0..Spoiled
  BY <1>3, AcmeBundlesAssumption DEF Spoiled
<1> QED
  BY <1>1, <1>2, <1>3, <1>4 DEF BundlesTypeOK, ProcessInv, Loads

\* A step of process p that issues no certificate: what is left to show.
LEMMA ProcessMoves ==
  ASSUME BundlesInv, NEW p \in Instances, OnlyProcess(p), LockMoves(p), certs' = certs,
         bundleFile' = bundleFile \/ account = {p},
         everWritten \subseteq everWritten', dropped \subseteq dropped', wasteful' = {},
         \/ pendingBundle'[p] = pendingBundle[p]
         \/ pendingBundle[p] \in everWritten' \cup dropped' \cup {0},
         BundlesTypeOK', ProcessInv(p)'
  PROVE  BundlesInv'
<1>1. Len(certs) \in Nat
  BY ProcessFacts
<1>2. \A q \in Instances \ {p} : ProcessInv(q)'
  BY <1>1, OthersKept DEF FileMoves
<1>3. Accounted'
  <2> SUFFICES ASSUME NEW c \in 1..Len(certs)
               PROVE  c \in everWritten' \/ c \in dropped' \/ \E q \in Instances : pendingBundle'[q] = c
    BY DEF Accounted
  <2>1. c \in everWritten \/ c \in dropped \/ \E q \in Instances : pendingBundle[q] = c
    BY ProcessFacts DEF Accounted
  <2>2. ASSUME NEW q \in Instances, pendingBundle[q] = c
        PROVE  c \in everWritten' \/ c \in dropped' \/ pendingBundle'[q] = c
    <3>1. c # 0
      BY <1>1
    <3>2. CASE q = p
      BY <2>2, <3>1, <3>2
    <3>3. CASE q # p
      BY <2>2, <3>3 DEF OnlyProcess
    <3> QED
      BY <3>2, <3>3
  <2> QED
    BY <2>1, <2>2
<1> QED
  BY <1>2, <1>3 DEF BundlesInv

\* Replacing what one process has.
LEMMA CertMoves ==
  ASSUME NEW f \in [Instances -> 0..Spoiled], NEW p \in Instances, NEW v \in 0..Spoiled,
         NEW g, g = Set(f, p, v)
  PROVE  /\ g \in [Instances -> 0..Spoiled] /\ g[p] = v
         /\ \A q \in Instances \ {p} : g[q] = f[q]
  BY DEF Set

\* Replacing the settings of one process.
LEMMA SettingMoves ==
  ASSUME NEW f \in [Instances -> DomainSets], NEW p \in Instances, NEW v \in DomainSets,
         NEW g, g = Set(f, p, v)
  PROVE  /\ g \in [Instances -> DomainSets] /\ g[p] = v
         /\ \A q \in Instances \ {p} : g[q] = f[q]
  BY DEF Set

\* The watcher, or the attempt, that rests.
LEMMA RestLoads == AtRest \in Loads /\ AtRest.at = "rest" /\ AtRest.cert = 0
  BY SpoiledReal DEF AtRest, Loads, Phases

\* One process's watcher or attempt enters a phase, or comes to rest.
LEMMA LoadMoves ==
  ASSUME NEW f \in [Instances -> Loads], NEW p \in Instances, NEW at \in Phases,
         NEW c \in 0..Spoiled, NEW g, g = Set(f, p, Phase(at, c))
  PROVE  /\ g \in [Instances -> Loads] /\ g[p].at = at /\ g[p].cert = c
         /\ \A q \in Instances \ {p} : g[q] = f[q]
<1>1. Phase(at, c) \in Loads /\ Phase(at, c).at = at /\ Phase(at, c).cert = c
  BY DEF Phase, Loads
<1> QED
  BY <1>1 DEF Set

\* Process p's watcher or attempt comes to rest.
LEMMA LoadRests ==
  ASSUME NEW f \in [Instances -> Loads], NEW p \in Instances, NEW g, g = Set(f, p, AtRest)
  PROVE  /\ g \in [Instances -> Loads] /\ g[p] = AtRest /\ g[p].at = "rest" /\ g[p].cert = 0
         /\ \A q \in Instances \ {p} : g[q] = f[q]
  BY RestLoads DEF Set

\* watch_bundle reads what the file holds now.
LEMMA WatchReadKeeps ==
  ASSUME BundlesInv, NEW p \in Instances, WatchRead(p)
  PROVE  BundlesInv'
<1>1. /\ watcher' = Set(watcher, p, Phase("read", bundleFile))
      /\ UNCHANGED <<certs, bundleFile, account, wanted, settled, running, everWritten, dropped,
                     wasteful, resolver, expires, pendingBundle, renewal>>
  BY DEF WatchRead, Outside, Lives, Past, View
<1>2. watcher \in [Instances -> Loads] /\ "read" \in Phases /\ bundleFile \in 0..Spoiled
  BY ProcessFacts DEF Phases
<1>3. /\ watcher' \in [Instances -> Loads] /\ watcher'[p].at = "read"
      /\ watcher'[p].cert = bundleFile /\ \A q \in Instances \ {p} : watcher'[q] = watcher[q]
  BY <1>1, <1>2, LoadMoves
<1>4. OnlyProcess(p) /\ LockMoves(p)
  BY <1>1, <1>3 DEF OnlyProcess, LockMoves
<1>5. BundlesTypeOK'
  BY <1>1, <1>3, ProcessFacts DEF BundlesTypeOK
<1>6. ProcessInv(p)'
  BY <1>1, <1>3, ProcessFacts DEF ProcessInv, RenewalLocked, AttemptKnows, HoldsReal, Loadable
<1> QED
  BY <1>1, <1>4, <1>5, <1>6, ProcessMoves, ProcessFacts

\* A bundle that does not load leaves only the rejection.
LEMMA WatchRejectsKeeps ==
  ASSUME BundlesInv, NEW p \in Instances, WatchRejects(p)
  PROVE  BundlesInv'
<1>1. /\ watcher' = Set(watcher, p, AtRest)
      /\ UNCHANGED <<certs, bundleFile, account, wanted, settled, running, everWritten, dropped,
                     wasteful, resolver, expires, pendingBundle, renewal>>
  BY DEF WatchRejects, Outside, Lives, Past, View
<1>2. watcher \in [Instances -> Loads]
  BY ProcessFacts
<1>3. /\ watcher' \in [Instances -> Loads] /\ watcher'[p] = AtRest /\ watcher'[p].at = "rest"
      /\ watcher'[p].cert = 0 /\ \A q \in Instances \ {p} : watcher'[q] = watcher[q]
  BY <1>1, <1>2, LoadRests
<1>4. OnlyProcess(p) /\ LockMoves(p)
  BY <1>1, <1>3 DEF OnlyProcess, LockMoves
<1>5. BundlesTypeOK'
  BY <1>1, <1>3, ProcessFacts DEF BundlesTypeOK
<1>6. ProcessInv(p)'
  BY <1>1, <1>3, ProcessFacts DEF ProcessInv, RenewalLocked, AttemptKnows, HoldsReal, Loadable
<1> QED
  BY <1>1, <1>4, <1>5, <1>6, ProcessMoves, ProcessFacts

\* publish_loaded stores what was read: it loads, so it was written.
LEMMA WatchStoresKeeps ==
  ASSUME BundlesInv, NEW p \in Instances, WatchStores(p)
  PROVE  BundlesInv'
<1>1. /\ resolver' = Set(resolver, p, watcher[p].cert)
      /\ watcher' = Set(watcher, p, Phase("stored", watcher[p].cert))
      /\ watcher[p].at = "read" /\ Loadable(watcher[p].cert, settled[p])
      /\ UNCHANGED <<certs, bundleFile, account, wanted, settled, running, everWritten, dropped,
                     wasteful, expires, pendingBundle, renewal>>
  BY DEF WatchStores, Outside, Lives, Past
<1>2. /\ watcher \in [Instances -> Loads] /\ "stored" \in Phases /\ watcher[p].cert \in 0..Spoiled
      /\ resolver \in [Instances -> 0..Spoiled] /\ BundlesTypeOK
      /\ watcher[p].cert \in everWritten \cup {0, Spoiled}
  BY ProcessFacts DEF Phases, BundlesTypeOK, HoldsReal
<1>3. /\ watcher' \in [Instances -> Loads] /\ watcher'[p].at = "stored"
      /\ watcher'[p].cert = watcher[p].cert /\ \A q \in Instances \ {p} : watcher'[q] = watcher[q]
  BY <1>1, <1>2, LoadMoves
<1>4. /\ resolver' \in [Instances -> 0..Spoiled] /\ resolver'[p] = watcher[p].cert
      /\ \A q \in Instances \ {p} : resolver'[q] = resolver[q]
  BY <1>1, <1>2, CertMoves
<1>5. watcher[p].cert \in everWritten
  BY <1>1, <1>2, LoadableWritten
<1>6. OnlyProcess(p) /\ LockMoves(p)
  BY <1>1, <1>3, <1>4 DEF OnlyProcess, LockMoves
<1>7. BundlesTypeOK'
  BY <1>1, <1>2, <1>3, <1>4 DEF BundlesTypeOK
<1>8. ProcessInv(p)'
  BY <1>1, <1>3, <1>4, <1>5, ProcessFacts, RestLoads
     DEF ProcessInv, RenewalLocked, AttemptKnows, HoldsReal, Loadable
<1> QED
  BY <1>1, <1>6, <1>7, <1>8, ProcessMoves, ProcessFacts

\* The watcher's record agrees with the file an attempt of its process judges.
LEMMA WatchRecordsKeeps ==
  ASSUME BundlesInv, NEW p \in Instances, WatchRecords(p)
  PROVE  BundlesInv'
<1>1. /\ expires' = Set(expires, p, watcher[p].cert) /\ watcher' = Set(watcher, p, AtRest)
      /\ watcher[p].at = "stored"
      /\ UNCHANGED <<certs, bundleFile, account, wanted, settled, running, everWritten, dropped,
                     wasteful, resolver, pendingBundle, renewal>>
  BY DEF WatchRecords, Outside, Lives, Past
<1>2. /\ watcher \in [Instances -> Loads] /\ watcher[p].cert \in 0..Spoiled
      /\ expires \in [Instances -> 0..Spoiled] /\ BundlesTypeOK
  BY ProcessFacts DEF BundlesTypeOK
<1>3. /\ watcher' \in [Instances -> Loads] /\ watcher'[p] = AtRest /\ watcher'[p].at = "rest"
      /\ watcher'[p].cert = 0 /\ \A q \in Instances \ {p} : watcher'[q] = watcher[q]
  BY <1>1, <1>2, LoadRests
<1>4. /\ expires' \in [Instances -> 0..Spoiled] /\ expires'[p] = watcher[p].cert
      /\ \A q \in Instances \ {p} : expires'[q] = expires[q]
  BY <1>1, <1>2, CertMoves
<1>5. OnlyProcess(p) /\ LockMoves(p)
  BY <1>1, <1>3, <1>4 DEF OnlyProcess, LockMoves
<1>6. BundlesTypeOK'
  BY <1>1, <1>2, <1>3, <1>4 DEF BundlesTypeOK
<1>7. renewal[p].at = "judging" /\ Loadable(bundleFile, settled[p]) => watcher[p].cert = bundleFile
  <2> SUFFICES ASSUME renewal[p].at = "judging", Loadable(bundleFile, settled[p])
               PROVE  watcher[p].cert = bundleFile
    OBVIOUS
  <2>1. bundleFile # Spoiled
    BY <1>2, LoadableWritten, ProcessFacts
  <2> QED
    BY <1>1, <2>1, ProcessFacts, RestLoads DEF AttemptKnows
<1>8. ProcessInv(p)'
  BY <1>1, <1>3, <1>4, <1>7, ProcessFacts
     DEF ProcessInv, RenewalLocked, AttemptKnows, HoldsReal, Loadable
<1> QED
  BY <1>1, <1>5, <1>6, <1>8, ProcessMoves, ProcessFacts

\* A new settings file alone changes nothing that is served.
LEMMA SettingsChangeKeeps ==
  ASSUME BundlesInv, NEW p \in Instances, NEW domains \in DomainSets, SettingsChange(p, domains)
  PROVE  BundlesInv'
<1>1. /\ wanted' = Set(wanted, p, domains)
      /\ UNCHANGED <<certs, bundleFile, account, settled, running, everWritten, dropped, wasteful,
                     resolver, expires, pendingBundle, watcher, renewal>>
  BY DEF SettingsChange, Outside, Past, View, Task
<1>2. wanted' \in [Instances -> DomainSets]
  BY <1>1, ProcessFacts, SettingMoves DEF BundlesTypeOK
<1>3. OnlyProcess(p) /\ LockMoves(p)
  BY <1>1 DEF OnlyProcess, LockMoves
<1>4. BundlesTypeOK'
  BY <1>1, <1>2, ProcessFacts DEF BundlesTypeOK
<1>5. ProcessInv(p)'
  BY <1>1, ProcessFacts DEF ProcessInv, RenewalLocked, AttemptKnows, HoldsReal, Loadable
<1> QED
  BY <1>1, <1>3, <1>4, <1>5, ProcessMoves, ProcessFacts

\* What the restore at the start of a process, or under new settings, leaves.
LEMMA RestoredMoves ==
  ASSUME BundlesInv, NEW p \in Instances, NEW domains, Restored(p, domains)
  PROVE  /\ resolver' \in [Instances -> 0..Spoiled] /\ expires' \in [Instances -> 0..Spoiled]
         /\ resolver'[p] \in everWritten \cup {0}
         /\ \A q \in Instances \ {p} : resolver'[q] = resolver[q] /\ expires'[q] = expires[q]
<1>1. /\ resolver \in [Instances -> 0..Spoiled] /\ expires \in [Instances -> 0..Spoiled]
      /\ bundleFile \in 0..Spoiled /\ 0 \in 0..Spoiled /\ resolver[p] \in everWritten \cup {0}
      /\ BundlesTypeOK /\ bundleFile \in everWritten \cup {0, Spoiled}
  BY ProcessFacts, SpoiledReal DEF HoldsReal
<1>2. CASE Loadable(bundleFile, domains)
  <2>1. resolver' = Set(resolver, p, bundleFile)
    BY <1>2 DEF Restored
  <2>2. expires' = Set(expires, p, bundleFile)
    BY <1>2 DEF Restored
  <2>3. bundleFile \in everWritten
    BY <1>1, <1>2, LoadableWritten
  <2>4. /\ resolver' \in [Instances -> 0..Spoiled] /\ resolver'[p] = bundleFile
        /\ \A q \in Instances \ {p} : resolver'[q] = resolver[q]
    <3>1. resolver \in [Instances -> 0..Spoiled] /\ bundleFile \in 0..Spoiled
      BY <1>1
    <3> QED
      BY <2>1, <3>1, CertMoves
  <2>5. /\ expires' \in [Instances -> 0..Spoiled]
        /\ \A q \in Instances \ {p} : expires'[q] = expires[q]
    BY <1>1, <2>2, CertMoves
  <2> QED
    BY <2>3, <2>4, <2>5
<1>3. CASE ~Loadable(bundleFile, domains)
  <2>1. expires' = Set(expires, p, 0) /\ resolver' = resolver
    BY <1>3 DEF Restored
  <2>2. /\ expires' \in [Instances -> 0..Spoiled]
        /\ \A q \in Instances \ {p} : expires'[q] = expires[q]
    BY <1>1, <2>1, CertMoves
  <2> QED
    BY <1>1, <2>1, <2>2
<1> QED
  BY <1>2, <1>3

\* New settings are applied while nothing runs beside the loop.
LEMMA ReconfigureKeeps ==
  ASSUME BundlesInv, NEW p \in Instances, Reconfigure(p)
  PROVE  BundlesInv'
<1>1. /\ settled' = Set(settled, p, wanted[p]) /\ Restored(p, wanted[p])
      /\ watcher[p] = AtRest /\ renewal[p] = AtRest
      /\ UNCHANGED <<certs, bundleFile, account, wanted, running, everWritten, dropped, wasteful,
                     pendingBundle, watcher, renewal>>
  BY DEF Reconfigure, Outside, Past
<1>2. settled \in [Instances -> DomainSets] /\ wanted[p] \in DomainSets
  BY ProcessFacts DEF BundlesTypeOK
<1>3. /\ settled' \in [Instances -> DomainSets]
      /\ \A q \in Instances \ {p} : settled'[q] = settled[q]
  BY <1>1, <1>2, SettingMoves
<1>4. /\ resolver' \in [Instances -> 0..Spoiled] /\ expires' \in [Instances -> 0..Spoiled]
      /\ resolver'[p] \in everWritten \cup {0}
      /\ \A q \in Instances \ {p} : resolver'[q] = resolver[q] /\ expires'[q] = expires[q]
  BY <1>1, RestoredMoves
<1>5. OnlyProcess(p) /\ LockMoves(p)
  BY <1>1, <1>3, <1>4 DEF OnlyProcess, LockMoves
<1>6. BundlesTypeOK'
  BY <1>1, <1>3, <1>4, ProcessFacts DEF BundlesTypeOK
<1>7. ProcessInv(p)'
  BY <1>1, <1>4, ProcessFacts, RestLoads DEF ProcessInv, RenewalLocked, AttemptKnows, HoldsReal
<1> QED
  BY <1>1, <1>5, <1>6, <1>7, ProcessMoves, ProcessFacts

\* A process that starts had no attempt, and restores the bundle.
LEMMA ProcessStartsKeeps ==
  ASSUME BundlesInv, NEW p \in Instances, ProcessStarts(p)
  PROVE  BundlesInv'
<1>1. /\ settled' = Set(settled, p, wanted[p]) /\ Restored(p, wanted[p])
      /\ ~running[p] /\ running' = Set(running, p, TRUE)
      /\ UNCHANGED <<certs, bundleFile, account, wanted, everWritten, dropped, wasteful,
                     pendingBundle, watcher, renewal>>
  BY DEF ProcessStarts, Outside, Past, Task
<1>2. settled \in [Instances -> DomainSets] /\ wanted[p] \in DomainSets
  BY ProcessFacts DEF BundlesTypeOK
<1>3. /\ settled' \in [Instances -> DomainSets]
      /\ \A q \in Instances \ {p} : settled'[q] = settled[q]
  BY <1>1, <1>2, SettingMoves
<1>4. /\ resolver' \in [Instances -> 0..Spoiled] /\ expires' \in [Instances -> 0..Spoiled]
      /\ resolver'[p] \in everWritten \cup {0}
      /\ \A q \in Instances \ {p} : resolver'[q] = resolver[q] /\ expires'[q] = expires[q]
  BY <1>1, RestoredMoves
<1>5. DOMAIN running' = Instances /\ \A q \in Instances \ {p} : running'[q] = running[q]
  BY <1>1, ProcessFacts DEF Set, BundlesTypeOK
<1>6. OnlyProcess(p) /\ LockMoves(p)
  BY <1>1, <1>3, <1>4, <1>5 DEF OnlyProcess, LockMoves
<1>7. BundlesTypeOK'
  BY <1>1, <1>3, <1>4, <1>5, ProcessFacts DEF BundlesTypeOK
<1>8. renewal[p] = AtRest
  BY <1>1, ProcessFacts DEF RenewalLocked
<1>9. ProcessInv(p)'
  BY <1>1, <1>4, <1>8, ProcessFacts, RestLoads DEF ProcessInv, RenewalLocked, AttemptKnows, HoldsReal
<1> QED
  BY <1>1, <1>6, <1>7, <1>9, ProcessMoves, ProcessFacts

\* An attempt starts with the free lock and the watcher at rest.
LEMMA StartAttemptKeeps ==
  ASSUME BundlesInv, NEW p \in Instances, StartAttempt(p)
  PROVE  BundlesInv'
<1>1. /\ renewal' = Set(renewal, p, Phase("locked", 0)) /\ running[p] /\ watcher[p] = AtRest
      /\ account = {} /\ account' = {p}
      /\ UNCHANGED <<certs, bundleFile, wanted, settled, running, everWritten, dropped, wasteful,
                     resolver, expires, pendingBundle, watcher>>
  BY DEF StartAttempt, Lives, Past, View
<1>2. renewal \in [Instances -> Loads] /\ "locked" \in Phases /\ 0 \in 0..Spoiled
  BY ProcessFacts, SpoiledReal DEF Phases
<1>3. /\ renewal' \in [Instances -> Loads] /\ renewal'[p].at = "locked"
      /\ renewal'[p].cert = 0 /\ \A q \in Instances \ {p} : renewal'[q] = renewal[q]
  BY <1>1, <1>2, LoadMoves
<1>4. OnlyProcess(p) /\ LockMoves(p)
  BY <1>1, <1>3 DEF OnlyProcess, LockMoves
<1>5. BundlesTypeOK'
  BY <1>1, <1>3, ProcessFacts DEF BundlesTypeOK
<1>6. ProcessInv(p)'
  BY <1>1, <1>3, ProcessFacts DEF ProcessInv, RenewalLocked, AttemptKnows, HoldsReal
<1> QED
  BY <1>1, <1>4, <1>5, <1>6, ProcessMoves, ProcessFacts

\* restore under the lock: the file read stays what it is until the attempt writes.
LEMMA AttemptReadsKeeps ==
  ASSUME BundlesInv, NEW p \in Instances, AttemptReads(p)
  PROVE  BundlesInv'
<1>1. /\ renewal[p].at = "locked"
      /\ UNCHANGED <<certs, bundleFile, account, wanted, settled, running, everWritten, dropped,
                     wasteful, resolver, pendingBundle, watcher>>
  BY DEF AttemptReads, Outside, Lives, Past
<1>2. /\ renewal \in [Instances -> Loads] /\ "reading" \in Phases /\ "judging" \in Phases
      /\ 0 \in 0..Spoiled /\ bundleFile \in 0..Spoiled /\ expires \in [Instances -> 0..Spoiled]
      /\ BundlesTypeOK /\ bundleFile \in everWritten \cup {0, Spoiled}
  BY ProcessFacts, SpoiledReal DEF Phases
<1>3. CASE Loadable(bundleFile, settled[p])
  <2>1. renewal' = Set(renewal, p, Phase("reading", bundleFile)) /\ expires' = expires
    BY <1>3 DEF AttemptReads
  <2>2. /\ renewal' \in [Instances -> Loads] /\ renewal'[p].at = "reading"
        /\ renewal'[p].cert = bundleFile /\ \A q \in Instances \ {p} : renewal'[q] = renewal[q]
    BY <1>2, <2>1, LoadMoves
  <2>3. bundleFile \in everWritten
    BY <1>2, <1>3, LoadableWritten
  <2>4. OnlyProcess(p) /\ LockMoves(p)
    BY <1>1, <2>1, <2>2 DEF OnlyProcess, LockMoves
  <2>5. BundlesTypeOK'
    BY <1>1, <1>2, <2>1, <2>2 DEF BundlesTypeOK
  <2>6. ProcessInv(p)'
    BY <1>1, <2>1, <2>2, <2>3, ProcessFacts DEF ProcessInv, RenewalLocked, AttemptKnows, HoldsReal
  <2> QED
    BY <1>1, <2>4, <2>5, <2>6, ProcessMoves, ProcessFacts
<1>4. CASE ~Loadable(bundleFile, settled[p])
  <2>1. renewal' = Set(renewal, p, Phase("judging", 0)) /\ expires' = Set(expires, p, 0)
    BY <1>4 DEF AttemptReads
  <2>2. /\ renewal' \in [Instances -> Loads] /\ renewal'[p].at = "judging"
        /\ renewal'[p].cert = 0 /\ \A q \in Instances \ {p} : renewal'[q] = renewal[q]
    BY <1>2, <2>1, LoadMoves
  <2>3. /\ expires' \in [Instances -> 0..Spoiled]
        /\ \A q \in Instances \ {p} : expires'[q] = expires[q]
    BY <1>2, <2>1, CertMoves
  <2>4. OnlyProcess(p) /\ LockMoves(p)
    BY <1>1, <2>2, <2>3 DEF OnlyProcess, LockMoves
  <2>5. BundlesTypeOK'
    BY <1>1, <1>2, <2>2, <2>3 DEF BundlesTypeOK
  <2>6. ~Loadable(bundleFile, settled[p])'
    BY <1>1, <1>4 DEF Loadable
  <2>7. ProcessInv(p)'
    BY <1>1, <2>2, <2>6, ProcessFacts DEF ProcessInv, RenewalLocked, AttemptKnows, HoldsReal
  <2> QED
    BY <1>1, <2>4, <2>5, <2>7, ProcessMoves, ProcessFacts
<1> QED
  BY <1>3, <1>4

\* The attempt stores what it read or has just written.
LEMMA AttemptStoresKeeps ==
  ASSUME BundlesInv, NEW p \in Instances, AttemptStores(p)
  PROVE  BundlesInv'
<1>1. PICK at : at = IF renewal[p].at = "reading" THEN "stored" ELSE "served"
  OBVIOUS
<1>2. /\ resolver' = Set(resolver, p, renewal[p].cert)
      /\ renewal[p].at \in {"reading", "written"}
      /\ UNCHANGED <<certs, bundleFile, account, wanted, settled, running, everWritten, dropped,
                     wasteful, expires, pendingBundle, watcher>>
  BY DEF AttemptStores, Outside, Lives, Past
<1>3. renewal' = Set(renewal, p, Phase(at, renewal[p].cert))
  BY <1>1 DEF AttemptStores
<1>4. renewal \in [Instances -> Loads] /\ at \in Phases /\ renewal[p].cert \in 0..Spoiled
  BY <1>1, ProcessFacts DEF Phases
<1>5. /\ renewal' \in [Instances -> Loads] /\ renewal'[p].at = at
      /\ renewal'[p].cert = renewal[p].cert /\ \A q \in Instances \ {p} : renewal'[q] = renewal[q]
  BY <1>3, <1>4, LoadMoves
<1>6. resolver \in [Instances -> 0..Spoiled]
  BY ProcessFacts
<1>7. /\ resolver' \in [Instances -> 0..Spoiled] /\ resolver'[p] = renewal[p].cert
      /\ \A q \in Instances \ {p} : resolver'[q] = resolver[q]
  BY <1>2, <1>4, <1>6, CertMoves
<1>8. OnlyProcess(p) /\ LockMoves(p)
  BY <1>2, <1>5, <1>7 DEF OnlyProcess, LockMoves
<1>9. BundlesTypeOK'
  BY <1>2, <1>5, <1>7, ProcessFacts DEF BundlesTypeOK
<1>10. ProcessInv(p)'
  <2>1. CASE renewal[p].at = "reading"
    <3>1. at = "stored"
      BY <1>1, <2>1
    <3> QED
      BY <1>2, <1>5, <1>7, <2>1, <3>1, ProcessFacts
         DEF ProcessInv, RenewalLocked, AttemptKnows, HoldsReal
  <2>2. CASE renewal[p].at = "written"
    <3>1. at = "served"
      BY <1>1, <2>2
    <3> QED
      BY <1>2, <1>5, <1>7, <2>2, <3>1, ProcessFacts
         DEF ProcessInv, RenewalLocked, AttemptKnows, HoldsReal
  <2> QED
    BY <1>2, <2>1, <2>2
<1> QED
  BY <1>2, <1>8, <1>9, <1>10, ProcessMoves, ProcessFacts

\* The attempt's record is of the file it will judge by.
LEMMA AttemptRecordsKeeps ==
  ASSUME BundlesInv, NEW p \in Instances, AttemptRecords(p)
  PROVE  BundlesInv'
<1>1. /\ renewal[p].at = "stored"
      /\ UNCHANGED <<certs, bundleFile, account, wanted, settled, running, everWritten, dropped,
                     wasteful, resolver, pendingBundle, watcher>>
  BY DEF AttemptRecords, Outside, Lives, Past
<1>2. renewal' = Set(renewal, p, Phase("judging", 0))
  BY DEF AttemptRecords
<1>3. expires' = Set(expires, p, renewal[p].cert)
  BY DEF AttemptRecords
<1>4. renewal \in [Instances -> Loads] /\ "judging" \in Phases /\ 0 \in 0..Spoiled
  BY ProcessFacts, SpoiledReal DEF Phases
<1>5. /\ renewal' \in [Instances -> Loads] /\ renewal'[p].at = "judging"
      /\ renewal'[p].cert = 0 /\ \A q \in Instances \ {p} : renewal'[q] = renewal[q]
  BY <1>2, <1>4, LoadMoves
<1>6. expires \in [Instances -> 0..Spoiled] /\ renewal[p].cert \in 0..Spoiled
  BY ProcessFacts
<1>7. /\ expires' \in [Instances -> 0..Spoiled] /\ expires'[p] = renewal[p].cert
      /\ \A q \in Instances \ {p} : expires'[q] = expires[q]
  BY <1>3, <1>6, CertMoves
<1>8. OnlyProcess(p) /\ LockMoves(p)
  BY <1>1, <1>5, <1>7 DEF OnlyProcess, LockMoves
<1>9. BundlesTypeOK'
  BY <1>1, <1>5, <1>7, ProcessFacts DEF BundlesTypeOK
<1>10. Loadable(bundleFile, settled[p]) => renewal[p].cert = bundleFile
  <2>1. Loadable(bundleFile, settled[p]) => bundleFile # Spoiled
    BY LoadableWritten, ProcessFacts
  <2> QED
    BY <1>1, <2>1, ProcessFacts DEF AttemptKnows
<1>11. ProcessInv(p)'
  BY <1>1, <1>5, <1>7, <1>10, ProcessFacts
     DEF ProcessInv, RenewalLocked, AttemptKnows, HoldsReal, Loadable
<1> QED
  BY <1>1, <1>8, <1>9, <1>11, ProcessMoves, ProcessFacts

\* The end of an attempt, whatever it leaves in the retained material.
LEMMA OverMoves ==
  ASSUME BundlesInv, NEW p \in Instances, Over(p)
  PROVE  /\ renewal' \in [Instances -> Loads] /\ renewal'[p] = AtRest /\ renewal'[p].at = "rest"
         /\ \A q \in Instances \ {p} : renewal'[q] = renewal[q]
         /\ LockMoves(p)
<1>1. renewal' = Set(renewal, p, AtRest) /\ account' = account \ {p}
  BY DEF Over
<1>2. renewal \in [Instances -> Loads]
  BY ProcessFacts
<1> QED
  BY <1>1, <1>2, LoadRests DEF LockMoves

\* A failed or cancelled attempt leaves everything but the lock.
LEMMA OverKeeps ==
  ASSUME BundlesInv, NEW p \in Instances, Over(p),
         UNCHANGED <<certs, bundleFile, wanted, settled, running, everWritten, dropped, wasteful,
                     resolver, expires, pendingBundle, watcher>>
  PROVE  BundlesInv'
<1>1. OnlyProcess(p) /\ LockMoves(p)
  BY OverMoves DEF OnlyProcess
<1>2. BundlesTypeOK'
  BY OverMoves, ProcessFacts DEF BundlesTypeOK
<1>3. ProcessInv(p)'
  BY OverMoves, ProcessFacts DEF ProcessInv, RenewalLocked, AttemptKnows, HoldsReal
<1> QED
  BY <1>1, <1>2, <1>3, ProcessMoves, ProcessFacts

\* The end of an attempt that clears the retained material, and records it.
LEMMA AlreadyCurrentKeeps ==
  ASSUME BundlesInv, NEW p \in Instances, AlreadyCurrent(p)
  PROVE  BundlesInv'
<1>1. /\ Over(p) /\ dropped' = IF pendingBundle[p] = 0 THEN dropped ELSE dropped \cup {pendingBundle[p]}
      /\ UNCHANGED <<certs, bundleFile, wanted, settled, running, everWritten, wasteful, resolver,
                     expires, watcher>>
  BY DEF AlreadyCurrent, Lives, View
<1>2. pendingBundle' = Set(pendingBundle, p, 0) /\ pendingBundle \in [Instances -> 0..Spoiled]
  BY ProcessFacts DEF AlreadyCurrent
<1>3. /\ pendingBundle' \in [Instances -> 0..Spoiled] /\ pendingBundle'[p] = 0
      /\ \A q \in Instances \ {p} : pendingBundle'[q] = pendingBundle[q]
  BY <1>2, SpoiledReal, CertMoves
<1>4. OnlyProcess(p) /\ LockMoves(p)
  BY <1>1, <1>3, OverMoves DEF OnlyProcess
<1>5. BundlesTypeOK'
  BY <1>1, <1>3, OverMoves, ProcessFacts DEF BundlesTypeOK
<1>6. ProcessInv(p)'
  BY <1>1, <1>3, OverMoves, ProcessFacts DEF ProcessInv, RenewalLocked, AttemptKnows, HoldsReal
<1> QED
  BY <1>1, <1>4, <1>5, <1>6, ProcessMoves, ProcessFacts

\* A finished attempt forgets its material: it was written.
LEMMA AttemptDoneKeeps ==
  ASSUME BundlesInv, NEW p \in Instances, AttemptDone(p)
  PROVE  BundlesInv'
<1>1. /\ Over(p) /\ renewal[p].at = "served"
      /\ UNCHANGED <<certs, bundleFile, wanted, settled, running, everWritten, dropped, wasteful,
                     resolver, watcher>>
  BY DEF AttemptDone, Lives, Past
<1>2. pendingBundle' = Set(pendingBundle, p, 0) /\ pendingBundle \in [Instances -> 0..Spoiled]
  BY ProcessFacts DEF AttemptDone
<1>3. /\ pendingBundle' \in [Instances -> 0..Spoiled] /\ pendingBundle'[p] = 0
      /\ \A q \in Instances \ {p} : pendingBundle'[q] = pendingBundle[q]
  BY <1>2, SpoiledReal, CertMoves
<1>4. /\ expires' = Set(expires, p, renewal[p].cert) /\ expires \in [Instances -> 0..Spoiled]
      /\ renewal[p].cert \in 0..Spoiled
  BY ProcessFacts DEF AttemptDone
<1>5. /\ expires' \in [Instances -> 0..Spoiled]
      /\ \A q \in Instances \ {p} : expires'[q] = expires[q]
  BY <1>4, CertMoves
<1>6. OnlyProcess(p) /\ LockMoves(p)
  BY <1>1, <1>3, <1>5, OverMoves DEF OnlyProcess
<1>7. BundlesTypeOK'
  BY <1>1, <1>3, <1>5, OverMoves, ProcessFacts DEF BundlesTypeOK
<1>8. ProcessInv(p)'
  BY <1>1, <1>3, OverMoves, ProcessFacts DEF ProcessInv, RenewalLocked, AttemptKnows, HoldsReal
<1>9. pendingBundle[p] \in everWritten
  BY <1>1, ProcessFacts DEF AttemptKnows
<1> QED
  BY <1>1, <1>6, <1>7, <1>8, <1>9, ProcessMoves, ProcessFacts

\* A process that ends gives up the lock and what it retained.
LEMMA ProcessEndsKeeps ==
  ASSUME BundlesInv, NEW p \in Instances, ProcessEnds(p)
  PROVE  BundlesInv'
<1>1. /\ Over(p) /\ dropped' = dropped \cup ({pendingBundle[p], renewal[p].cert} \ {0})
      /\ UNCHANGED <<certs, bundleFile, wanted, settled, everWritten, wasteful>>
  BY DEF ProcessEnds
<1>2. pendingBundle' = Set(pendingBundle, p, 0) /\ pendingBundle \in [Instances -> 0..Spoiled]
  BY ProcessFacts DEF ProcessEnds
<1>3. /\ pendingBundle' \in [Instances -> 0..Spoiled] /\ pendingBundle'[p] = 0
      /\ \A q \in Instances \ {p} : pendingBundle'[q] = pendingBundle[q]
  BY <1>2, SpoiledReal, CertMoves
<1>4. expires' = Set(expires, p, 0) /\ expires \in [Instances -> 0..Spoiled]
  BY ProcessFacts DEF ProcessEnds
<1>5. /\ expires' \in [Instances -> 0..Spoiled]
      /\ \A q \in Instances \ {p} : expires'[q] = expires[q]
  BY <1>4, SpoiledReal, CertMoves
<1>6. resolver' = Set(resolver, p, 0) /\ resolver \in [Instances -> 0..Spoiled]
  BY ProcessFacts DEF ProcessEnds
<1>7. /\ resolver' \in [Instances -> 0..Spoiled] /\ resolver'[p] = 0
      /\ \A q \in Instances \ {p} : resolver'[q] = resolver[q]
  BY <1>6, SpoiledReal, CertMoves
<1>8. watcher' = Set(watcher, p, AtRest) /\ watcher \in [Instances -> Loads]
  BY ProcessFacts DEF ProcessEnds
<1>9. /\ watcher' \in [Instances -> Loads] /\ watcher'[p] = AtRest /\ watcher'[p].at = "rest"
      /\ watcher'[p].cert = 0 /\ \A q \in Instances \ {p} : watcher'[q] = watcher[q]
  BY <1>8, LoadRests
<1>10. DOMAIN running' = Instances /\ \A q \in Instances \ {p} : running'[q] = running[q]
  BY ProcessFacts DEF ProcessEnds, Set, BundlesTypeOK
<1>11. OnlyProcess(p) /\ LockMoves(p)
  BY <1>1, <1>3, <1>5, <1>7, <1>9, <1>10, OverMoves DEF OnlyProcess
<1>12. BundlesTypeOK'
  BY <1>1, <1>3, <1>5, <1>7, <1>9, <1>10, OverMoves, ProcessFacts DEF BundlesTypeOK
<1>13. pendingBundle'[p] \in 0..Len(certs')
  BY <1>1, <1>3, ProcessFacts
<1>14. ProcessInv(p)'
  BY <1>1, <1>7, <1>9, <1>13, OverMoves
     DEF ProcessInv, RenewalLocked, AttemptKnows, HoldsReal
<1> QED
  BY <1>1, <1>11, <1>12, <1>14, ProcessMoves, ProcessFacts

\* take_pending: the material is published, or given up on.
LEMMA PublishPendingKeeps ==
  ASSUME BundlesInv, NEW p \in Instances, PublishPending(p)
  PROVE  BundlesInv'
<1>1. /\ renewal[p].at = "judging" /\ pendingBundle[p] # 0
      /\ UNCHANGED <<certs, bundleFile, account, wanted, settled, running, everWritten, wasteful,
                     resolver, expires, watcher>>
  BY DEF PublishPending, Outside, Lives, View
<1>2. CASE Promotable(pendingBundle[p], settled[p])
  <2>1. /\ renewal' = Set(renewal, p, Phase("publishing", pendingBundle[p]))
        /\ UNCHANGED <<pendingBundle, dropped>>
    BY <1>2 DEF PublishPending
  <2>2. renewal \in [Instances -> Loads] /\ "publishing" \in Phases /\ pendingBundle[p] \in 0..Spoiled
    BY ProcessFacts DEF Phases
  <2>3. /\ renewal' \in [Instances -> Loads] /\ renewal'[p].at = "publishing"
        /\ renewal'[p].cert = pendingBundle[p] /\ \A q \in Instances \ {p} : renewal'[q] = renewal[q]
    BY <2>1, <2>2, LoadMoves
  <2>4. OnlyProcess(p) /\ LockMoves(p)
    BY <1>1, <2>1, <2>3 DEF OnlyProcess, LockMoves
  <2>5. BundlesTypeOK'
    BY <1>1, <2>1, <2>3, ProcessFacts DEF BundlesTypeOK
  <2>6. ProcessInv(p)'
    BY <1>1, <2>1, <2>3, ProcessFacts DEF ProcessInv, RenewalLocked, AttemptKnows, HoldsReal
  <2> QED
    BY <1>1, <2>1, <2>4, <2>5, <2>6, ProcessMoves, ProcessFacts
<1>3. CASE ~Promotable(pendingBundle[p], settled[p])
  <2>1. /\ dropped' = dropped \cup {pendingBundle[p]} /\ renewal' = renewal
        /\ pendingBundle' = Set(pendingBundle, p, 0)
    BY <1>3 DEF PublishPending
  <2>2. pendingBundle \in [Instances -> 0..Spoiled]
    BY ProcessFacts
  <2>3. /\ pendingBundle' \in [Instances -> 0..Spoiled] /\ pendingBundle'[p] = 0
        /\ \A q \in Instances \ {p} : pendingBundle'[q] = pendingBundle[q]
    BY <2>1, <2>2, SpoiledReal, CertMoves
  <2>4. OnlyProcess(p) /\ LockMoves(p)
    BY <1>1, <2>1, <2>3 DEF OnlyProcess, LockMoves
  <2>5. BundlesTypeOK'
    BY <1>1, <2>1, <2>3, ProcessFacts DEF BundlesTypeOK
  <2>6. ProcessInv(p)'
    BY <1>1, <2>1, <2>3, ProcessFacts
       DEF ProcessInv, RenewalLocked, AttemptKnows, HoldsReal, Loadable
  <2> QED
    BY <1>1, <2>1, <2>4, <2>5, <2>6, ProcessMoves, ProcessFacts
<1> QED
  BY <1>2, <1>3

\* An attempt that orders has seen in its status what the bundle holds, so
\* the order is not a waste.
LEMMA PlaceOrderKeeps ==
  ASSUME BundlesInv, NEW p \in Instances, PlaceOrder(p)
  PROVE  BundlesInv'
<1>1. /\ renewal' = Set(renewal, p, Phase("ordering", 0)) /\ renewal[p].at = "judging"
      /\ Due(expires[p]) /\ pendingBundle[p] = 0
      /\ UNCHANGED <<certs, bundleFile, account, wanted, settled, running, everWritten, dropped,
                     resolver, expires, pendingBundle, watcher>>
  BY DEF PlaceOrder, Outside, Lives, View
<1>2. renewal \in [Instances -> Loads] /\ "ordering" \in Phases /\ 0 \in 0..Spoiled
  BY ProcessFacts, SpoiledReal DEF Phases
<1>3. /\ renewal' \in [Instances -> Loads] /\ renewal'[p].at = "ordering"
      /\ renewal'[p].cert = 0 /\ \A q \in Instances \ {p} : renewal'[q] = renewal[q]
  BY <1>1, <1>2, LoadMoves
<1>4. wasteful' = {}
  <2>1. Loadable(bundleFile, settled[p]) => expires[p] = bundleFile
    BY <1>1, ProcessFacts DEF AttemptKnows
  <2>2. ~(Loadable(bundleFile, settled[p]) /\ ~Due(bundleFile))
    BY <1>1, <2>1
  <2> QED
    BY <2>2, ProcessFacts DEF PlaceOrder
<1>5. OnlyProcess(p) /\ LockMoves(p)
  BY <1>1, <1>3 DEF OnlyProcess, LockMoves
<1>6. BundlesTypeOK'
  BY <1>1, <1>3, ProcessFacts DEF BundlesTypeOK
<1>7. ProcessInv(p)'
  BY <1>1, <1>3, ProcessFacts DEF ProcessInv, RenewalLocked, AttemptKnows, HoldsReal
<1> QED
  BY <1>1, <1>4, <1>5, <1>6, <1>7, ProcessMoves, ProcessFacts

\* Sink::publish: the lock's holder replaces the bundle.
LEMMA WriteBundleKeeps ==
  ASSUME BundlesInv, NEW p \in Instances, WriteBundle(p)
  PROVE  BundlesInv'
<1>1. /\ renewal[p].at = "publishing" /\ bundleFile' = renewal[p].cert
      /\ everWritten' = everWritten \cup {renewal[p].cert}
      /\ UNCHANGED <<certs, account, wanted, settled, running, dropped, wasteful, resolver, expires,
                     pendingBundle, watcher>>
  BY DEF WriteBundle, Lives, View
<1>2. renewal' = Set(renewal, p, Phase("written", renewal[p].cert))
  BY DEF WriteBundle
<1>3. renewal \in [Instances -> Loads] /\ "written" \in Phases /\ renewal[p].cert \in 0..Spoiled
  BY ProcessFacts DEF Phases
<1>4. /\ renewal' \in [Instances -> Loads] /\ renewal'[p].at = "written"
      /\ renewal'[p].cert = renewal[p].cert /\ \A q \in Instances \ {p} : renewal'[q] = renewal[q]
  BY <1>2, <1>3, LoadMoves
<1>5. account = {p} /\ pendingBundle[p] = renewal[p].cert /\ renewal[p].cert # 0
  BY <1>1, ProcessFacts DEF RenewalLocked, AttemptKnows
<1>6. renewal[p].cert \in 1..MaxCerts
  <2>1. renewal[p].cert \in 0..Len(certs) /\ Len(certs) \in Nat /\ Len(certs) <= MaxCerts
    BY <1>5, ProcessFacts DEF HoldsReal, BundlesTypeOK
  <2> QED
    BY <1>5, <2>1, AcmeBundlesAssumption
<1>7. OnlyProcess(p) /\ LockMoves(p)
  BY <1>1, <1>4 DEF OnlyProcess, LockMoves
<1>8. BundlesTypeOK'
  BY <1>1, <1>4, <1>6, ProcessFacts DEF BundlesTypeOK
<1>9. ProcessInv(p)'
  BY <1>1, <1>4, <1>5, ProcessFacts DEF ProcessInv, RenewalLocked, AttemptKnows, HoldsReal
<1> QED
  BY <1>1, <1>5, <1>7, <1>8, <1>9, ProcessMoves, ProcessFacts

\* An issued certificate is retained at once; nothing retained is overwritten.
LEMMA BundleIssuedKeeps ==
  ASSUME BundlesInv, NEW p \in Instances, BundleIssued(p)
  PROVE  BundlesInv'
<1> DEFINE new == Len(certs) + 1
<1>1. /\ renewal[p].at = "ordering" /\ Len(certs) < MaxCerts
      /\ certs' = Append(certs, [domains |-> settled[p], age |-> 0])
      /\ UNCHANGED <<bundleFile, account, wanted, settled, running, everWritten, dropped, wasteful,
                     resolver, expires, watcher>>
  BY DEF BundleIssued, Lives, Past, View
<1>2. renewal' = Set(renewal, p, Phase("publishing", new))
  BY DEF BundleIssued
<1>3. pendingBundle' = Set(pendingBundle, p, new)
  BY DEF BundleIssued, PendingAfter
<1>4. /\ Len(certs) \in Nat /\ new \in 0..Spoiled /\ new \in Nat /\ new # 0
      /\ new <= MaxCerts /\ new > Len(certs)
  BY <1>1, ProcessFacts, AcmeBundlesAssumption DEF Spoiled
<1>5. /\ certs' \in Seq([domains : DomainSets, age : 0..2]) /\ Len(certs') = new
  <2>1. PICK R : R = [domains : DomainSets, age : 0..2]
    OBVIOUS
  <2>2. PICK r : r = [domains |-> settled[p], age |-> 0]
    OBVIOUS
  <2>3. r \in R
    BY <2>1, <2>2, ProcessFacts
  <2>4. certs \in Seq(R) /\ certs' = Append(certs, r)
    BY <1>1, <2>1, <2>2, ProcessFacts DEF BundlesTypeOK
  <2>5. certs' \in Seq(R) /\ Len(certs') = Len(certs) + 1
    BY <2>3, <2>4
  <2> QED
    BY <2>1, <2>5
<1> HIDE DEF new
<1>6. renewal \in [Instances -> Loads] /\ "publishing" \in Phases
  BY ProcessFacts DEF Phases
<1>7. /\ renewal' \in [Instances -> Loads] /\ renewal'[p].at = "publishing"
      /\ renewal'[p].cert = new /\ \A q \in Instances \ {p} : renewal'[q] = renewal[q]
  BY <1>2, <1>4, <1>6, LoadMoves
<1>8. pendingBundle \in [Instances -> 0..Spoiled]
  BY ProcessFacts
<1>9. /\ pendingBundle' \in [Instances -> 0..Spoiled] /\ pendingBundle'[p] = new
      /\ \A q \in Instances \ {p} : pendingBundle'[q] = pendingBundle[q]
  BY <1>3, <1>4, <1>8, CertMoves
<1>10. account = {p} /\ running[p] /\ pendingBundle[p] = 0
  BY <1>1, ProcessFacts DEF RenewalLocked, AttemptKnows
<1>11. OnlyProcess(p) /\ LockMoves(p) /\ FileMoves(p)
  BY <1>1, <1>7, <1>9, <1>10 DEF OnlyProcess, LockMoves, FileMoves
<1>12. \A q \in Instances \ {p} : ProcessInv(q)'
  BY <1>1, <1>4, <1>5, <1>11, OthersKept
<1>13. BundlesTypeOK'
  BY <1>1, <1>4, <1>5, <1>7, <1>9, ProcessFacts DEF BundlesTypeOK
<1>14. ProcessInv(p)'
  <2>1. pendingBundle'[p] \in 0..Len(certs')
    BY <1>4, <1>5, <1>9
  <2> QED
    BY <1>1, <1>4, <1>7, <1>9, <1>10, <2>1, ProcessFacts
       DEF ProcessInv, RenewalLocked, AttemptKnows, HoldsReal
<1>15. Accounted'
  <2> SUFFICES ASSUME NEW c \in 1..Len(certs')
               PROVE  c \in everWritten' \/ c \in dropped' \/ \E q \in Instances : pendingBundle'[q] = c
    BY DEF Accounted
  <2>1. CASE c = new
    BY <1>9, <2>1
  <2>2. CASE c # new
    <3>1. c \in 1..Len(certs)
      BY <1>4, <1>5, <2>2 DEF new
    <3>2. c # 0
      BY <1>4, <3>1
    <3>3. c \in everWritten \/ c \in dropped \/ \E q \in Instances : pendingBundle[q] = c
      BY <3>1, ProcessFacts DEF Accounted
    <3> QED
      BY <1>1, <1>9, <1>10, <3>2, <3>3
  <2> QED
    BY <2>1, <2>2
<1> QED
  BY <1>1, <1>12, <1>13, <1>14, <1>15, ProcessFacts DEF BundlesInv

\* Time only takes away: what can be loaded afterwards could be before.
LEMMA AgeKeeps ==
  ASSUME BundlesInv, NEW c \in 1..MaxCerts, Age(c)
  PROVE  BundlesInv'
<1>1. /\ c \in 1..Len(certs) /\ certs[c].age < 2 /\ certs' = [certs EXCEPT ![c].age = @ + 1]
      /\ UNCHANGED <<bundleFile, account, wanted, settled, running, everWritten, dropped, wasteful,
                     resolver, expires, pendingBundle, watcher, renewal>>
  BY DEF Age, Lives, Past, View, Task
<1>2. BundlesTypeOK /\ certs \in Seq([domains : DomainSets, age : 0..2]) /\ Len(certs) \in Nat
  BY DEF BundlesInv, BundlesTypeOK
<1>3. certs' \in Seq([domains : DomainSets, age : 0..2]) /\ Len(certs') = Len(certs)
  <2>1. PICK R : R = [domains : DomainSets, age : 0..2]
    OBVIOUS
  <2>2. PICK r : r = [certs[c] EXCEPT !.age = @ + 1]
    OBVIOUS
  <2>3. certs \in Seq(R) /\ certs[c] \in R
    <3>1. certs \in Seq(R) /\ c \in 1..Len(certs)
      BY <1>1, <1>2, <2>1
    <3> QED
      BY <3>1
  <2>4. r \in R
    BY <1>1, <2>1, <2>2, <2>3
  <2>5. certs' = [certs EXCEPT ![c] = r]
    BY <1>1, <2>2
  <2>6. certs' \in Seq(R) /\ Len(certs') = Len(certs)
    BY <1>1, <2>3, <2>4, <2>5
  <2> QED
    BY <2>1, <2>6
<1>4. ASSUME NEW d \in 1..Len(certs)
      PROVE  certs'[d].domains = certs[d].domains /\ (certs'[d].age < 2 => certs[d].age < 2)
  <2>1. certs[d] \in [domains : DomainSets, age : 0..2]
    <3>1. PICK R : R = [domains : DomainSets, age : 0..2]
      OBVIOUS
    <3>2. certs \in Seq(R)
      BY <1>2, <3>1
    <3>3. certs[d] \in R
      BY <3>2
    <3> QED
      BY <3>1, <3>3
  <2>2. CASE d = c
    BY <1>1, <1>2, <2>1, <2>2
  <2>3. CASE d # c
    BY <1>1, <1>2, <2>1, <2>3
  <2> QED
    BY <2>2, <2>3
<1>5. BundlesTypeOK'
  BY <1>1, <1>2, <1>3 DEF BundlesTypeOK
<1>6. Accounted' /\ wasteful' = {}
  BY <1>1, <1>3 DEF BundlesInv, Accounted
<1>7. ASSUME NEW p \in Instances PROVE ProcessInv(p)'
  <2>1. Loadable(bundleFile, settled[p])' => Loadable(bundleFile, settled[p])
    BY <1>1, <1>3, <1>4 DEF Loadable
  <2> QED
    BY <1>1, <1>3, <2>1, ProcessFacts DEF ProcessInv, RenewalLocked, AttemptKnows, HoldsReal
<1> QED
  BY <1>5, <1>6, <1>7 DEF BundlesInv

\* A file spoiled by others cannot be loaded, so no attempt relies on it.
LEMMA SpoilKeeps ==
  ASSUME BundlesInv, Spoil
  PROVE  BundlesInv'
<1>1. /\ bundleFile' = Spoiled
      /\ UNCHANGED <<certs, account, wanted, settled, running, everWritten, dropped, wasteful,
                     resolver, expires, pendingBundle, watcher, renewal>>
  BY DEF Spoil, Past, View, Task
<1>2. BundlesTypeOK'
  BY <1>1 DEF BundlesInv, BundlesTypeOK
<1>3. Accounted' /\ wasteful' = {}
  BY <1>1 DEF BundlesInv, Accounted
<1>4. Spoiled \notin 1..Len(certs)
  BY AcmeBundlesAssumption DEF BundlesInv, BundlesTypeOK, Spoiled
<1>5. ASSUME NEW p \in Instances PROVE ProcessInv(p)'
  <2>1. ~Loadable(bundleFile, settled[p])'
    BY <1>1, <1>4 DEF Loadable
  <2> QED
    BY <1>1, <2>1, ProcessFacts DEF ProcessInv, RenewalLocked, AttemptKnows, HoldsReal
<1> QED
  BY <1>2, <1>3, <1>5 DEF BundlesInv

\* A step of the issuers leaves the gateways' invariant.
LEMMA BundlesFrame ==
  ASSUME BundlesInv, UNCHANGED bundleVars
  PROVE  BundlesInv'
<1>1. UNCHANGED <<certs, bundleFile, account, wanted, settled, resolver, expires, pendingBundle,
                  watcher, renewal, running, everWritten, dropped, wasteful>>
  BY DEF bundleVars
<1> QED
  BY <1>1 DEF BundlesInv, BundlesTypeOK, Accounted, ProcessInv, RenewalLocked, AttemptKnows,
              HoldsReal, Loadable

\* Every step of the gateways keeps their invariant.
LEMMA BundlesKeeps == BundlesInv /\ [BundlesNext]_bundleVars => BundlesInv'
<1> SUFFICES ASSUME BundlesInv, [BundlesNext]_bundleVars PROVE BundlesInv'
  OBVIOUS
<1>1. ASSUME NEW p \in Instances, AttemptFails(p) \/ BundleFails(p) \/ Cancelled(p)
      PROVE  BundlesInv'
  <2>1. /\ Over(p)
        /\ UNCHANGED <<certs, bundleFile, wanted, settled, running, everWritten, dropped, wasteful,
                       resolver, expires, pendingBundle, watcher>>
    BY <1>1 DEF AttemptFails, BundleFails, Cancelled, Lives, Past, View
  <2> QED
    BY <2>1, OverKeeps
<1> QED
  BY <1>1, BundlesFrame, SpoilKeeps, AgeKeeps, WatchReadKeeps, WatchRejectsKeeps, WatchStoresKeeps,
     WatchRecordsKeeps, SettingsChangeKeeps, ReconfigureKeeps, StartAttemptKeeps, AttemptReadsKeeps,
     AttemptStoresKeeps, AttemptRecordsKeeps, AlreadyCurrentKeeps, PublishPendingKeeps,
     PlaceOrderKeeps, BundleIssuedKeeps, WriteBundleKeeps, AttemptDoneKeeps, ProcessEndsKeeps,
     ProcessStartsKeeps DEF BundlesNext

\* The gateways' invariant implies what the runs check of them.
LEMMA BundlesInvSound == BundlesInv => BundlesSound
<1> SUFFICES ASSUME BundlesInv PROVE BundlesSound
  OBVIOUS
<1>1. PICK S : S = {p \in Instances : renewal[p].at \in {"ordering", "publishing"}}
  OBVIOUS
<1>2. Cardinality(S) <= 1
  <2>1. CASE S = {}
    BY <2>1, AtMostOne
  <2>2. CASE S # {}
    <3>1. PICK p : p \in S
      BY <2>2
    <3>2. S \subseteq {p}
      BY <1>1, <3>1, ProcessFacts DEF RenewalLocked
    <3> QED
      BY <3>2, AtMostOne
  <2> QED
    BY <2>1, <2>2
<1> QED
  BY <1>1, <1>2 DEF BundlesSound, BundlesInv, Accounted, ProcessInv, HoldsReal

----------------------------------------------------------------------------
(* Both *)

\* For any number of issuers and gateways, certificates, keys, crashes, spoiled
\* files and changes of settings (hangang-acme-issuer.rs, acme.rs,
\* acme_runtime.rs): one process at a time orders, and not while the pair on
\* disk is current; an issued certificate is written, retained or rightly given
\* up on; the pointer names a complete pair, a resolver holds what was written;
\* and the account's credentials are those of the one registered account.
THEOREM CertificatesAreKept == AcmeSpec => []CertificatesKept
<1>1. AcmeInit => IssuerInv /\ BundlesInv
  BY IssuerInitHolds, BundlesInitHolds DEF AcmeInit
<1>2. IssuerInv /\ BundlesInv /\ [AcmeNext]_AcmeVars => IssuerInv' /\ BundlesInv'
  <2> SUFFICES ASSUME IssuerInv, BundlesInv, [AcmeNext]_AcmeVars PROVE IssuerInv' /\ BundlesInv'
    OBVIOUS
  <2>1. [IssuerNext]_issuerVars /\ [BundlesNext]_bundleVars
    BY DEF AcmeNext, AcmeVars
  <2> QED
    BY <2>1, IssuerKeeps, BundlesKeeps
<1>3. IssuerInv /\ BundlesInv => CertificatesKept
  BY IssuerInvSound, BundlesInvSound DEF CertificatesKept
<1> QED
  BY <1>1, <1>2, <1>3, PTL DEF AcmeSpec
=============================================================================
