---------------------------- MODULE InstanceProofs ---------------------------
(***************************************************************************)
(* What keeps an instance going beside its requests, for any number of      *)
(* namespaces, members, connections, requests, accounts and supervisors:    *)
(* every host has one owner (HostsOwned), retired members are left alone    *)
(* (MembersExact), the health of an endpoint is its own (OwnHealthOnly),    *)
(* receipts are forgotten only with their release on record (ReleasesKept), *)
(* sessions speak for their account as it is (AccountsSound), an update     *)
(* costs no instance its binary (InstallTruthful), and the controller's     *)
(* authority is what it says it is (AuthorityTruthful).                     *)
(***************************************************************************)
EXTENDS HostOwnership, MemberRetirement, BackendHealth, ReceiptRelease, AdminAccounts,
        UpdateInstall, KubernetesController, FiniteSetTheorems, WellFoundedInduction, TLAPS

-----------------------------------------------------------------------------
(* Host ownership *)

\* HostsOwned for any namespaces, hostnames and number of Ingresses.  The
\* argument is about one set of Ingresses at a time, since the decision is
\* a function of it: a pattern has at most one oldest claimant, so of two
\* overlapping patterns of different owners one is dropped.  Only that a
\* younger Ingress withdraws nobody compares two sets.

\* A set of Ingresses, by age.
Typed(ings) == \E D \in SUBSET Ages : ings \in [D -> Ingress]

\* Only what the decision uses of a set of Ingresses: ages are integers.
Aged(ings) == DOMAIN ings \subseteq Int

\* Places in the order are integers.
LEMMA TypedAged == ASSUME NEW ings, Typed(ings) PROVE Aged(ings)
  BY OwnershipConstants DEF Typed, Aged

\* A pattern has one oldest claimant.
LEMMA OldestUnique ==
  ASSUME NEW ings, Aged(ings), NEW p, NEW i, NEW j, Oldest(ings, p, i), Oldest(ings, p, j)
  PROVE  i = j
<1>1. i \in Int /\ j \in Int
  BY DEF Oldest, Aged
<1>2. i <= j /\ j <= i
  BY DEF Oldest
<1> QED
  BY <1>1, <1>2

\* A wildcard and a host name it covers, of different namespaces, are not
\* both kept.
LEMMA OneIsDropped ==
  ASSUME NEW ings, NEW w, NEW e, Conflict(ings, w, e)
  PROVE  Dropped(ings, w) \/ Dropped(ings, e)
<1>1. w \in Wildcards /\ e \in ExactHosts
  BY DEF Conflict, Covers
<1>2. CASE \E x \in ExactHosts : Conflict(ings, w, x) /\ Older(ings, x, w)
  BY <1>1, <1>2 DEF Dropped
<1>3. CASE ~ \E x \in ExactHosts : Conflict(ings, w, x) /\ Older(ings, x, w)
  BY <1>1, <1>3 DEF Dropped
<1> QED
  BY <1>2, <1>3

\* Two authorized Ingresses of different namespaces claim nothing that overlaps.
LEMMA AuthorizedApart ==
  ASSUME NEW ings, Aged(ings), NEW i \in DOMAIN ings, NEW j \in DOMAIN ings,
         Authorized(ings, i), Authorized(ings, j), ings[i].namespace # ings[j].namespace,
         NEW p \in ings[i].claims, NEW q \in ings[j].claims
  PROVE  p # q /\ ~Covers(p, q)
<1>1. PICK a \in DOMAIN ings : Oldest(ings, p, a) /\ ings[a].namespace = ings[i].namespace
  BY DEF Authorized, Owns
<1>2. PICK b \in DOMAIN ings : Oldest(ings, q, b) /\ ings[b].namespace = ings[j].namespace
  BY DEF Authorized, Owns
<1>3. ~Dropped(ings, p) /\ ~Dropped(ings, q)
  BY DEF Authorized
<1>4. p # q
  BY <1>1, <1>2, OldestUnique
<1>5. ~Covers(p, q)
  <2> SUFFICES ASSUME Covers(p, q) PROVE FALSE
    OBVIOUS
  <2>1. Conflict(ings, p, q)
    BY <1>1, <1>2 DEF Conflict
  <2> QED
    BY <2>1, <1>3, OneIsDropped
<1> QED
  BY <1>4, <1>5

\* The oldest Ingress of a set is authorized.
LEMMA OldestAuthorized ==
  ASSUME NEW ings, Aged(ings), NEW i \in DOMAIN ings, \A j \in DOMAIN ings : i <= j
  PROVE  Authorized(ings, i)
<1> SUFFICES ASSUME NEW p \in ings[i].claims
             PROVE  Owns(ings, p, ings[i].namespace) /\ ~Dropped(ings, p)
  BY DEF Authorized
<1>1. Oldest(ings, p, i)
  BY DEF Oldest
<1>2. ASSUME p \in Wildcards, NEW e \in ExactHosts, Older(ings, e, p) PROVE FALSE
  <2>1. PICK a, b \in DOMAIN ings : Oldest(ings, p, a) /\ Oldest(ings, e, b) /\ b < a
    BY <1>2 DEF Older
  <2>2. a = i
    BY <1>1, <2>1, OldestUnique
  <2> QED
    BY <2>1, <2>2 DEF Aged
<1>3. ASSUME NEW w \in Wildcards, Conflict(ings, w, p),
             \A e \in ExactHosts : Conflict(ings, w, e) => ~Older(ings, e, w)
      PROVE  FALSE
  <2>1. PICK a, b \in DOMAIN ings :
          Oldest(ings, w, a) /\ Oldest(ings, p, b) /\ ings[a].namespace # ings[b].namespace
    BY <1>3 DEF Conflict
  <2>2. b = i
    BY <1>1, <2>1, OldestUnique
  <2>3. b < a
    BY <2>1, <2>2 DEF Aged
  <2>4. Older(ings, p, w)
    BY <2>1, <2>3 DEF Older
  <2>5. p \in ExactHosts
    BY <1>3 DEF Conflict, Covers
  <2> QED
    BY <1>3, <2>4, <2>5
<1>4. ~Dropped(ings, p)
  BY <1>2, <1>3 DEF Dropped
<1> QED
  BY <1>1, <1>4 DEF Owns

(* A set of Ingresses and the same set with a younger one *)

Extends(ings, more, k) ==
  /\ Aged(ings) /\ Aged(more) /\ DOMAIN more = DOMAIN ings \cup {k}
  /\ \A i \in DOMAIN ings : i < k /\ more[i] = ings[i]

\* Who is oldest among those that were there does not change.
LEMMA OldestKept ==
  ASSUME NEW ings, NEW more, NEW k, Extends(ings, more, k), NEW p, NEW i \in DOMAIN ings
  PROVE  Oldest(ings, p, i) <=> Oldest(more, p, i)
<1>1. /\ DOMAIN ings \subseteq Int /\ k \in Int /\ i \in DOMAIN more
      /\ \A j \in DOMAIN ings : j < k /\ more[j] = ings[j]
  BY DEF Extends, Aged
<1>2. \A j \in DOMAIN more : j \in DOMAIN ings \/ j = k
  BY DEF Extends
<1>3. ASSUME Oldest(ings, p, i) PROVE Oldest(more, p, i)
  <2>1. p \in more[i].claims
    BY <1>1, <1>3 DEF Oldest
  <2>2. ASSUME NEW j \in DOMAIN more, p \in more[j].claims PROVE i <= j
    <3>1. CASE j = k
      BY <3>1, <1>1
    <3>2. CASE j \in DOMAIN ings
      BY <3>2, <2>2, <1>1, <1>3 DEF Oldest
    <3> QED
      BY <1>2, <3>1, <3>2
  <2> QED
    BY <1>1, <2>1, <2>2 DEF Oldest
<1>4. ASSUME Oldest(more, p, i) PROVE Oldest(ings, p, i)
  <2>1. \A j \in DOMAIN ings : j \in DOMAIN more
    BY DEF Extends
  <2> QED
    BY <1>1, <1>4, <2>1 DEF Oldest
<1> QED
  BY <1>3, <1>4

\* Nobody who was authorized is withdrawn.
LEMMA YoungerHarmless ==
  ASSUME NEW ings, NEW more, NEW k, Extends(ings, more, k), NEW i \in DOMAIN ings,
         Authorized(ings, i)
  PROVE  Authorized(more, i)
<1>1. /\ Aged(more) /\ DOMAIN more = DOMAIN ings \cup {k}
      /\ \A j \in DOMAIN ings : j \in Int /\ j < k /\ more[j] = ings[j]
      /\ k \in Int
  BY DEF Extends, Aged
<1> SUFFICES ASSUME NEW p \in ings[i].claims
             PROVE  Owns(more, p, ings[i].namespace) /\ ~Dropped(more, p)
  BY <1>1 DEF Authorized
<1>2. PICK a \in DOMAIN ings : Oldest(ings, p, a) /\ ings[a].namespace = ings[i].namespace
  BY DEF Authorized, Owns
<1>3. Oldest(more, p, a) /\ more[a].namespace = ings[i].namespace /\ a \in DOMAIN more
  BY <1>1, <1>2, OldestKept
<1>4. ~Dropped(ings, p)
  BY DEF Authorized
<1>5. ASSUME p \in Wildcards, NEW e \in ExactHosts, Conflict(more, p, e), Older(more, e, p)
      PROVE  FALSE
  <2>1. PICK c, d \in DOMAIN more : Oldest(more, p, c) /\ Oldest(more, e, d) /\ d < c
    BY <1>5 DEF Older
  <2>2. PICK c2, d2 \in DOMAIN more :
          Oldest(more, p, c2) /\ Oldest(more, e, d2) /\ more[c2].namespace # more[d2].namespace
    BY <1>5 DEF Conflict
  <2>3. c = a /\ c2 = a /\ d2 = d
    BY <1>1, <1>3, <2>1, <2>2, OldestUnique
  <2>4. d \in DOMAIN ings /\ d < a
    BY <1>1, <2>1, <2>3 DEF Aged
  <2>5. Oldest(ings, e, d) /\ ings[a].namespace # ings[d].namespace
    BY <1>1, <2>1, <2>2, <2>3, <2>4, OldestKept
  <2>6. Covers(p, e)
    BY <1>5 DEF Conflict
  <2>7. Conflict(ings, p, e) /\ Older(ings, e, p)
    BY <1>2, <2>4, <2>5, <2>6 DEF Conflict, Older
  <2> QED
    BY <1>4, <1>5, <2>7 DEF Dropped
<1>6. ASSUME NEW w \in Wildcards, Conflict(more, w, p),
             \A e \in ExactHosts : Conflict(more, w, e) => ~Older(more, e, w)
      PROVE  FALSE
  <2>1. PICK c, d \in DOMAIN more :
          Oldest(more, w, c) /\ Oldest(more, p, d) /\ more[c].namespace # more[d].namespace
    BY <1>6 DEF Conflict
  <2>2. d = a
    BY <1>1, <1>3, <2>1, OldestUnique
  <2>3. Covers(w, p) /\ p \in ExactHosts
    BY <1>6 DEF Conflict, Covers
  <2>4. ~ a < c
    <3>1. ~Older(more, p, w)
      BY <1>6, <2>3
    <3> QED
      BY <3>1, <2>1, <2>2 DEF Older
  <2>5. c \in DOMAIN ings
    BY <1>1, <2>1, <2>4
  <2>6. Oldest(ings, w, c)
    BY <2>1, <2>5, OldestKept
  <2>7. Conflict(ings, w, p)
    BY <1>1, <1>2, <2>1, <2>2, <2>3, <2>5, <2>6 DEF Conflict
  <2>8. ASSUME NEW e \in ExactHosts, Conflict(ings, w, e), Older(ings, e, w) PROVE FALSE
    <3>1. PICK x, y \in DOMAIN ings :
            Oldest(ings, w, x) /\ Oldest(ings, e, y) /\ ings[x].namespace # ings[y].namespace
      BY <2>8 DEF Conflict
    <3>2. PICK x2, y2 \in DOMAIN ings : Oldest(ings, w, x2) /\ Oldest(ings, e, y2) /\ y2 < x2
      BY <2>8 DEF Older
    <3>3. Covers(w, e)
      BY <2>8 DEF Conflict
    <3>4. Oldest(more, w, x) /\ Oldest(more, e, y) /\ more[x].namespace # more[y].namespace
      BY <1>1, <3>1, OldestKept
    <3>5. Oldest(more, w, x2) /\ Oldest(more, e, y2)
      BY <3>2, OldestKept
    <3>6. x \in DOMAIN more /\ y \in DOMAIN more /\ x2 \in DOMAIN more /\ y2 \in DOMAIN more
      BY <1>1
    <3>7. Conflict(more, w, e) /\ Older(more, e, w)
      BY <3>2, <3>3, <3>4, <3>5, <3>6 DEF Conflict, Older
    <3> QED
      BY <1>6, <3>7
  <2> QED
    BY <1>4, <2>7, <2>8 DEF Dropped
<1>7. ~Dropped(more, p)
  BY <1>5, <1>6 DEF Dropped
<1> QED
  BY <1>3, <1>7 DEF Owns

(* The specification *)

HostsTypeOK == Typed(ingresses)

\* Ingresses are kept by age whatever is created, edited and deleted.
THEOREM IngressesTyped == HostsSpec => []HostsTypeOK
<1>1. HostsInit => HostsTypeOK
  BY DEF HostsInit, HostsTypeOK, Typed
<1>2. ASSUME HostsTypeOK, [HostsNext]_hostVars PROVE HostsTypeOK'
  <2>1. PICK D \in SUBSET Ages : ingresses \in [D -> Ingress]
    BY <1>2 DEF HostsTypeOK, Typed
  <2>2. ASSUME NEW k \in Ages \ DOMAIN ingresses, NEW g \in Ingress, CreateIngress(k, g)
        PROVE  HostsTypeOK'
    <3>1. ingresses' \in [D \cup {k} -> Ingress]
      BY <2>1, <2>2 DEF CreateIngress
    <3> QED
      BY <3>1 DEF HostsTypeOK, Typed
  <2>3. ASSUME NEW i \in DOMAIN ingresses, DeleteIngress(i) PROVE HostsTypeOK'
    <3>1. ingresses' \in [D \ {i} -> Ingress]
      BY <2>1, <2>3 DEF DeleteIngress
    <3> QED
      BY <3>1 DEF HostsTypeOK, Typed
  <2>4. ASSUME NEW i \in DOMAIN ingresses, NEW c \in SUBSET Patterns, EditIngress(i, c)
        PROVE  HostsTypeOK'
    <3>1. ingresses' \in [D -> Ingress]
      BY <2>1, <2>4 DEF EditIngress, Ingress
    <3> QED
      BY <3>1 DEF HostsTypeOK, Typed
  <2>5. CASE UNCHANGED hostVars
    BY <1>2, <2>5 DEF hostVars, HostsTypeOK
  <2> QED
    BY <1>2, <2>2, <2>3, <2>4, <2>5 DEF HostsNext
<1> QED
  BY <1>1, <1>2, PTL DEF HostsSpec

\* Hostnames have one owner, the oldest Ingress is served, and a younger
\* Ingress withdraws nobody (authorize_hosts), for any set of Ingresses.
THEOREM OwnershipHolds == HostsSpec => HostsOwned
<1>1. HostsTypeOK => Exclusive
  <2> SUFFICES ASSUME HostsTypeOK,
                      NEW i \in DOMAIN ingresses, NEW j \in DOMAIN ingresses,
                      Authorized(ingresses, i), Authorized(ingresses, j),
                      ingresses[i].namespace # ingresses[j].namespace,
                      NEW p \in ingresses[i].claims, NEW q \in ingresses[j].claims
               PROVE  ~Overlap(p, q)
    BY DEF Exclusive
  <2>1. p # q /\ ~Covers(p, q) /\ ~Covers(q, p)
    BY TypedAged, AuthorizedApart DEF HostsTypeOK
  <2> QED
    BY <2>1 DEF Overlap
<1>2. HostsTypeOK => OldestServed
  BY TypedAged, OldestAuthorized DEF OldestServed, HostsTypeOK
<1>3. ASSUME HostsTypeOK, HostsTypeOK', HostsNext PROVE NewcomerHarmless
  <2> SUFFICES ASSUME NEW n \in DOMAIN ingresses' \ DOMAIN ingresses,
                      \A i \in DOMAIN ingresses : i < n,
                      NEW i \in DOMAIN ingresses, Authorized(ingresses, i)
               PROVE  Authorized(ingresses', i)
    BY DEF NewcomerHarmless
  <2>1. Aged(ingresses) /\ Aged(ingresses')
    BY <1>3, TypedAged DEF HostsTypeOK
  <2>2. PICK k \in Ages \ DOMAIN ingresses, g \in Ingress : CreateIngress(k, g)
    BY <1>3 DEF HostsNext, DeleteIngress, EditIngress
  <2>3. DOMAIN ingresses' = DOMAIN ingresses \cup {k}
    BY <2>2 DEF CreateIngress
  <2>4. k = n
    BY <2>2, <2>3
  <2>5. \A j \in DOMAIN ingresses : ingresses'[j] = ingresses[j]
    BY <2>2 DEF CreateIngress
  <2>6. Extends(ingresses, ingresses', n)
    BY <2>1, <2>3, <2>4, <2>5 DEF Extends
  <2> QED
    BY <2>6, YoungerHarmless
<1>4. (HostsTypeOK /\ HostsTypeOK' /\ [HostsNext]_hostVars)
        => [NewcomerHarmless]_hostVars
  BY <1>3
<1> QED
  BY <1>1, <1>2, <1>4, IngressesTyped, PTL DEF HostsSpec, HostsOwned

-----------------------------------------------------------------------------
(* Members *)

\* Members drain in the open, admit exactly while they serve, and stay
\* retired: MembersExact of module MemberRetirement, for any number of
\* members, endpoints, connections and publications.

(* The inductive invariant *)

\* The gates that publishing the candidate retires.
Plan == {gate[m] : m \in Members} \ ({cand.gate[m] : m \in Members} \cup {0})

\* How far the publication got, and what it still owes the registry.
PhaseInv ==
  /\ phase = "idle" => cand = NoCandidate /\ todo = {} /\ closing = 0 /\ pending = 0
  /\ phase = "prepared" =>
       todo = {} /\ closing = 0 /\ pending = cand.slots /\ cand.slots = Cardinality(Plan)
  /\ phase = "closing" => pending = 0 /\ todo \subseteq Plan /\ closing \in todo \cup {0}
  /\ closing # 0 => bit[closing] = "retired"

\* Gates gs admit exactly the serving members of document d.
Admits(d, gs) ==
  \A m \in Members : d.members[m] # Absent =>
    gs[m] # 0 /\ (bit[gs[m]] = "open" <=> d.members[m].state = "serving")

\* Published and candidate gates are in use, and what is new in the candidate
\* is not published.
GateInv ==
  /\ \A m \in Members : gate[m] # 0 => bit[gate[m]] # "unused" /\ gate[m] \notin cand.fresh
  /\ \A m \in Members : cand.gate[m] # 0 => bit[cand.gate[m]] # "unused"
  /\ phase # "closing" => Admits(doc, gate)
  /\ phase # "idle" => Admits(cand.doc, cand.gate)

\* A connection is on a gate that was published.
ConnInv ==
  \A c \in Conns :
    \/ conn[c] = Idle
    \/ /\ conn[c].at \in {"selected", "dialing", "forwarding"} /\ conn[c].gate \in Gates
       /\ bit[conn[c].gate] # "unused" /\ conn[c].gate \notin cand.fresh

\* What is recorded is retired; the gates still to be closed have room.
RegistryInv ==
  /\ IsFiniteSet(records)
  /\ \A r \in records : bit[r.gate] = "retired" /\ r.gate \notin cand.fresh
  /\ Cardinality(Live(records)) + pending + Cardinality(todo) <= Capacity
  /\ RetiredVisible

MembersInv == TypeOK /\ PhaseInv /\ GateInv /\ ConnInv /\ CountExact /\ RegistryInv

(* Sets of gates, records and connections *)

\* Sets of gates are finite.
LEMMA GatesFinite == \A S \in SUBSET Gates : IsFiniteSet(S) /\ Cardinality(S) \in Nat
<1>1. IsFiniteSet(Gates)
  BY MaxGatesAssumption, FS_Interval DEF Gates
<1> QED
  BY <1>1, FS_Subset, FS_CardinalityType

\* What a candidate plans to retire are gates.
LEMMA PlanTyped == TypeOK => Plan \in SUBSET Gates
  BY DEF TypeOK, Plan

\* The records still counted are finite.
LEMMA LiveFinite ==
  ASSUME IsFiniteSet(records)
  PROVE  IsFiniteSet(Live(records)) /\ Cardinality(Live(records)) \in Nat
<1>1. Live(records) \in SUBSET records
  BY DEF Live
<1> QED
  BY <1>1, FS_Subset, FS_CardinalityType

\* The connections that hold a lease on a gate are finite.
LEMMA HoldersFinite == \A g : IsFiniteSet(Holders(g)) /\ Cardinality(Holders(g)) \in Nat
<1> SUFFICES ASSUME NEW g PROVE IsFiniteSet(Holders(g)) /\ Cardinality(Holders(g)) \in Nat
  OBVIOUS
<1>1. Holders(g) \in SUBSET Conns
  BY DEF Holders
<1> QED
  BY <1>1, ConnsAssumption, FS_Subset, FS_CardinalityType

\* Nobody holds a gate that was never published.
LEMMA UnusedIdle ==
  ASSUME TypeOK, ConnInv, CountExact, NEW g \in Gates, bit[g] = "unused" \/ g \in cand.fresh
  PROVE  count[g] = 0
<1>1. Holders(g) = {}
  BY DEF Holders, ConnInv, Idle
<1> QED
  BY <1>1, FS_EmptySet DEF CountExact

\* The empty document, and the absence of a candidate.
LEMMA EmptyTyped == Empty \in Document /\ NoCandidate.doc = Empty /\ NoCandidate.fresh = {}
                    /\ NoCandidate.slots = 0 /\ NoCandidate.gate = [m \in Members |-> 0]
<1>1. (CHOOSE t \in Transports : TRUE) \in Transports
  BY TransportsAssumption
<1> QED
  BY <1>1 DEF Empty, Document, Member, NoCandidate

\* The absence of a candidate is a candidate's record.
LEMMA NoCandidateTyped ==
  NoCandidate \in [doc : Document, gate : [Members -> Gates \cup {0}], fresh : SUBSET Gates, slots : Nat]
  BY EmptyTyped DEF NoCandidate

\* Nothing published, nothing leased to begin with.
LEMMA InitHolds == MembersInit => MembersInv
<1> SUFFICES ASSUME MembersInit PROVE MembersInv
  OBVIOUS
<1>1. TypeOK
  BY EmptyTyped, NoCandidateTyped DEF MembersInit, TypeOK, Idle
<1>2. PhaseInv /\ GateInv /\ ConnInv
  BY EmptyTyped DEF MembersInit, PhaseInv, GateInv, ConnInv, Admits, Empty, Absent
<1>3. CountExact
  <2>1. \A g \in Gates : Holders(g) = {}
    BY DEF MembersInit, Holders, Idle
  <2> QED
    BY <2>1, FS_EmptySet DEF CountExact, MembersInit
<1>4. RegistryInv
  <2>1. Live(records) = {}
    BY DEF MembersInit, Live
  <2>2. RetiredVisible
    BY DEF MembersInit, RetiredVisible, Looked
  <2> QED
    BY <2>1, <2>2, FS_EmptySet, CapacityAssumption DEF RegistryInv, MembersInit
<1> QED
  BY <1>1, <1>2, <1>3, <1>4 DEF MembersInv

(* Connections *)

\* Only connection c and the count of its gate change.
ConnStep(c) ==
  /\ UNCHANGED <<doc, gate, cand, phase, todo, closing, bit, records, pending, nextId>>
  /\ conn' \in [Conns -> [at : {"idle", "selected", "dialing", "forwarding"}, gate : Gates \cup {0}]]
  /\ \A d \in Conns \ {c} : conn'[d] = conn[d]

\* A connection step that keeps the counts exact, and raises none of a retired
\* gate, keeps the invariant.
LEMMA ConnKeeps ==
  ASSUME MembersInv, NEW c \in Conns, ConnStep(c), count' \in [Gates -> Nat], CountExact',
         \/ conn'[c] = Idle
         \/ /\ conn'[c].at \in {"selected", "dialing", "forwarding"} /\ conn'[c].gate \in Gates
            /\ bit[conn'[c].gate] # "unused" /\ conn'[c].gate \notin cand.fresh,
         \A g \in Gates : bit[g] = "retired" => count'[g] <= count[g]
  PROVE  MembersInv' /\ RetirementIsFinal
<1>1. TypeOK'
  BY DEF MembersInv, TypeOK, ConnStep
<1>2. PhaseInv' /\ GateInv' /\ ConnInv'
  BY DEF MembersInv, PhaseInv, GateInv, ConnInv, Admits, Plan, ConnStep
<1>3. RetirementIsFinal
  BY DEF RetirementIsFinal, ConnStep
<1>4. RetiredVisible'
  BY DEF MembersInv, TypeOK, RegistryInv, RetiredVisible, Looked, ConnStep
<1>5. Live(records)' \in SUBSET Live(records)
  BY DEF MembersInv, TypeOK, RegistryInv, Live, ConnStep
<1>6. RegistryInv'
  <2>1. IsFiniteSet(Live(records)) /\ Cardinality(Live(records)) \in Nat
    BY LiveFinite DEF MembersInv, RegistryInv
  <2>2. Cardinality(Live(records)') <= Cardinality(Live(records)) /\ IsFiniteSet(Live(records)')
    BY <1>5, <2>1, FS_Subset
  <2>3. Cardinality(Live(records)') \in Nat
    BY <2>2, FS_CardinalityType
  <2>4. Cardinality(todo) \in Nat /\ pending \in Nat
    BY GatesFinite DEF MembersInv, TypeOK
  <2>5. Cardinality(Live(records)') + pending' + Cardinality(todo') <= Capacity
    BY <2>1, <2>2, <2>3, <2>4, CapacityAssumption DEF MembersInv, RegistryInv, ConnStep
  <2> QED
    BY <1>4, <2>5 DEF MembersInv, RegistryInv, ConnStep
<1> QED
  BY <1>1, <1>2, <1>3, <1>6 DEF MembersInv

\* Selecting a member takes no lease yet.
LEMMA SelectKeeps ==
  ASSUME MembersInv, NEW c \in Conns, Select(c)
  PROVE  MembersInv' /\ RetirementIsFinal
<1>1. PICK m \in Members : gate[m] # 0 /\ bit[gate[m]] = "open"
                           /\ conn' = [conn EXCEPT ![c] = [at |-> "selected", gate |-> gate[m]]]
  BY DEF Select
<1>2. gate[m] \in Gates /\ gate[m] \notin cand.fresh
  BY <1>1 DEF MembersInv, TypeOK, GateInv
<1>3. ConnStep(c) /\ conn'[c] = [at |-> "selected", gate |-> gate[m]]
  BY <1>1, <1>2 DEF Select, ConnStep, registryVars, MembersInv, TypeOK
<1>4. \A g \in Gates : Holders(g)' = Holders(g)
  BY <1>3 DEF Select, Holders, Idle, ConnStep
<1>5. CountExact' /\ count' = count
  BY <1>4 DEF Select, CountExact, MembersInv
<1>6. count' \in [Gates -> Nat] /\ \A g \in Gates : count'[g] <= count[g]
  BY <1>5 DEF MembersInv, TypeOK
<1> QED
  BY <1>1, <1>2, <1>3, <1>5, <1>6, ConnKeeps

\* Ending a lease lowers the count of its gate and of no other.
LEMMA ReleaseKeeps ==
  ASSUME MembersInv, NEW c \in Conns, conn[c].at \in {"dialing", "forwarding"}, Release(c),
         UNCHANGED <<doc, gate, cand, phase, todo, closing, bit, registryVars>>
  PROVE  MembersInv' /\ RetirementIsFinal
<1>0. PICK g \in Gates : g = conn[c].gate
  BY DEF MembersInv, ConnInv, Idle
<1>1. ConnStep(c) /\ conn'[c] = Idle
  BY DEF Release, ConnStep, registryVars, MembersInv, TypeOK, Idle
<1>2. Holders(g)' = Holders(g) \ {c} /\ c \in Holders(g)
  BY <1>0, <1>1 DEF Holders, ConnStep, Idle
<1>3. \A h \in Gates \ {g} : Holders(h)' = Holders(h)
  BY <1>0, <1>1 DEF Holders, ConnStep, Idle
<1>4. /\ count'[g] = count[g] - 1 /\ \A h \in Gates \ {g} : count'[h] = count[h]
      /\ DOMAIN count' = Gates /\ count' = [h \in Gates |-> count'[h]]
  BY <1>0 DEF Release, MembersInv, TypeOK
<1>5. Cardinality(Holders(g)') = Cardinality(Holders(g)) - 1 /\ Cardinality(Holders(g)') \in Nat
  <2>1. IsFiniteSet(Holders(g)) /\ Cardinality(Holders(g)) \in Nat
    BY HoldersFinite
  <2>2. Cardinality(Holders(g) \ {c}) = Cardinality(Holders(g)) - 1 /\ IsFiniteSet(Holders(g) \ {c})
    BY <1>2, <2>1, FS_RemoveElement
  <2> QED
    BY <1>2, <2>2, FS_CardinalityType
<1>6. CountExact'
  <2>1. count'[g] = Cardinality(Holders(g)')
    BY <1>4, <1>5 DEF MembersInv, CountExact
  <2>2. \A h \in Gates \ {g} : count'[h] = Cardinality(Holders(h)')
    BY <1>3, <1>4 DEF MembersInv, CountExact
  <2> QED
    BY <2>1, <2>2 DEF CountExact
<1>7. count' \in [Gates -> Nat] /\ \A h \in Gates : count'[h] <= count[h]
  <2>1. count'[g] \in Nat /\ count[g] \in Nat
    BY <1>4, <1>5 DEF MembersInv, CountExact, TypeOK
  <2> QED
    BY <1>4, <2>1 DEF MembersInv, TypeOK
<1> QED
  BY <1>1, <1>6, <1>7, ConnKeeps

\* A lease is counted at a gate that is open, or refused.
LEMMA LeaseKeeps ==
  ASSUME MembersInv, NEW c \in Conns, Lease(c)
  PROVE  MembersInv' /\ RetirementIsFinal
<1>0. PICK g \in Gates : g = conn[c].gate
  BY DEF Lease, MembersInv, ConnInv, Idle
<1>1. CASE bit[g] # "open"
  <2>1. ConnStep(c) /\ conn'[c] = Idle /\ count' = count
    BY <1>0, <1>1 DEF Lease, ConnStep, registryVars, MembersInv, TypeOK, Idle
  <2>2. \A h \in Gates : Holders(h)' = Holders(h)
    BY <2>1 DEF Lease, Holders, Idle, ConnStep
  <2>3. CountExact'
    BY <2>1, <2>2 DEF CountExact, MembersInv
  <2>4. count' \in [Gates -> Nat] /\ \A h \in Gates : count'[h] <= count[h]
    BY <2>1 DEF MembersInv, TypeOK
  <2> QED
    BY <2>1, <2>3, <2>4, ConnKeeps
<1>2. CASE bit[g] = "open"
  <2>1. /\ ConnStep(c) /\ conn'[c].at = "dialing" /\ conn'[c].gate = g /\ conn[c].at = "selected"
        /\ g \notin cand.fresh
    BY <1>0, <1>2 DEF Lease, ConnStep, registryVars, MembersInv, TypeOK, ConnInv, Idle
  <2>2. Holders(g)' = Holders(g) \cup {c} /\ c \notin Holders(g)
    BY <1>0, <2>1 DEF Holders, ConnStep
  <2>3. \A h \in Gates \ {g} : Holders(h)' = Holders(h)
    BY <1>0, <2>1 DEF Holders, ConnStep
  <2>4. /\ count'[g] = count[g] + 1 /\ \A h \in Gates \ {g} : count'[h] = count[h]
        /\ count' \in [Gates -> Nat]
    BY <1>0, <1>2 DEF Lease, MembersInv, TypeOK
  <2>5. Cardinality(Holders(g)') = Cardinality(Holders(g)) + 1
    BY <2>2, HoldersFinite, FS_AddElement
  <2>6. CountExact'
    <3>1. count'[g] = Cardinality(Holders(g)')
      BY <2>4, <2>5 DEF MembersInv, CountExact
    <3>2. \A h \in Gates \ {g} : count'[h] = Cardinality(Holders(h)')
      BY <2>3, <2>4 DEF MembersInv, CountExact
    <3> QED
      BY <3>1, <3>2 DEF CountExact
  <2>7. \A h \in Gates : bit[h] = "retired" => count'[h] <= count[h]
    BY <1>2, <2>4 DEF MembersInv, TypeOK
  <2> QED
    BY <1>2, <2>1, <2>4, <2>6, <2>7, ConnKeeps
<1> QED
  BY <1>1, <1>2

\* A dialled connection keeps its lease, or returns it to a gate that has closed.
LEMMA DialedKeeps ==
  ASSUME MembersInv, NEW c \in Conns, Dialed(c)
  PROVE  MembersInv' /\ RetirementIsFinal
<1>1. CASE bit[conn[c].gate] = "open"
  <2>1. ConnStep(c) /\ conn'[c].at = "forwarding" /\ conn'[c].gate = conn[c].gate /\ count' = count
    BY <1>1 DEF Dialed, ConnStep, registryVars, MembersInv, TypeOK
  <2>2. \A h \in Gates : Holders(h)' = Holders(h)
    BY <2>1 DEF Dialed, Holders, ConnStep
  <2>3. CountExact'
    BY <2>1, <2>2 DEF CountExact, MembersInv
  <2>4. count' \in [Gates -> Nat] /\ \A h \in Gates : count'[h] <= count[h]
    BY <2>1 DEF MembersInv, TypeOK
  <2>5. conn[c].gate \in Gates /\ conn[c].gate \notin cand.fresh
    BY DEF Dialed, MembersInv, ConnInv, Idle
  <2> QED
    BY <1>1, <2>1, <2>3, <2>4, <2>5, ConnKeeps
<1>2. CASE bit[conn[c].gate] # "open"
  <2>1. /\ Release(c) /\ conn[c].at \in {"dialing", "forwarding"}
        /\ UNCHANGED <<doc, gate, cand, phase, todo, closing, bit, registryVars>>
    BY <1>2 DEF Dialed
  <2> QED
    BY <2>1, ReleaseKeeps
<1> QED
  BY <1>1, <1>2

\* A connection that ends returns its lease.
LEMMA FinishKeeps ==
  ASSUME MembersInv, NEW c \in Conns, Finish(c)
  PROVE  MembersInv' /\ RetirementIsFinal
  BY ReleaseKeeps DEF Finish

(* Publication *)

\* A step that leaves counts and connections keeps the count exact.
LEMMA SameHolders ==
  ASSUME CountExact, UNCHANGED <<count, conn>>
  PROVE  CountExact'
<1>1. \A g \in Gates : Holders(g)' = Holders(g)
  BY DEF Holders
<1> QED
  BY <1>1 DEF CountExact

\* The records still counted, when no count changes.
LEMMA SameLive ==
  ASSUME UNCHANGED count, NEW rs
  PROVE  {r \in rs : count'[r.gate] > 0} = Live(rs) /\ Live(Live(rs)) = Live(rs)
  BY DEF Live

\* Pruning drops only records whose leases are all returned.
LEMMA ObserveKeeps ==
  ASSUME MembersInv, Observe
  PROVE  MembersInv' /\ RetirementIsFinal
<1>1. UNCHANGED <<doc, gate, cand, phase, todo, closing, bit, count, pending, nextId, conn>>
      /\ records' = Live(records)
  BY DEF Observe
<1>2. TypeOK'
  BY <1>1 DEF MembersInv, TypeOK, Live
<1>3. PhaseInv' /\ GateInv' /\ ConnInv' /\ RetirementIsFinal
  BY <1>1 DEF MembersInv, TypeOK, PhaseInv, GateInv, ConnInv, Admits, Plan, RetirementIsFinal
<1>4. CountExact'
  BY <1>1, SameHolders DEF MembersInv
<1>5. RegistryInv'
  <2>1. IsFiniteSet(records')
    BY <1>1, LiveFinite DEF MembersInv, RegistryInv
  <2>2. Live(records)' = Live(records)
    BY <1>1 DEF Live
  <2>3. RetiredVisible'
    BY <1>1 DEF MembersInv, TypeOK, RegistryInv, RetiredVisible, Looked, Live
  <2>4. \A r \in records' : r \in records
    BY <1>1 DEF Live
  <2> QED
    BY <1>1, <2>1, <2>2, <2>3, <2>4 DEF MembersInv, RegistryInv
<1> QED
  BY <1>2, <1>3, <1>4, <1>5 DEF MembersInv

\* An abandoned candidate returns its reservation and its new gates.
LEMMA AbandonKeeps ==
  ASSUME MembersInv, Abandon
  PROVE  MembersInv' /\ RetirementIsFinal
<1>1. /\ UNCHANGED <<doc, gate, todo, closing, count, records, nextId, conn>>
      /\ phase = "prepared" /\ phase' = "idle" /\ cand' = NoCandidate
      /\ todo = {} /\ closing = 0 /\ pending' = 0
  BY DEF Abandon, MembersInv, PhaseInv, TypeOK
<1>2. \A g \in Gates : /\ g \in cand.fresh => bit'[g] = "unused"
                       /\ g \notin cand.fresh => bit'[g] = bit[g]
  BY DEF Abandon
<1>3. bit' \in [Gates -> {"unused", "open", "retired"}]
  BY DEF Abandon, MembersInv, TypeOK
<1>4. TypeOK'
  BY <1>1, <1>3, NoCandidateTyped DEF MembersInv, TypeOK
<1>5. PhaseInv'
  BY <1>1 DEF PhaseInv
<1>6. GateInv'
  <2>1. \A m \in Members : gate[m] # 0 => bit'[gate[m]] = bit[gate[m]]
    BY <1>2 DEF MembersInv, TypeOK, GateInv
  <2>2. \A m \in Members : gate'[m] # 0 => bit'[gate'[m]] # "unused" /\ gate'[m] \notin cand'.fresh
    BY <1>1, <2>1, EmptyTyped DEF MembersInv, GateInv
  <2>3. \A m \in Members : cand'.gate[m] = 0
    BY <1>1, EmptyTyped
  <2>4. Admits(doc, gate)'
    BY <1>1, <2>1 DEF MembersInv, GateInv, Admits
  <2> QED
    BY <1>1, <2>2, <2>3, <2>4 DEF GateInv
<1>7. ConnInv'
  BY <1>1, <1>2, EmptyTyped DEF MembersInv, ConnInv
<1>8. CountExact'
  BY <1>1, SameHolders DEF MembersInv
<1>9. RegistryInv'
  <2>1. \A r \in records : r.gate \in Gates
    BY DEF MembersInv, TypeOK
  <2>2. \A r \in records' : bit'[r.gate] = "retired" /\ r.gate \notin cand'.fresh
    BY <1>1, <1>2, <2>1, EmptyTyped DEF MembersInv, RegistryInv
  <2>3. RetiredVisible'
    BY <1>1, <1>2 DEF MembersInv, RegistryInv, RetiredVisible, Looked
  <2>4. Live(records)' = Live(records)
    BY <1>1 DEF Live
  <2>5. Cardinality(Live(records)) \in Nat /\ pending \in Nat /\ Cardinality(todo) \in Nat
    BY LiveFinite, GatesFinite DEF MembersInv, RegistryInv, TypeOK
  <2>6. Cardinality(Live(records)) + pending' + Cardinality(todo) <= Capacity
    BY <1>1, <2>5, CapacityAssumption DEF MembersInv, RegistryInv
  <2> QED
    BY <1>1, <2>2, <2>3, <2>4, <2>6 DEF MembersInv, RegistryInv
<1>10. RetirementIsFinal
  BY <1>1, <1>2 DEF RetirementIsFinal, MembersInv, TypeOK
<1> QED
  BY <1>4, <1>5, <1>6, <1>7, <1>8, <1>9, <1>10 DEF MembersInv

\* A commit returns its reservation and plans which gates to close.
LEMMA CommitBeginKeeps ==
  ASSUME MembersInv, CommitBegin
  PROVE  MembersInv' /\ RetirementIsFinal
<1>1. /\ UNCHANGED <<doc, gate, cand, closing, bit, count, records, nextId, conn>>
      /\ phase = "prepared" /\ phase' = "closing" /\ closing = 0 /\ todo = {}
      /\ todo' = Plan /\ pending' = 0 /\ pending = Cardinality(Plan)
  BY DEF CommitBegin, MembersInv, PhaseInv, TypeOK, Plan
<1>2. TypeOK'
  BY <1>1, PlanTyped DEF MembersInv, TypeOK
<1>3. PhaseInv'
  BY <1>1 DEF MembersInv, PhaseInv, Plan
<1>4. GateInv' /\ ConnInv' /\ RetirementIsFinal
  BY <1>1 DEF MembersInv, TypeOK, GateInv, ConnInv, Admits, RetirementIsFinal
<1>5. CountExact'
  BY <1>1, SameHolders DEF MembersInv
<1>6. RegistryInv'
  <2>1. Live(records)' = Live(records) /\ RetiredVisible'
    BY <1>1 DEF Live, RetiredVisible, Looked, MembersInv, RegistryInv
  <2>2. Cardinality(Live(records)) \in Nat /\ Cardinality(Plan) \in Nat /\ Cardinality(todo) = 0
    BY <1>1, LiveFinite, GatesFinite, PlanTyped, FS_EmptySet DEF MembersInv, RegistryInv
  <2>3. Cardinality(Live(records)) + pending' + Cardinality(todo') <= Capacity
    BY <1>1, <2>2, CapacityAssumption DEF MembersInv, RegistryInv
  <2> QED
    BY <1>1, <2>1, <2>3 DEF MembersInv, RegistryInv
<1> QED
  BY <1>2, <1>3, <1>4, <1>5, <1>6 DEF MembersInv

\* A gate of the plan is closed.
LEMMA RetireKeeps ==
  ASSUME MembersInv, NEW g \in Gates, Retire(g)
  PROVE  MembersInv' /\ RetirementIsFinal
<1>1. /\ UNCHANGED <<doc, gate, cand, phase, todo, count, records, pending, nextId, conn>>
      /\ phase = "closing" /\ closing = 0 /\ g \in todo /\ closing' = g /\ g # 0 /\ g \in Plan
  BY DEF Retire, registryVars, MembersInv, PhaseInv, Gates
<1>2. /\ bit' \in [Gates -> {"unused", "open", "retired"}] /\ bit'[g] = "retired"
      /\ \A h \in Gates \ {g} : bit'[h] = bit[h]
  BY DEF Retire, MembersInv, TypeOK
<1>3. TypeOK'
  BY <1>1, <1>2 DEF MembersInv, TypeOK
<1>4. PhaseInv'
  BY <1>1, <1>2 DEF MembersInv, PhaseInv, Plan
<1>5. GateInv'
  <2>1. \A h \in Gates : bit[h] # "unused" => bit'[h] # "unused"
    BY <1>2
  <2>2. \A m \in Members : cand.gate[m] # 0 => bit'[cand.gate[m]] = bit[cand.gate[m]]
    BY ZenonT(60), <1>1, <1>2 DEF Plan, MembersInv, TypeOK
  <2>3. Admits(cand.doc, cand.gate)'
    BY <1>1, <2>2 DEF Admits, MembersInv, GateInv
  <2>4. /\ \A m \in Members : gate'[m] # 0 => bit'[gate'[m]] # "unused" /\ gate'[m] \notin cand'.fresh
        /\ \A m \in Members : cand'.gate[m] # 0 => bit'[cand'.gate[m]] # "unused"
    BY <1>1, <2>1 DEF MembersInv, GateInv, TypeOK
  <2> QED
    BY <1>1, <2>3, <2>4 DEF GateInv
<1>6. ConnInv'
  BY <1>1, <1>2 DEF MembersInv, ConnInv
<1>7. CountExact'
  BY <1>1, SameHolders DEF MembersInv
<1>8. RegistryInv'
  <2>1. \A r \in records : r.gate \in Gates
    BY DEF MembersInv, TypeOK
  <2>2. Live(records)' = Live(records)
    BY <1>1 DEF Live
  <2>3. RetiredVisible'
    <3> SUFFICES ASSUME NEW h \in Gates, Looked(h)', count'[h] > 0
                 PROVE  \E r \in records' : r.gate = h
      BY DEF RetiredVisible
    <3>1. h # g /\ Looked(h) /\ count[h] > 0
      BY <1>1, <1>2 DEF Looked, Gates
    <3> QED
      BY <1>1, <3>1 DEF MembersInv, RegistryInv, RetiredVisible
  <2> QED
    BY <1>1, <1>2, <2>1, <2>2, <2>3 DEF MembersInv, RegistryInv
<1>9. RetirementIsFinal
  BY <1>1, <1>2 DEF RetirementIsFinal, MembersInv, TypeOK
<1> QED
  BY <1>3, <1>4, <1>5, <1>6, <1>7, <1>8, <1>9 DEF MembersInv

\* A closed gate that still has leases is recorded.
LEMMA RecordRetiredKeeps ==
  ASSUME MembersInv, RecordRetired
  PROVE  MembersInv' /\ RetirementIsFinal
<1>0. /\ closing # 0 /\ closing \in Gates /\ phase = "closing" /\ closing \in todo /\ closing \in Plan
      /\ bit[closing] = "retired"
  BY DEF RecordRetired, MembersInv, PhaseInv, TypeOK
<1>1. /\ UNCHANGED <<doc, gate, cand, phase, bit, count, pending, conn>>
      /\ nextId' = nextId + 1 /\ todo' = todo \ {closing} /\ closing' = 0
  BY DEF RecordRetired
<1>a. PICK new : new = [id |-> nextId, gate |-> closing]
  OBVIOUS
<1>2. /\ new.gate = closing /\ new \in [id : Nat, gate : Gates]
      /\ count[closing] > 0 => records' = records \cup {new}
      /\ ~(count[closing] > 0) => records' = records
  BY <1>0, <1>a DEF RecordRetired, MembersInv, TypeOK
<1>3. TypeOK'
  BY <1>1, <1>2 DEF MembersInv, TypeOK
<1>4. PhaseInv'
  BY <1>0, <1>1 DEF MembersInv, PhaseInv, Plan
<1>5. GateInv' /\ ConnInv' /\ RetirementIsFinal
  BY <1>1 DEF MembersInv, TypeOK, GateInv, ConnInv, Admits, RetirementIsFinal
<1>6. CountExact'
  BY <1>1, SameHolders DEF MembersInv
<1>7. RegistryInv'
  <2>1. closing \notin cand.fresh
    BY <1>0 DEF Plan, MembersInv, GateInv
  <2>2. IsFiniteSet(records')
    BY <1>2, FS_AddElement DEF MembersInv, RegistryInv
  <2>3. \A r \in records' : bit'[r.gate] = "retired" /\ r.gate \notin cand'.fresh
    BY <1>0, <1>1, <1>2, <2>1 DEF MembersInv, RegistryInv
  <2>4. RetiredVisible'
    <3> SUFFICES ASSUME NEW h \in Gates, Looked(h)', count'[h] > 0
                 PROVE  \E r \in records' : r.gate = h
      BY DEF RetiredVisible
    <3>1. CASE h = closing
      BY <1>1, <1>2, <3>1
    <3>2. CASE h # closing
      <4>1. Looked(h) /\ count[h] > 0
        BY <1>1, <3>2 DEF Looked
      <4> QED
        BY <1>2, <4>1 DEF MembersInv, RegistryInv, RetiredVisible
    <3> QED
      BY <3>1, <3>2
  <2>5. Cardinality(Live(records)') + pending' + Cardinality(todo') <= Capacity
    <3>1. Live(records)' \in SUBSET (Live(records) \cup {new})
      BY <1>1, <1>2 DEF Live
    <3>2. IsFiniteSet(Live(records)) /\ Cardinality(Live(records)) \in Nat
      BY LiveFinite DEF MembersInv, RegistryInv
    <3>3. /\ IsFiniteSet(Live(records) \cup {new})
          /\ Cardinality(Live(records) \cup {new}) <= Cardinality(Live(records)) + 1
          /\ Cardinality(Live(records) \cup {new}) \in Nat
      BY <3>2, FS_AddElement
    <3>4. Cardinality(Live(records)') <= Cardinality(Live(records) \cup {new})
          /\ IsFiniteSet(Live(records)')
      BY <3>1, <3>3, FS_Subset
    <3>5. Cardinality(Live(records)') \in Nat
      BY <3>4, FS_CardinalityType
    <3>6. /\ Cardinality(todo') = Cardinality(todo) - 1 /\ Cardinality(todo) \in Nat
          /\ Cardinality(todo') \in Nat /\ pending \in Nat /\ pending' = pending
      BY <1>0, <1>1, <1>3, GatesFinite, FS_RemoveElement DEF MembersInv, TypeOK
    <3>7. Cardinality(Live(records)) + pending + Cardinality(todo) <= Capacity
      BY DEF MembersInv, RegistryInv
    <3> QED
      BY <3>2, <3>3, <3>4, <3>5, <3>6, <3>7, CapacityAssumption
  <2> QED
    BY <2>2, <2>3, <2>4, <2>5 DEF RegistryInv
<1> QED
  BY <1>3, <1>4, <1>5, <1>6, <1>7 DEF MembersInv

\* The snapshot becomes visible once its plan is closed.
LEMMA PublishKeeps ==
  ASSUME MembersInv, Publish
  PROVE  MembersInv' /\ RetirementIsFinal
<1>1. /\ UNCHANGED <<todo, closing, bit, count, records, pending, nextId, conn>>
      /\ phase = "closing" /\ todo = {} /\ closing = 0 /\ pending = 0
      /\ doc' = cand.doc /\ gate' = cand.gate /\ phase' = "idle" /\ cand' = NoCandidate
  BY DEF Publish, registryVars, MembersInv, PhaseInv
<1>2. TypeOK'
  BY <1>1, NoCandidateTyped DEF MembersInv, TypeOK
<1>3. PhaseInv'
  BY <1>1 DEF PhaseInv
<1>4. GateInv'
  <2>1. \A m \in Members : cand'.gate[m] = 0
    BY <1>1, EmptyTyped
  <2>2. \A m \in Members : gate'[m] # 0 => bit'[gate'[m]] # "unused" /\ gate'[m] \notin cand'.fresh
    BY <1>1, EmptyTyped DEF MembersInv, GateInv
  <2>3. Admits(doc, gate)'
    BY <1>1 DEF MembersInv, GateInv, Admits
  <2> QED
    BY <1>1, <2>1, <2>2, <2>3 DEF GateInv
<1>5. ConnInv' /\ RetirementIsFinal
  BY <1>1, EmptyTyped DEF MembersInv, TypeOK, ConnInv, RetirementIsFinal
<1>6. CountExact'
  BY <1>1, SameHolders DEF MembersInv
<1>7. RegistryInv'
  <2>1. Live(records)' = Live(records) /\ RetiredVisible'
    BY <1>1 DEF Live, RetiredVisible, Looked, MembersInv, RegistryInv
  <2> QED
    BY <1>1, <2>1, EmptyTyped DEF MembersInv, RegistryInv
<1> QED
  BY <1>2, <1>3, <1>4, <1>5, <1>6, <1>7 DEF MembersInv

\* What a preparation allocates was unused, and the candidate admits exactly
\* what its document serves.
LEMMA PrepareKeeps ==
  ASSUME MembersInv, NEW d \in Document, NEW attached \in BOOLEAN, Prepare(d, attached)
  PROVE  MembersInv' /\ RetirementIsFinal
<1> DEFINE changed == {m \in Members : d.members[m] # Absent /\ ~Reusable(d, m, attached)}
<1>1. changed = {m \in Members : d.members[m] # Absent /\ ~Reusable(d, m, attached)}
  OBVIOUS
<1>2. PICK taken \in [changed -> {g \in Gates : bit[g] = "unused"}] :
        LET next == [m \in Members |-> IF d.members[m] = Absent THEN 0
                                       ELSE IF m \in changed THEN taken[m] ELSE gate[m]]
            plan == {gate[m] : m \in Members} \ ({next[m] : m \in Members} \cup {0})
            slots == Cardinality(plan)
        IN  /\ \A m, n \in changed : taken[m] = taken[n] => m = n
            /\ slots = 0 \/ Room(slots)
            /\ records' = IF slots = 0 THEN records ELSE Live(records)
            /\ pending' = pending + slots
            /\ cand' = [doc |-> d, gate |-> next, fresh |-> {taken[m] : m \in changed},
                        slots |-> slots]
            /\ bit' = [g \in Gates |->
                         IF \E m \in changed : taken[m] = g
                         THEN IF \E m \in changed : taken[m] = g /\ d.members[m].state = "serving"
                              THEN "open" ELSE "retired"
                         ELSE bit[g]]
  BY Zenon DEF Prepare
<1> HIDE DEF changed
<1>3. PICK next : next = [m \in Members |-> IF d.members[m] = Absent THEN 0
                                            ELSE IF m \in changed THEN taken[m] ELSE gate[m]]
  OBVIOUS
<1>4. PICK plan : plan = {gate[m] : m \in Members} \ ({next[m] : m \in Members} \cup {0})
  OBVIOUS
<1>5. PICK slots : slots = Cardinality(plan)
  OBVIOUS
<1>6. PICK new : new = {taken[m] : m \in changed}
  OBVIOUS
<1>7. /\ \A m, n \in changed : taken[m] = taken[n] => m = n
      /\ slots = 0 \/ Room(slots)
      /\ records' = IF slots = 0 THEN records ELSE Live(records)
      /\ pending' = pending + slots
      /\ cand' = [doc |-> d, gate |-> next, fresh |-> new, slots |-> slots]
  BY <1>2, <1>3, <1>4, <1>5, <1>6
<1>8. \A g \in Gates \ new : bit'[g] = bit[g]
  BY <1>2, <1>6
<1>9. \A m \in changed :
        /\ taken[m] \in new /\ bit'[taken[m]] \in {"open", "retired"}
        /\ bit'[taken[m]] = "open" <=> d.members[m].state = "serving"
  BY <1>2, <1>6
<1>10. bit' \in [Gates -> {"unused", "open", "retired"}]
  BY <1>2 DEF MembersInv, TypeOK
<1>11. /\ UNCHANGED <<doc, gate, todo, closing, count, nextId, conn>>
       /\ phase = "idle" /\ phase' = "prepared" /\ cand = NoCandidate
       /\ todo = {} /\ closing = 0 /\ pending = 0
  BY DEF Prepare, MembersInv, PhaseInv
<1>12. new \in SUBSET Gates /\ \A g \in new : bit[g] = "unused"
  BY <1>6
<1>13. plan \in SUBSET Gates /\ slots \in Nat
  BY <1>4, <1>5, GatesFinite DEF MembersInv, TypeOK
<1>14. next \in [Members -> Gates \cup {0}]
  BY <1>1, <1>2, <1>3 DEF MembersInv, TypeOK
<1>15. TypeOK'
  <2>1. records' \in SUBSET records
    BY <1>7 DEF Live
  <2>2. cand' \in [doc : Document, gate : [Members -> Gates \cup {0}], fresh : SUBSET Gates, slots : Nat]
    BY <1>7, <1>12, <1>13, <1>14
  <2>3. pending' \in Nat
    BY <1>7, <1>11, <1>13
  <2> QED
    BY <1>10, <1>11, <2>1, <2>2, <2>3 DEF MembersInv, TypeOK
<1>16. PhaseInv'
  <2>1. cand'.gate = next /\ cand'.slots = slots
    BY <1>7
  <2>2. Plan' = plan
    BY <1>4, <1>11, <2>1 DEF Plan
  <2> QED
    BY <1>5, <1>7, <1>11, <1>13, <2>1, <2>2 DEF PhaseInv
<1>17. \A m \in Members : gate[m] # 0 => gate[m] \notin new /\ bit'[gate[m]] = bit[gate[m]]
  BY <1>8, <1>12 DEF MembersInv, TypeOK, GateInv
<1>18. GateInv'
  <2>1. \A m \in Members : gate'[m] # 0 => bit'[gate'[m]] # "unused" /\ gate'[m] \notin cand'.fresh
    BY <1>7, <1>11, <1>17 DEF MembersInv, GateInv
  <2>2. ASSUME NEW m \in Members, next[m] # 0
        PROVE  bit'[next[m]] # "unused"
    <3>1. CASE m \in changed
      BY <1>3, <1>9, <2>2, <3>1
    <3>2. CASE m \notin changed
      BY <1>3, <1>17, <2>2, <3>2 DEF MembersInv, GateInv
    <3> QED
      BY <3>1, <3>2
  <2>3. Admits(doc, gate)'
    BY <1>11, <1>17 DEF MembersInv, GateInv, Admits
  <2>4. ASSUME NEW m \in Members, d.members[m] # Absent
        PROVE  next[m] # 0 /\ (bit'[next[m]] = "open" <=> d.members[m].state = "serving")
    <3>1. CASE m \in changed
      <4>1. next[m] = taken[m] /\ taken[m] \in Gates
        BY <1>2, <1>3, <2>4, <3>1
      <4> QED
        BY <1>9, <3>1, <4>1 DEF Gates
    <3>2. CASE m \notin changed
      <4>1. next[m] = gate[m] /\ gate[m] # 0 /\ d.members[m] = doc.members[m]
        BY <1>1, <1>3, <2>4, <3>2 DEF Reusable
      <4> QED
        BY <1>11, <1>17, <2>4, <4>1 DEF MembersInv, GateInv, Admits
    <3> QED
      BY <3>1, <3>2
  <2>5. cand'.doc = d /\ cand'.gate = next
    BY <1>7
  <2>6. Admits(cand.doc, cand.gate)'
    BY <2>4, <2>5 DEF Admits
  <2> QED
    BY <1>11, <2>1, <2>2, <2>3, <2>5, <2>6 DEF GateInv
<1>19. ConnInv'
  BY <1>7, <1>8, <1>11, <1>12 DEF MembersInv, ConnInv
<1>20. CountExact'
  BY <1>11, SameHolders DEF MembersInv
<1>21. RegistryInv'
  <2>1. records' \in SUBSET records /\ Live(records)' = Live(records)
    BY <1>7, <1>11 DEF Live
  <2>2. IsFiniteSet(records')
    BY <2>1, FS_Subset DEF MembersInv, RegistryInv
  <2>3. \A r \in records' : bit'[r.gate] = "retired" /\ r.gate \notin cand'.fresh
    <3>1. \A r \in records : r.gate \in Gates /\ bit[r.gate] = "retired"
      BY DEF MembersInv, TypeOK, RegistryInv
    <3>2. \A r \in records : r.gate \notin new
      BY <1>12, <3>1
    <3>3. cand'.fresh = new
      BY <1>7
    <3> QED
      BY <1>8, <2>1, <3>1, <3>2, <3>3
  <2>4. RetiredVisible'
    <3> SUFFICES ASSUME NEW h \in Gates, Looked(h)', count'[h] > 0
                 PROVE  \E r \in records' : r.gate = h
      BY DEF RetiredVisible
    <3>1. h \notin new
      BY <1>11, <1>12, UnusedIdle DEF MembersInv
    <3>2. Looked(h) /\ count[h] > 0
      BY <1>8, <1>11, <3>1 DEF Looked
    <3>3. PICK r \in records : r.gate = h
      BY <3>2 DEF MembersInv, RegistryInv, RetiredVisible
    <3> QED
      BY <1>7, <3>2, <3>3 DEF Live
  <2>5. Cardinality(Live(records)) + pending' + Cardinality(todo') <= Capacity
    <3>1. Cardinality(Live(records)) \in Nat /\ Cardinality(todo) = 0
      BY <1>11, LiveFinite, FS_EmptySet DEF MembersInv, RegistryInv
    <3>2. Cardinality(Live(records)) <= Capacity
      BY <1>11, <3>1, CapacityAssumption DEF MembersInv, RegistryInv
    <3>3. slots = 0 \/ slots <= Capacity - Cardinality(Live(records))
      BY <1>7, <1>11, <3>1, CapacityAssumption DEF Room
    <3> QED
      BY <1>7, <1>11, <1>13, <3>1, <3>2, <3>3, CapacityAssumption
  <2> QED
    BY <2>1, <2>2, <2>3, <2>4, <2>5 DEF RegistryInv
<1>22. RetirementIsFinal
  <2>1. \A g \in Gates : bit[g] = "retired" => bit'[g] = "retired" /\ count'[g] <= count[g]
    BY <1>8, <1>11, <1>12 DEF MembersInv, TypeOK
  <2> QED
    BY <2>1 DEF RetirementIsFinal
<1> QED
  BY <1>15, <1>16, <1>18, <1>19, <1>20, <1>21, <1>22 DEF MembersInv

(* The theorems *)

\* Every step keeps the invariant and reopens no retired gate.
LEMMA StepKeeps == MembersInv /\ [MembersNext]_memberVars => MembersInv' /\ RetirementIsFinal
<1> SUFFICES ASSUME MembersInv, [MembersNext]_memberVars
             PROVE  MembersInv' /\ RetirementIsFinal
  OBVIOUS
<1>1. ASSUME NEW d \in Document, NEW attached \in BOOLEAN, Prepare(d, attached)
      PROVE  MembersInv' /\ RetirementIsFinal
  BY <1>1, PrepareKeeps
<1>2. ASSUME NEW c \in Conns, Select(c) \/ Lease(c) \/ Dialed(c) \/ Finish(c)
      PROVE  MembersInv' /\ RetirementIsFinal
  BY <1>2, SelectKeeps, LeaseKeeps, DialedKeeps, FinishKeeps
<1>3. ASSUME NEW g \in Gates, Retire(g)
      PROVE  MembersInv' /\ RetirementIsFinal
  BY <1>3, RetireKeeps
<1>4. CASE UNCHANGED memberVars
  <2>1. UNCHANGED <<doc, gate, cand, phase, todo, closing, bit, count, records, pending, nextId, conn>>
    BY <1>4 DEF memberVars
  <2>2. CountExact' /\ Live(records)' = Live(records)
    BY <2>1, SameHolders DEF MembersInv, Live
  <2>3. TypeOK' /\ RetirementIsFinal
    BY <2>1 DEF MembersInv, TypeOK, RetirementIsFinal
  <2>4. PhaseInv' /\ GateInv' /\ ConnInv'
    BY <2>1 DEF MembersInv, PhaseInv, GateInv, ConnInv, Admits, Plan
  <2>5. RegistryInv'
    BY <2>1, <2>2 DEF MembersInv, RegistryInv, RetiredVisible, Looked
  <2> QED
    BY <2>2, <2>3, <2>4, <2>5 DEF MembersInv
<1> QED
  BY <1>1, <1>2, <1>3, <1>4, AbandonKeeps, CommitBeginKeeps, RecordRetiredKeeps, PublishKeeps,
     ObserveKeeps DEF MembersNext

\* The invariant implies what the runs check of members.
LEMMA InvAccounts == MembersInv => DrainAccounted /\ ServingIffOpen
<1> SUFFICES ASSUME MembersInv PROVE DrainAccounted /\ ServingIffOpen
  OBVIOUS
<1>1. CountExact /\ RetiredVisible /\ NoReservationLeak
  BY DEF MembersInv, RegistryInv, PhaseInv, NoReservationLeak, TypeOK
<1>2. WithinCapacity
  <2>1. Cardinality(Live(records)) \in Nat /\ Cardinality(todo) \in Nat /\ pending \in Nat
    BY LiveFinite, GatesFinite DEF MembersInv, RegistryInv, TypeOK
  <2> QED
    BY <2>1, CapacityAssumption DEF MembersInv, RegistryInv, WithinCapacity
<1>3. ServingIffOpen
  BY DEF MembersInv, GateInv, Admits, ServingIffOpen
<1> QED
  BY <1>1, <1>2, <1>3 DEF DrainAccounted

\* Between any two steps of publications and connections every lease is
\* counted, every drained member that still has work is listed, the registry
\* keeps to its capacity and a member is admitted exactly while it serves.
THEOREM MembersAccounted == MembersSpec => [](DrainAccounted /\ ServingIffOpen)
<1>1. MembersInv /\ [MembersNext]_memberVars => MembersInv'
  BY StepKeeps
<1> QED
  BY <1>1, InitHolds, InvAccounts, PTL DEF MembersSpec

\* MembersExact: that, and every step leaves a retired gate retired with no
\* more leases than it had (member_admission.rs close and try_acquire,
\* retired_members.rs Registry).
THEOREM MembersAreExact == MembersSpec => MembersExact
<1>1. MembersInv /\ [MembersNext]_memberVars => MembersInv'
  BY StepKeeps
<1>2. MembersInv /\ [MembersNext]_memberVars => [RetirementIsFinal]_memberVars
  BY StepKeeps
<1> QED
  BY <1>1, <1>2, MembersAccounted, InitHolds, PTL DEF MembersSpec, MembersExact

-----------------------------------------------------------------------------
(* Health *)

\* A backend's node keeps evidence on its own endpoint only, and a backend
\* in checking gets no request before its own probes passed: OwnHealthOnly
\* of module BackendHealth, for any number of requests, endpoints and
\* results, however lock-free reads overlap a reset.

(* The inductive invariant *)

HealthFields == {"active", "pending", "passive", "cooling", "successes", "failures", "passiveFailures"}
\* h has these fields and is nothing but its fields.
IsHealth(h) == DOMAIN h = HealthFields /\ h = [f \in HealthFields |-> h[f]]

\* The store of a reset that writes a field.
Place == [cooling |-> 1, active |-> 2, pending |-> 3, passive |-> 4, successes |-> 5,
          failures |-> 5, passiveFailures |-> 5]

\* x is the state of an actor, and actors have one each.
IsActor(x) ==
  /\ DOMAIN x = {"at", "epoch", "check", "round", "store", "judged"}
  /\ x = [f \in {"at", "epoch", "check", "round", "store", "judged"} |-> x[f]]
  /\ x.at \in {"idle", "resolved", "locking", "resetting", "checking", "leased", "sent",
               "probing", "probed"}
  /\ x.epoch \in Nat /\ x.check \in 1..5 /\ x.store \in 1..6
AreActors(s) == DOMAIN s = Actors /\ s = [a \in Actors |-> s[a]] /\ \A a \in Actors : IsActor(s[a])

HealthTypeOK ==
  /\ epochs \in 1..MaxEpoch /\ discovered \in 0..epochs
  /\ DOMAIN node = HealthFields \cup {"epoch"} /\ node = [f \in HealthFields \cup {"epoch"} |-> node[f]]
  /\ node.epoch \in 0..epochs
  /\ DOMAIN own = 0..MaxEpoch /\ own = [e \in 0..MaxEpoch |-> own[e]]
  /\ \A e \in 0..MaxEpoch : IsHealth(own[e])
  /\ AreActors(actor) /\ \A a \in Actors : actor[a].epoch \in 0..epochs
  /\ holder \in Actors \cup {Nobody}

\* An endpoint the node has not reached has no evidence, and a node in
\* checking withholds its endpoint also while a reset is under way.
NodeInv ==
  /\ \A e \in 0..MaxEpoch : e > node.epoch => own[e] = Initially
  /\ policy = "checking" => (own[node.epoch].pending => node.pending)
  /\ EvidenceOwn

\* What actor a, being in state x, may rely on.
ActorOK(a, x) ==
  /\ x.at \in {"idle", "resolved", "locking", "resetting", "leased"} => x.check = 1
  /\ x.at # "resetting" => x.store = 1
  /\ holder = a <=> x.at = "resetting"
  /\ x.at = "resetting" =>
       node.epoch < x.epoch /\ \A f \in HealthFields : Place[f] < x.store => node[f] = Initially[f]
  /\ x.at \in {"checking", "leased", "sent"} => node.epoch >= x.epoch
  /\ policy = "checking" /\ x.at = "checking" /\ x.check >= 3 =>
       node.epoch > x.epoch \/ ~own[x.epoch].pending
  /\ policy = "checking" /\ x.at \in {"leased", "sent"} => ~own[x.epoch].pending

HealthInv == HealthTypeOK /\ NodeInv /\ \A a \in Actors : ActorOK(a, actor[a])

(* Healths *)

\* The health of a new endpoint has every field.
LEMMA InitiallyHealth == IsHealth(Initially) /\ DOMAIN Initially = HealthFields
  BY DEF IsHealth, Initially, HealthFields

\* Judging a report keeps the form of the health and never makes it pending.
LEMMA JudgeKeeps ==
  ASSUME NEW a, NEW h, IsHealth(h), NEW report \in Reports
  PROVE  IsHealth(Judge(a, h, report)) /\ (Judge(a, h, report).pending => h.pending)
<1>1. IsHealth(ProbeHealthy(h)) /\ (ProbeHealthy(h).pending => h.pending)
  BY DEF IsHealth, HealthFields, ProbeHealthy
<1>2. IsHealth(ProbeNeutral(h)) /\ (ProbeNeutral(h).pending => h.pending)
  BY DEF IsHealth, HealthFields, ProbeNeutral
<1>3. IsHealth(ProbeFailing(h, report)) /\ (ProbeFailing(h, report).pending => h.pending)
  BY DEF IsHealth, HealthFields, ProbeFailing
<1>4. IsHealth(ResponseFailing(h, report)) /\ (ResponseFailing(h, report).pending => h.pending)
  BY DEF IsHealth, HealthFields, ResponseFailing
<1>5. IsHealth(CooldownFailing(h)) /\ (CooldownFailing(h).pending => h.pending)
  BY DEF IsHealth, HealthFields, CooldownFailing
<1>6. IsHealth(CooldownHealthy(h)) /\ (CooldownHealthy(h).pending => h.pending)
  BY DEF IsHealth, HealthFields, CooldownHealthy
<1>7. IsHealth(Probed(h, report)) /\ (Probed(h, report).pending => h.pending)
  BY <1>1, <1>2, <1>3, Zenon DEF Probed
<1>8. IsHealth(Responded(h, report)) /\ (Responded(h, report).pending => h.pending)
  BY <1>4, <1>5, <1>6, Zenon DEF Responded
<1> QED
  BY <1>7, <1>8, Zenon DEF Judge

\* No actor is under way to begin with.
LEMMA HealthInitHolds == HealthInit => HealthInv
<1> SUFFICES ASSUME HealthInit PROVE HealthInv
  OBVIOUS
<1>1. IsActor(Idling)
  BY DEF Idling, IsActor
<1>2. HealthTypeOK
  <2>1. node = [f \in {"epoch"} \cup HealthFields |-> IF f = "epoch" THEN 0 ELSE Initially[f]]
    BY InitiallyHealth DEF HealthInit
  <2>2. node.epoch = 0 /\ DOMAIN node = HealthFields \cup {"epoch"}
        /\ node = [f \in HealthFields \cup {"epoch"} |-> node[f]]
    BY <2>1
  <2>3. /\ DOMAIN own = 0..MaxEpoch /\ own = [e \in 0..MaxEpoch |-> own[e]]
        /\ \A e \in 0..MaxEpoch : own[e] = Initially
    BY DEF HealthInit
  <2>4. AreActors(actor) /\ \A a \in Actors : actor[a].epoch = 0
    BY <1>1 DEF HealthInit, Idling, AreActors
  <2> QED
    BY <2>2, <2>3, <2>4, InitiallyHealth, HealthBounds DEF HealthTypeOK, AreActors, HealthInit
<1>3. NodeInv
  <2>1. node.epoch = 0 /\ \A f \in HealthFields : node[f] = Initially[f]
    BY InitiallyHealth DEF HealthInit, HealthFields
  <2>2. DOMAIN node \ {"epoch"} = HealthFields
    BY <1>2 DEF HealthTypeOK, AreActors, HealthFields
  <2>3. HealthOf(node) = Initially
    BY <2>1, <2>2, InitiallyHealth DEF HealthOf, IsHealth
  <2>4. \A e \in 0..MaxEpoch : own[e] = Initially
    BY DEF HealthInit
  <2>5. 0 \in 0..MaxEpoch
    BY HealthBounds
  <2> QED
    BY <2>1, <2>3, <2>4, <2>5 DEF NodeInv, EvidenceOwn, HealthFields
<1>4. \A a \in Actors : ActorOK(a, actor[a])
  BY HealthBounds DEF HealthInit, ActorOK, Idling, Actors, Nobody
<1> QED
  BY <1>2, <1>3, <1>4 DEF HealthInv

\* The form of every actor's record, from the invariant.
LEMMA ActorsTyped ==
  ASSUME HealthInv
  PROVE  AreActors(actor) /\ \A a \in Actors : IsActor(actor[a]) /\ actor[a].epoch \in 0..epochs
  BY DEF HealthInv, HealthTypeOK, AreActors

\* Writing one actor's state.
LEMMA WriteActor ==
  ASSUME AreActors(actor), NEW a \in Actors, NEW x, IsActor(x), actor' = [actor EXCEPT ![a] = x]
  PROVE  AreActors(actor') /\ actor'[a] = x /\ \A b \in Actors \ {a} : actor'[b] = actor[b]
  BY DEF AreActors

(* Steps that change one actor *)

\* Only actor a, and perhaps what discovery resolves to, change.
OnlyActor(a) ==
  /\ UNCHANGED <<policy, node, holder, own, epochs>> /\ discovered' \in 0..epochs
  /\ AreActors(actor') /\ \A b \in Actors \ {a} : actor'[b] = actor[b]

\* A step of one actor that leaves the health alone.
LEMMA ActorKeeps ==
  ASSUME HealthInv, NEW a \in Actors, OnlyActor(a), actor'[a].epoch \in 0..epochs,
         ActorOK(a, actor'[a])
  PROVE  HealthInv'
<1>1. HealthTypeOK'
  BY DEF HealthInv, HealthTypeOK, AreActors, OnlyActor
<1>2. NodeInv'
  BY DEF HealthInv, NodeInv, EvidenceOwn, OnlyActor, Initially, HealthOf
<1>3. \A b \in Actors : ActorOK(b, actor'[b])
  BY DEF HealthInv, OnlyActor
<1>4. Initially' = Initially
  BY DEF OnlyActor, Initially
<1>5. ASSUME NEW b \in Actors PROVE ActorOK(b, actor[b])'
  BY <1>3, <1>4 DEF ActorOK, OnlyActor
<1> QED
  BY <1>1, <1>2, <1>5 DEF HealthInv

\* An actor that goes back to idle relies on nothing.
LEMMA RefusedKeeps ==
  ASSUME HealthInv, NEW a \in Actors, actor[a].at # "resetting", actor' = Refused(a),
         UNCHANGED <<policy, discovered, epochs, node, holder, own>>
  PROVE  HealthInv'
<1>1. actor'[a] = Idling /\ IsActor(Idling)
  <2>1. IsActor(Idling)
    BY DEF Idling, IsActor
  <2> QED
    BY <2>1, ActorsTyped, WriteActor DEF Refused
<1>2. OnlyActor(a)
  BY <1>1, ActorsTyped, WriteActor DEF OnlyActor, Refused, HealthInv, HealthTypeOK
<1>3. ActorOK(a, Idling) /\ Idling.epoch \in 0..epochs
  BY DEF ActorOK, Idling, HealthInv, HealthTypeOK, AreActors
<1> QED
  BY <1>1, <1>2, <1>3, ActorKeeps

\* An endpoint the node is at is observed.
LEMMA ObservedKeeps ==
  ASSUME HealthInv, NEW a \in Actors, actor[a].at \in {"resolved", "locking"},
         node.epoch = actor[a].epoch, actor' = Observed(a),
         UNCHANGED <<policy, discovered, epochs, node, holder, own>>
  PROVE  HealthInv'
<1>1. IsActor(actor[a]) /\ actor[a].epoch \in 0..epochs /\ actor[a].check = 1 /\ holder # a
  BY DEF HealthInv, HealthTypeOK, AreActors, ActorOK
<1>s. PICK s \in {"probing", "checking"} : s = IF a = Prober THEN "probing" ELSE "checking"
  OBVIOUS
<1>a. PICK x : x = [actor[a] EXCEPT !.at = s, !.store = 1]
  OBVIOUS
<1>b. /\ IsActor(x) /\ x.epoch = actor[a].epoch /\ x.check = 1
      /\ x.store = 1 /\ x.at \in {"probing", "checking"}
  <2>1. PICK y : y = [actor[a] EXCEPT !.at = s]
    OBVIOUS
  <2>2. IsActor(y) /\ y.epoch = actor[a].epoch /\ y.check = 1 /\ y.at = s
    BY <1>1, <2>1 DEF IsActor
  <2>3. x = [y EXCEPT !.store = 1]
    BY <1>a, <2>1
  <2> QED
    BY <2>2, <2>3 DEF IsActor
<1>c. actor' = [actor EXCEPT ![a] = x]
  BY <1>a, <1>s DEF Observed
<1>2. /\ AreActors(actor') /\ actor'[a] = x /\ \A b \in Actors \ {a} : actor'[b] = actor[b]
  BY <1>b, <1>c, ActorsTyped, WriteActor
<1>3. OnlyActor(a)
  BY <1>2 DEF OnlyActor, HealthInv, HealthTypeOK
<1>4. ActorOK(a, x) /\ x.epoch \in 0..epochs
  BY <1>1, <1>b DEF ActorOK, HealthInv, HealthTypeOK
<1> QED
  BY <1>2, <1>3, <1>4, ActorKeeps

\* An actor resolves the endpoint discovery has: it observes nothing yet.
LEMMA ResolveKeeps ==
  ASSUME HealthInv, NEW a \in Actors, Resolve(a)
  PROVE  HealthInv'
<1>1. PICK x : x = [Idling EXCEPT !.at = "resolved", !.epoch = discovered]
  OBVIOUS
<1>2. x.epoch = discovered /\ x.at = "resolved" /\ x.check = 1 /\ x.store = 1 /\ IsActor(x)
  <2>1. discovered \in Nat
    BY DEF HealthInv, HealthTypeOK
  <2> QED
    <3>1. x = [at |-> "resolved", epoch |-> discovered, check |-> 1, round |-> 1, store |-> 1, judged |-> TRUE]
      BY <1>1 DEF Idling
    <3> QED
      BY <2>1, <3>1 DEF IsActor
<1>a. actor' = [actor EXCEPT ![a] = x]
  BY <1>1 DEF Resolve
<1>3. actor'[a] = x /\ OnlyActor(a)
  <2>1. /\ AreActors(actor') /\ actor'[a] = x /\ \A b \in Actors \ {a} : actor'[b] = actor[b]
    BY <1>2, <1>a, ActorsTyped, WriteActor
  <2> QED
    BY <2>1 DEF Resolve, OnlyActor, HealthInv, HealthTypeOK
<1>4. holder # a
  BY DEF Resolve, Idling, HealthInv, ActorOK
<1>5. ActorOK(a, x) /\ x.epoch \in 0..epochs
  BY <1>2, <1>4 DEF ActorOK, HealthInv, HealthTypeOK, AreActors
<1> QED
  BY <1>3, <1>5, ActorKeeps

\* observe_epoch: the node is at the endpoint's epoch, past it, or has to be moved.
LEMMA ResultKeeps ==
  ASSUME HealthInv, NEW a \in Actors, ObserveEpoch(a)
  PROVE  HealthInv'
<1>1. actor[a].at = "resolved" /\ UNCHANGED <<policy, discovered, epochs, node, holder, own>>
  BY DEF ObserveEpoch
<1>2. CASE node.epoch = actor[a].epoch
  BY <1>1, <1>2, ObservedKeeps DEF ObserveEpoch
<1>3. CASE node.epoch # actor[a].epoch /\ node.epoch > actor[a].epoch
  BY <1>1, <1>3, RefusedKeeps DEF ObserveEpoch
<1>4. CASE node.epoch # actor[a].epoch /\ ~(node.epoch > actor[a].epoch)
  <2>1. actor' = [actor EXCEPT ![a].at = "locking"]
    BY <1>4 DEF ObserveEpoch
  <2>a. PICK x : x = [actor[a] EXCEPT !.at = "locking"]
    OBVIOUS
  <2>b. /\ x.at = "locking" /\ x.check = actor[a].check /\ x.store = actor[a].store
        /\ x.epoch = actor[a].epoch /\ IsActor(x)
    BY <2>a, ActorsTyped DEF IsActor
  <2>c. actor' = [actor EXCEPT ![a] = x]
    BY <2>1, <2>a
  <2>2. AreActors(actor') /\ actor'[a] = x /\ \A b \in Actors \ {a} : actor'[b] = actor[b]
    BY <2>b, <2>c, ActorsTyped, WriteActor
  <2>3. OnlyActor(a)
    BY <1>1, <2>2 DEF OnlyActor, HealthInv, HealthTypeOK
  <2>4. ActorOK(a, x) /\ x.epoch \in 0..epochs
    BY <1>1, <2>b DEF ActorOK, HealthInv, HealthTypeOK
  <2> QED
    BY <2>2, <2>3, <2>4, ActorKeeps
<1> QED
  BY <1>2, <1>3, <1>4

\* The epoch read under the lock decides: only one actor resets at a time, and
\* only to move the node forward.
LEMMA EnsureKeeps ==
  ASSUME HealthInv, NEW a \in Actors, EnsureEpoch(a)
  PROVE  HealthInv'
<1>1. actor[a].at = "locking" /\ UNCHANGED <<policy, discovered, epochs, node, own>> /\ holder = Nobody
  BY DEF EnsureEpoch
<1>2. CASE node.epoch < actor[a].epoch
  <2>1. holder' = a /\ actor' = [actor EXCEPT ![a].at = "resetting"]
    BY <1>2 DEF EnsureEpoch
  <2>2. /\ actor'[a].at = "resetting" /\ actor'[a].check = actor[a].check
        /\ actor'[a].store = actor[a].store /\ actor'[a].epoch = actor[a].epoch
        /\ AreActors(actor') /\ \A b \in Actors \ {a} : actor'[b] = actor[b]
    <3>1. PICK x : x = [actor[a] EXCEPT !.at = "resetting"]
      OBVIOUS
    <3>2. /\ x.at = "resetting" /\ x.check = actor[a].check /\ x.store = actor[a].store
          /\ x.epoch = actor[a].epoch /\ IsActor(x)
      BY <3>1, ActorsTyped DEF IsActor
    <3>3. actor' = [actor EXCEPT ![a] = x]
      BY <2>1, <3>1
    <3> QED
      BY <3>2, <3>3, ActorsTyped, WriteActor
  <2>3. HealthTypeOK'
    BY <1>1, <2>1, <2>2 DEF HealthInv, HealthTypeOK, AreActors
  <2>4. a # Nobody
    BY HealthBounds DEF Actors, Nobody
  <2>5. NodeInv' /\ Initially' = Initially
    BY <1>1, <2>1, <2>4 DEF HealthInv, NodeInv, EvidenceOwn, Initially
  <2>6. actor[a].store = 1 /\ actor[a].check = 1
    BY <1>1 DEF HealthInv, ActorOK
  <2>7. \A f \in HealthFields : ~(Place[f] < 1)
    BY DEF HealthFields, Place
  <2>8. ActorOK(a, actor[a])'
    BY <1>1, <1>2, <2>1, <2>2, <2>6, <2>7 DEF ActorOK
  <2>9. ASSUME NEW b \in Actors \ {a} PROVE ActorOK(b, actor[b])'
    <3>1. actor[b].at # "resetting" /\ ActorOK(b, actor[b]) /\ b # Nobody
      BY <1>1, HealthBounds DEF HealthInv, ActorOK, Actors, Nobody
    <3> QED
      BY <1>1, <2>1, <2>2, <3>1 DEF ActorOK
  <2> QED
    BY <2>3, <2>5, <2>8, <2>9 DEF HealthInv
<1>3. CASE ~(node.epoch < actor[a].epoch) /\ node.epoch = actor[a].epoch
  BY <1>1, <1>3, ObservedKeeps DEF EnsureEpoch
<1>4. CASE ~(node.epoch < actor[a].epoch) /\ node.epoch # actor[a].epoch
  BY <1>1, <1>4, RefusedKeeps DEF EnsureEpoch
<1> QED
  BY <1>2, <1>3, <1>4

\* The order of a dispatch's loads under active checking.
LEMMA ChecksAre ==
  policy = "checking" => /\ Len(Checks) = 5 /\ Checks[1] = "epoch" /\ Checks[2] = "pending"
                         /\ Checks[3] = "active" /\ Checks[4] = "passive" /\ Checks[5] = "epoch"
  BY DEF Checks

\* The loads of a dispatch, with and without active checking.
LEMMA ChecksShort == Len(Checks) = 3 \/ Len(Checks) = 5
  BY DEF Checks

\* A reader that saw the node's epoch, then no pending flag, then the epoch
\* again was looking at its own endpoint all the while.
LEMMA CheckKeeps ==
  ASSUME HealthInv, NEW r \in Routed, CheckField(r)
  PROVE  HealthInv'
<1>1. actor[r].at = "checking" /\ UNCHANGED <<policy, discovered, epochs, node, holder, own>> /\ r \in Actors
  BY DEF CheckField, Actors
<1>2. CASE ~Passes(r, Checks[actor[r].check])
  BY <1>1, <1>2, RefusedKeeps DEF CheckField
<1>3. CASE Passes(r, Checks[actor[r].check]) /\ actor[r].check < Len(Checks)
  <2>1. actor' = [actor EXCEPT ![r].check = @ + 1]
    BY <1>3 DEF CheckField
  <2>2. actor[r].check \in 1..4 /\ IsActor(actor[r])
    <3>1. actor[r].check \in 1..5 /\ IsActor(actor[r])
      BY <1>1, ActorsTyped DEF IsActor
    <3>2. actor[r].check < Len(Checks)
      BY <1>3
    <3>3. actor[r].check \in 1..4
      <4>1. CASE Len(Checks) = 3
        BY <3>1, <3>2, <4>1
      <4>2. CASE Len(Checks) = 5
        BY <3>1, <3>2, <4>2
      <4> QED
        BY <4>1, <4>2, ChecksShort, Zenon
    <3> QED
      BY <3>1, <3>3
  <2>3. /\ actor'[r].at = "checking" /\ actor'[r].check = actor[r].check + 1
        /\ actor'[r].store = actor[r].store /\ actor'[r].epoch = actor[r].epoch
        /\ IsActor(actor'[r])
    <3>1. PICK x : x = [actor[r] EXCEPT !.check = @ + 1]
      OBVIOUS
    <3>2. /\ x.at = "checking" /\ x.check = actor[r].check + 1 /\ x.store = actor[r].store
          /\ x.epoch = actor[r].epoch /\ IsActor(x)
      BY <1>1, <2>2, <3>1 DEF IsActor
    <3>3. actor' = [actor EXCEPT ![r] = x]
      BY <2>1, <3>1
    <3> QED
      BY <1>1, <3>2, <3>3, ActorsTyped, WriteActor
  <2>4. OnlyActor(r)
    BY <1>1, <2>1, <2>3 DEF OnlyActor, HealthInv, HealthTypeOK, AreActors
  <2>5. node.epoch >= actor[r].epoch /\ actor[r].epoch \in 0..epochs /\ node.epoch \in 0..epochs
        /\ actor[r].store = 1 /\ holder # r
    BY <1>1 DEF ActorOK, HealthInv, HealthTypeOK, AreActors
  <2>6. policy = "checking" /\ actor'[r].check >= 3 =>
          node.epoch > actor[r].epoch \/ ~own[actor[r].epoch].pending
    <3> SUFFICES ASSUME policy = "checking", actor[r].check >= 2, node.epoch = actor[r].epoch
                 PROVE  ~own[actor[r].epoch].pending
      BY <2>2, <2>3, <2>5
    <3>1. CASE actor[r].check = 2
      <4>1. ~node.pending
        BY <1>3, <3>1, ChecksAre DEF Passes
      <4> QED
        BY <4>1 DEF HealthInv, NodeInv
    <3>2. CASE actor[r].check >= 3
      BY <1>1, <2>5, <3>2 DEF HealthInv, ActorOK
    <3> QED
      BY <2>2, <3>1, <3>2
  <2>7. ActorOK(r, actor'[r])
    BY <2>3, <2>5, <2>6 DEF ActorOK
  <2> QED
    BY <1>1, <2>3, <2>4, <2>5, <2>7, ActorKeeps
<1>4. CASE Passes(r, Checks[actor[r].check]) /\ ~(actor[r].check < Len(Checks))
  <2>1. actor' = [actor EXCEPT ![r].check = 1,
                          ![r].round = IF @ < Rounds - 1 THEN @ + 1 ELSE @,
                          ![r].at = IF Last(r) THEN "sent"
                                    ELSE IF actor[r].round = Rounds - 1 THEN "leased" ELSE @]
    BY <1>4 DEF CheckField
  <2>2. IsActor(actor[r]) /\ Rounds - 1 = 3
    BY <1>1 DEF HealthInv, HealthTypeOK, AreActors, Rounds
  <2>3. /\ actor'[r].at \in {"checking", "leased", "sent"} /\ actor'[r].check = 1
        /\ actor'[r].store = actor[r].store /\ actor'[r].epoch = actor[r].epoch
        /\ IsActor(actor'[r])
    <3>a. PICK n : n = IF actor[r].round < Rounds - 1 THEN actor[r].round + 1 ELSE actor[r].round
      OBVIOUS
    <3>b. PICK s \in {"checking", "leased", "sent"} :
            s = IF Last(r) THEN "sent"
                ELSE IF actor[r].round = Rounds - 1 THEN "leased" ELSE actor[r].at
      BY <1>1
    <3>1. PICK x : x = [actor[r] EXCEPT !.check = 1, !.round = n, !.at = s]
      OBVIOUS
    <3>2. /\ x.at \in {"checking", "leased", "sent"} /\ x.check = 1 /\ x.store = actor[r].store
          /\ x.epoch = actor[r].epoch /\ IsActor(x)
      <4>1. PICK y : y = [actor[r] EXCEPT !.check = 1]
        OBVIOUS
      <4>2. IsActor(y) /\ y.epoch = actor[r].epoch /\ y.check = 1 /\ y.store = actor[r].store
        BY <2>2, <4>1 DEF IsActor
      <4>3. PICK z : z = [y EXCEPT !.round = n]
        OBVIOUS
      <4>4. IsActor(z) /\ z.epoch = actor[r].epoch /\ z.check = 1 /\ z.store = actor[r].store
        BY <4>2, <4>3 DEF IsActor
      <4>5. x = [z EXCEPT !.at = s]
        BY <3>1, <4>1, <4>3
      <4> QED
        BY <4>4, <4>5 DEF IsActor
    <3>3. actor' = [actor EXCEPT ![r] = x]
      BY <2>1, <3>1, <3>a, <3>b
    <3> QED
      BY ZenonT(60), <1>1, <3>2, <3>3, ActorsTyped, WriteActor
  <2>4. OnlyActor(r)
    BY <1>1, <2>1, <2>3 DEF OnlyActor, HealthInv, HealthTypeOK, AreActors
  <2>5. node.epoch >= actor[r].epoch /\ actor[r].epoch \in 0..epochs /\ node.epoch \in 0..epochs
        /\ actor[r].store = 1 /\ holder # r
    BY <1>1 DEF ActorOK, HealthInv, HealthTypeOK, AreActors
  <2>6. policy = "checking" => ~own[actor[r].epoch].pending
    <3> SUFFICES ASSUME policy = "checking" PROVE ~own[actor[r].epoch].pending
      OBVIOUS
    <3>1. actor[r].check = 5
      <4>1. actor[r].check \in 1..5
        BY <2>2 DEF IsActor
      <4>2. ~(actor[r].check < Len(Checks)) /\ Len(Checks) = 5
        BY <1>4, ChecksAre
      <4> QED
        BY <4>1, <4>2
    <3>2. node.epoch = actor[r].epoch
      BY <1>4, <3>1, ChecksAre DEF Passes
    <3> QED
      BY <1>1, <2>5, <3>1, <3>2 DEF HealthInv, ActorOK
  <2>7. ActorOK(r, actor'[r])
    BY <2>3, <2>5, <2>6 DEF ActorOK
  <2> QED
    BY <1>1, <2>3, <2>4, <2>5, <2>7, ActorKeeps
<1> QED
  BY <1>2, <1>3, <1>4

\* A leased dispatch checks again, or is refused when its endpoint was replaced.
LEMMA RedispatchKeeps ==
  ASSUME HealthInv, NEW r \in Routed, Redispatch(r)
  PROVE  HealthInv'
<1>1. actor[r].at = "leased" /\ UNCHANGED <<policy, discovered, epochs, node, holder, own>> /\ r \in Actors
  BY DEF Redispatch, Actors
<1>2. CASE discovered # actor[r].epoch
  BY <1>1, <1>2, RefusedKeeps DEF Redispatch
<1>3. CASE discovered = actor[r].epoch
  <2>1. actor' = [actor EXCEPT ![r].at = "checking", ![r].round = Rounds,
                               ![r].judged = Fit(own[actor[r].epoch])]
    BY <1>3 DEF Redispatch
  <2>2. IsActor(actor[r]) /\ Rounds \in 1..4 /\ Fit(own[actor[r].epoch]) \in BOOLEAN
    BY <1>1 DEF HealthInv, HealthTypeOK, AreActors, Rounds, Fit
  <2>3. /\ actor'[r].at = "checking" /\ actor'[r].check = actor[r].check
        /\ actor'[r].store = actor[r].store /\ actor'[r].epoch = actor[r].epoch
        /\ IsActor(actor'[r])
    BY <1>1, <2>1, <2>2 DEF HealthInv, HealthTypeOK, IsActor, AreActors
  <2>4. OnlyActor(r)
    BY <1>1, <2>1, <2>3 DEF OnlyActor, HealthInv, HealthTypeOK, AreActors
  <2>5. ActorOK(r, actor'[r]) /\ actor[r].epoch \in 0..epochs
    BY <1>1, <2>3 DEF ActorOK, HealthInv, HealthTypeOK, AreActors
  <2> QED
    BY <1>1, <2>3, <2>4, <2>5, ActorKeeps
<1> QED
  BY <1>2, <1>3

\* A dispatch that ends without a report leaves nothing.
LEMMA GiveUpKeeps ==
  ASSUME HealthInv, NEW r \in Routed, GiveUp(r)
  PROVE  HealthInv'
<1>1. r \in Actors
  BY DEF Actors
<1> QED
  BY <1>1, RefusedKeeps DEF GiveUp

\* run_backend: a result counts only for the endpoint discovery still has.
LEMMA ProbeReturnsKeeps ==
  ASSUME HealthInv, ProbeReturns
  PROVE  HealthInv'
<1>1. /\ actor[Prober].at = "probing" /\ UNCHANGED <<policy, discovered, epochs, node, holder, own>>
      /\ Prober \in Actors
  BY DEF ProbeReturns, Actors
<1>2. CASE discovered # actor[Prober].epoch
  BY <1>1, <1>2, RefusedKeeps DEF ProbeReturns
<1>3. CASE discovered = actor[Prober].epoch
  <2>1. actor' = [actor EXCEPT ![Prober].at = "probed"]
    BY <1>3 DEF ProbeReturns
  <2>3. /\ actor'[Prober].at = "probed" /\ actor'[Prober].store = actor[Prober].store
        /\ actor'[Prober].epoch = actor[Prober].epoch /\ IsActor(actor'[Prober])
    BY <1>1, <2>1 DEF HealthInv, HealthTypeOK, IsActor, AreActors
  <2>4. OnlyActor(Prober)
    BY <1>1, <2>1, <2>3 DEF OnlyActor, HealthInv, HealthTypeOK, AreActors
  <2>5. ActorOK(Prober, actor'[Prober]) /\ actor[Prober].epoch \in 0..epochs
    BY <1>1, <2>3 DEF ActorOK, HealthInv, HealthTypeOK, AreActors
  <2> QED
    BY <1>1, <2>3, <2>4, <2>5, ActorKeeps
<1> QED
  BY <1>2, <1>3

\* Discovery replaces the endpoint by one of a new epoch, or it vanishes.
LEMMA DiscoveryKeeps ==
  ASSUME HealthInv, Replace \/ Vanish
  PROVE  HealthInv'
<1>1. /\ UNCHANGED <<policy, node, holder, actor, own>>
      /\ epochs' \in epochs..MaxEpoch /\ discovered' \in 0..epochs'
  <2>1. epochs \in 1..MaxEpoch /\ discovered \in 0..epochs /\ MaxEpoch \in Nat
    BY HealthBounds DEF HealthInv, HealthTypeOK
  <2>2. CASE Replace
    BY <2>1, <2>2 DEF Replace
  <2>3. CASE Vanish
    BY <2>1, <2>3 DEF Vanish
  <2> QED
    BY <2>2, <2>3
<1>2. HealthTypeOK'
  BY <1>1 DEF HealthInv, HealthTypeOK
<1>3. Initially' = Initially
  BY <1>1 DEF Initially
<1>4. NodeInv'
  BY <1>1, <1>3 DEF HealthInv, NodeInv, EvidenceOwn, HealthOf
<1>5. ASSUME NEW b \in Actors PROVE ActorOK(b, actor[b])'
  BY <1>1, <1>3 DEF HealthInv, ActorOK
<1> QED
  BY <1>2, <1>4, <1>5 DEF HealthInv

(* The reset of a node *)

\* The order of the stores of a reset, the epoch last.
LEMMA StoresAre ==
  /\ Len(Stores) = 6 /\ Stores[6] = "epoch" /\ Stores[5] = "counters"
  /\ Stores[1] = "cooling" /\ Stores[2] = "active" /\ Stores[3] = "pending" /\ Stores[4] = "passive"
  BY DEF Stores

\* The place of each field in that order.
LEMMA PlacesAre ==
  /\ Place["cooling"] = 1 /\ Place["active"] = 2 /\ Place["pending"] = 3 /\ Place["passive"] = 4
  /\ Place["successes"] = 5 /\ Place["failures"] = 5 /\ Place["passiveFailures"] = 5
  /\ \A f \in HealthFields : Place[f] \in 1..5
  BY DEF Place, HealthFields

\* A store before the last writes the fields of its place as a new endpoint
\* has them, and no other.
LEMMA StoreWrites ==
  ASSUME HealthInv, NEW a \in Actors, actor[a].store \in 1..5,
         node' = StoreField(a, Stores[actor[a].store])
  PROVE  /\ node'.epoch = node.epoch
         /\ \A f \in HealthFields : IF Place[f] = actor[a].store THEN node'[f] = Initially[f]
                              ELSE node'[f] = node[f]
         /\ DOMAIN node' = HealthFields \cup {"epoch"} /\ node' = [f \in HealthFields \cup {"epoch"} |-> node'[f]]
<1>0. DOMAIN node = HealthFields \cup {"epoch"} /\ node = [f \in HealthFields \cup {"epoch"} |-> node[f]]
  BY DEF HealthInv, HealthTypeOK
<1>1. CASE actor[a].store = 5
  <2>1. node' = [node EXCEPT !.successes = 0, !.failures = Zeroes, !.passiveFailures = Zeroes]
    BY <1>1, StoresAre DEF StoreField
  <2>2. /\ node'.successes = 0 /\ node'.failures = Zeroes /\ node'.passiveFailures = Zeroes
        /\ node'.epoch = node.epoch /\ node'.cooling = node.cooling /\ node'.active = node.active
        /\ node'.pending = node.pending /\ node'.passive = node.passive
    BY <1>0, <2>1 DEF HealthFields
  <2>3. DOMAIN node' = HealthFields \cup {"epoch"} /\ node' = [f \in HealthFields \cup {"epoch"} |-> node'[f]]
    BY <1>0, <2>1 DEF HealthFields
  <2>4. Initially.successes = 0 /\ Initially.failures = Zeroes /\ Initially.passiveFailures = Zeroes
    BY DEF Initially
  <2> QED
    BY <1>1, <2>2, <2>3, <2>4, PlacesAre DEF HealthFields
<1>2. ASSUME NEW g \in {"cooling", "active", "pending", "passive"}, Stores[actor[a].store] = g,
             actor[a].store = Place[g]
      PROVE  /\ node'.epoch = node.epoch
             /\ \A f \in HealthFields : IF Place[f] = actor[a].store THEN node'[f] = Initially[f]
                                  ELSE node'[f] = node[f]
             /\ DOMAIN node' = HealthFields \cup {"epoch"} /\ node' = [f \in HealthFields \cup {"epoch"} |-> node'[f]]
  <2>1. node' = [node EXCEPT ![g] = Initially[g]]
    BY <1>2 DEF StoreField
  <2>2. node'[g] = Initially[g] /\ \A f \in (HealthFields \cup {"epoch"}) \ {g} : node'[f] = node[f]
    BY <1>0, <2>1 DEF HealthFields
  <2>3. DOMAIN node' = HealthFields \cup {"epoch"} /\ node' = [f \in HealthFields \cup {"epoch"} |-> node'[f]]
    BY <1>0, <2>1 DEF HealthFields
  <2>4. \A f \in HealthFields : Place[f] = Place[g] <=> f = g
    BY PlacesAre DEF HealthFields
  <2> QED
    BY <1>2, <2>2, <2>3, <2>4 DEF HealthFields
<1>3. CASE actor[a].store \in 1..4
  BY <1>2, <1>3, StoresAre, PlacesAre
<1> QED
  BY <1>1, <1>3

\* The node moves on to its new endpoint as that one starts, or is still at
\* the old one and withholds it.
LEMMA ResetKeeps ==
  ASSUME HealthInv, NEW a \in Actors, ResetStep(a)
  PROVE  HealthInv'
<1>1. /\ actor[a].at = "resetting" /\ UNCHANGED <<policy, discovered, epochs, own>>
      /\ node' = StoreField(a, Stores[actor[a].store])
  BY DEF ResetStep
<1>2. /\ holder = a /\ node.epoch < actor[a].epoch /\ actor[a].check = 1
      /\ \A f \in HealthFields : Place[f] < actor[a].store => node[f] = Initially[f]
  BY <1>1 DEF HealthInv, ActorOK
<1>3. IsActor(actor[a]) /\ actor[a].epoch \in 0..epochs /\ actor[a].store \in 1..6
  BY ActorsTyped DEF IsActor
<1>4. Initially' = Initially
  BY <1>1 DEF Initially
<1>5. \A b \in Actors \ {a} : actor[b].at # "resetting" /\ ActorOK(b, actor[b])
  BY <1>2 DEF HealthInv, ActorOK
<1>6. a # Nobody /\ \A b \in Actors : b # Nobody
  BY HealthBounds DEF Actors, Nobody
<1>7. node.epoch \in 0..epochs /\ epochs \in 1..MaxEpoch /\ MaxEpoch \in Nat
  BY HealthBounds DEF HealthInv, HealthTypeOK
<1>8. CASE actor[a].store \in 1..5
  <2>1. /\ node'.epoch = node.epoch
        /\ \A f \in HealthFields : IF Place[f] = actor[a].store THEN node'[f] = Initially[f]
                             ELSE node'[f] = node[f]
        /\ DOMAIN node' = HealthFields \cup {"epoch"} /\ node' = [f \in HealthFields \cup {"epoch"} |-> node'[f]]
    BY <1>1, <1>8, StoreWrites
  <2>2. actor' = [actor EXCEPT ![a].store = @ + 1] /\ holder' = holder
    BY <1>8, StoresAre DEF ResetStep
  <2>3. PICK x : x = [actor[a] EXCEPT !.store = @ + 1]
    OBVIOUS
  <2>4. /\ IsActor(x) /\ x.store = actor[a].store + 1 /\ x.at = "resetting"
        /\ x.check = 1 /\ x.epoch = actor[a].epoch
    BY <1>1, <1>2, <1>3, <1>8, <2>3 DEF IsActor
  <2>5. actor' = [actor EXCEPT ![a] = x]
    BY <2>2, <2>3
  <2>6. AreActors(actor') /\ actor'[a] = x /\ \A b \in Actors \ {a} : actor'[b] = actor[b]
    BY <2>4, <2>5, ActorsTyped, WriteActor
  <2>7. HealthTypeOK'
    BY <1>1, <1>3, <2>1, <2>2, <2>4, <2>6 DEF HealthInv, HealthTypeOK
  <2>8. NodeInv'
    <3>1. \A e \in 0..MaxEpoch : e > node'.epoch => own'[e] = Initially'
      BY <1>1, <1>4, <2>1 DEF HealthInv, NodeInv
    <3>2. ASSUME policy = "checking", own[node.epoch].pending PROVE node'.pending
      <4>1. CASE Place["pending"] = actor[a].store
        <5>1. node'.pending = Initially.pending
          BY <2>1, <4>1 DEF HealthFields
        <5> QED
          BY <3>2, <5>1 DEF Initially
      <4>2. CASE Place["pending"] # actor[a].store
        <5>1. node'.pending = node.pending
          BY <2>1, <4>2 DEF HealthFields
        <5> QED
          BY <3>2, <5>1 DEF HealthInv, NodeInv
      <4> QED
        BY <4>1, <4>2
    <3>3. EvidenceOwn'
      BY <1>2, <1>6, <2>2 DEF EvidenceOwn
    <3> QED
      BY <1>1, <2>1, <3>1, <3>2, <3>3 DEF NodeInv
  <2>9. ActorOK(a, actor[a])'
    <3>1. \A f \in HealthFields : Place[f] < x.store => node'[f] = Initially[f]
      BY <1>2, <1>8, <2>1, <2>4, PlacesAre
    <3> QED
      BY <1>1, <1>2, <1>4, <2>1, <2>2, <2>4, <2>6, <3>1 DEF ActorOK
  <2>10. ASSUME NEW b \in Actors \ {a} PROVE ActorOK(b, actor[b])'
    BY <1>1, <1>2, <1>5, <2>1, <2>2, <2>6 DEF ActorOK
  <2> QED
    BY <2>7, <2>8, <2>9, <2>10 DEF HealthInv
<1>9. CASE actor[a].store = 6
  <2>1. node' = [node EXCEPT !.epoch = actor[a].epoch]
    BY <1>1, <1>9, StoresAre DEF StoreField
  <2>2. DOMAIN node = HealthFields \cup {"epoch"} /\ node = [f \in HealthFields \cup {"epoch"} |-> node[f]]
    BY DEF HealthInv, HealthTypeOK
  <2>3. /\ node'.epoch = actor[a].epoch /\ \A f \in HealthFields : node'[f] = node[f]
        /\ DOMAIN node' = HealthFields \cup {"epoch"} /\ node' = [f \in HealthFields \cup {"epoch"} |-> node'[f]]
    BY <2>1, <2>2 DEF HealthFields
  <2>4. \A f \in HealthFields : node'[f] = Initially[f]
    BY <1>2, <1>9, <2>3, PlacesAre
  <2>5. actor' = Observed(a) /\ holder' = Nobody
    BY <1>9, StoresAre DEF ResetStep
  <2>6. PICK s \in {"probing", "checking"} : s = IF a = Prober THEN "probing" ELSE "checking"
    OBVIOUS
  <2>7. PICK y : y = [actor[a] EXCEPT !.at = s]
    OBVIOUS
  <2>8. IsActor(y) /\ y.epoch = actor[a].epoch /\ y.check = 1 /\ y.at = s
    BY <1>2, <1>3, <2>7 DEF IsActor
  <2>9. PICK x : x = [y EXCEPT !.store = 1]
    OBVIOUS
  <2>10. IsActor(x) /\ x.epoch = actor[a].epoch /\ x.check = 1 /\ x.at = s /\ x.store = 1
    BY <2>8, <2>9 DEF IsActor
  <2>11. actor' = [actor EXCEPT ![a] = x]
    BY <2>5, <2>6, <2>7, <2>9 DEF Observed
  <2>12. AreActors(actor') /\ actor'[a] = x /\ \A b \in Actors \ {a} : actor'[b] = actor[b]
    BY <2>10, <2>11, ActorsTyped, WriteActor
  <2>13. HealthTypeOK'
    BY <1>1, <1>3, <2>3, <2>5, <2>10, <2>12 DEF HealthInv, HealthTypeOK
  <2>14. own[actor[a].epoch] = Initially
    BY <1>2, <1>3, <1>7 DEF HealthInv, NodeInv
  <2>15. NodeInv'
    <3>1. \A e \in 0..MaxEpoch : e > node'.epoch => own'[e] = Initially'
      BY <1>1, <1>2, <1>3, <1>4, <1>7, <2>3 DEF HealthInv, NodeInv
    <3>2. own'[node'.epoch] = Initially
      BY <1>1, <2>3, <2>14
    <3>3. node'.pending = Initially.pending
      BY <2>4 DEF HealthFields
    <3>4. HealthOf(node') = Initially
      <4>1. DOMAIN node' \ {"epoch"} = HealthFields
        BY <2>3 DEF HealthFields
      <4> QED
        BY <2>4, <4>1, InitiallyHealth DEF HealthOf, IsHealth
    <3>5. EvidenceOwn'
      BY <3>2, <3>4 DEF EvidenceOwn, HealthOf
    <3> QED
      BY <3>1, <3>2, <3>3, <3>5 DEF NodeInv
  <2>16. ActorOK(a, actor[a])'
    BY <1>3, <1>6, <2>3, <2>5, <2>10, <2>12 DEF ActorOK
  <2>17. ASSUME NEW b \in Actors \ {a} PROVE ActorOK(b, actor[b])'
    <3>1. actor[b].epoch \in 0..epochs
      BY ActorsTyped
    <3> QED
      BY <1>1, <1>2, <1>3, <1>5, <1>6, <1>7, <2>3, <2>5, <2>12, <3>1 DEF ActorOK
  <2> QED
    BY <2>13, <2>15, <2>16, <2>17 DEF HealthInv
<1> QED
  BY <1>3, <1>8, <1>9

(* Evidence *)

\* What the actors know survives a change of the node and of the healths of
\* reached endpoints that moves no epoch and makes nothing pending.
Settled ==
  /\ UNCHANGED <<policy, discovered, epochs, holder>> /\ node'.epoch = node.epoch
  /\ \A e \in 0..MaxEpoch : own'[e].pending => own[e].pending
  /\ AreActors(actor')
  /\ \A b \in Actors : \/ actor'[b] = Idling /\ actor[b].at # "resetting"
                       \/ /\ actor'[b].at = actor[b].at /\ actor'[b].epoch = actor[b].epoch
                          /\ actor'[b].check = actor[b].check /\ actor'[b].store = actor[b].store
  /\ \A f \in HealthFields : \/ node'[f] = node[f] \/ node'[f] = Initially[f] \/ holder = Nobody

\* Such a change leaves every actor's part of the invariant.
LEMMA SettledKeeps ==
  ASSUME HealthInv, Settled, NEW b \in Actors
  PROVE  ActorOK(b, actor[b])' /\ actor'[b].epoch \in 0..epochs
<1>1. Initially' = Initially
  BY DEF Settled, Initially
<1>2. ActorOK(b, actor[b]) /\ actor[b].epoch \in 0..epochs /\ epochs \in 1..MaxEpoch /\ MaxEpoch \in Nat
  BY HealthBounds DEF HealthInv, HealthTypeOK
<1>3. own'[actor[b].epoch].pending => own[actor[b].epoch].pending
  BY <1>2 DEF Settled
<1>4. b # Nobody
  BY HealthBounds DEF Actors, Nobody
<1>5. CASE actor'[b] = Idling /\ actor[b].at # "resetting"
  BY <1>2, <1>5 DEF Idling, ActorOK, Settled
<1>6. CASE /\ actor'[b].at = actor[b].at /\ actor'[b].epoch = actor[b].epoch
           /\ actor'[b].check = actor[b].check /\ actor'[b].store = actor[b].store
  <2>1. actor[b].at = "resetting" =>
          \A f \in HealthFields : Place[f] < actor[b].store => node'[f] = Initially[f]
    BY <1>2, <1>4 DEF Settled, ActorOK
  <2> QED
    BY <1>1, <1>2, <1>3, <1>6, <2>1 DEF ActorOK, Settled
<1> QED
  BY <1>5, <1>6 DEF Settled

\* Justifying the checks under way leaves every actor's progress alone.
LEMMA WitnessedKeeps ==
  ASSUME HealthInv, NEW e, NEW h, NEW b \in Actors
  PROVE  LET x == Witnessed(e, h)[b]
         IN  /\ IsActor(x) /\ x.at = actor[b].at /\ x.epoch = actor[b].epoch
             /\ x.check = actor[b].check /\ x.store = actor[b].store
<1>1. IsActor(actor[b])
  BY ActorsTyped
<1>2. CASE actor[b].at = "checking" /\ actor[b].epoch = e /\ Fit(h)
  <2>1. Witnessed(e, h)[b] = [actor[b] EXCEPT !.judged = TRUE]
    BY <1>2, Zenon DEF Witnessed
  <2> QED
    BY <1>1, <2>1 DEF IsActor
<1>3. CASE ~(actor[b].at = "checking" /\ actor[b].epoch = e /\ Fit(h))
  <2>1. Witnessed(e, h)[b] = actor[b]
    BY <1>3, Zenon DEF Witnessed
  <2> QED
    BY <1>1, <2>1
<1> QED
  BY <1>2, <1>3

\* A report that counts is added to the node and to its endpoint's health alike.
LEMMA ReportKeeps ==
  ASSUME HealthInv, NEW a \in Actors, actor[a].at # "resetting", holder = Nobody, Report(a),
         UNCHANGED <<policy, discovered, epochs, holder>>
  PROVE  HealthInv'
<1>1. CASE ~IsEpochNow(a) /\ actor' = Refused(a) /\ UNCHANGED <<node, own, evidences>>
  BY <1>1, RefusedKeeps
<1>2. ASSUME IsEpochNow(a), NEW report \in Reports,
             node' = [f \in DOMAIN node |->
                        IF f = "epoch" THEN node.epoch ELSE Judge(a, HealthOf(node), report)[f]],
             own' = [own EXCEPT ![actor[a].epoch] = Judge(a, @, report)],
             actor' = [Witnessed(actor[a].epoch, Judge(a, own[actor[a].epoch], report)) EXCEPT ![a] = Idling]
      PROVE  HealthInv'
  <2>1. PICK e : e = actor[a].epoch
    OBVIOUS
  <2>2. PICK h : h = Judge(a, own[e], report)
    OBVIOUS
  <2>3. node.epoch = e /\ e \in 0..MaxEpoch /\ HealthOf(node) = own[e] /\ IsHealth(own[e])
    <3>1. node.epoch \in 0..epochs /\ epochs \in 1..MaxEpoch /\ MaxEpoch \in Nat
      BY HealthBounds DEF HealthInv, HealthTypeOK
    <3> QED
      BY <1>2, <2>1, <3>1 DEF IsEpochNow, HealthInv, HealthTypeOK, NodeInv, EvidenceOwn
  <2>4. IsHealth(h) /\ (h.pending => own[e].pending)
    BY <2>2, <2>3, JudgeKeeps
  <2>5. DOMAIN node = HealthFields \cup {"epoch"} /\ "epoch" \notin HealthFields
    BY DEF HealthInv, HealthTypeOK, HealthFields
  <2>6. node' = [f \in HealthFields \cup {"epoch"} |-> IF f = "epoch" THEN node.epoch ELSE h[f]]
    BY <1>2, <2>2, <2>3, <2>5
  <2>7. /\ node'.epoch = node.epoch /\ \A f \in HealthFields : node'[f] = h[f]
        /\ DOMAIN node' = HealthFields \cup {"epoch"} /\ node' = [f \in HealthFields \cup {"epoch"} |-> node'[f]]
    BY <2>5, <2>6
  <2>8. own' = [own EXCEPT ![e] = h]
    BY <1>2, <2>1, <2>2
  <2>9. /\ DOMAIN own' = 0..MaxEpoch /\ own' = [d \in 0..MaxEpoch |-> own'[d]]
        /\ own'[e] = h /\ \A d \in (0..MaxEpoch) \ {e} : own'[d] = own[d]
    BY <2>3, <2>8 DEF HealthInv, HealthTypeOK
  <2>10. PICK w : w = Witnessed(e, h)
    OBVIOUS
  <2>11. actor' = [w EXCEPT ![a] = Idling] /\ DOMAIN w = Actors
    BY <1>2, <2>1, <2>2, <2>10 DEF Witnessed
  <2>12. \A b \in Actors : /\ IsActor(w[b]) /\ w[b].at = actor[b].at /\ w[b].epoch = actor[b].epoch
                           /\ w[b].check = actor[b].check /\ w[b].store = actor[b].store
    BY <2>10, WitnessedKeeps
  <2>13. IsActor(Idling)
    BY DEF Idling, IsActor
  <2>14. w = [b \in Actors |-> w[b]]
    BY <2>10 DEF Witnessed
  <2>15. AreActors(actor') /\ actor'[a] = Idling /\ \A b \in Actors \ {a} : actor'[b] = w[b]
    BY <2>11, <2>12, <2>13, <2>14 DEF AreActors
  <2>16. Settled
    <3>1. \A d \in 0..MaxEpoch : own'[d].pending => own[d].pending
      BY <2>4, <2>9
    <3> QED
      BY <2>7, <2>12, <2>15, <3>1 DEF Settled
  <2>17. HealthTypeOK'
    <3>1. \A d \in 0..MaxEpoch : IsHealth(own'[d])
      BY <2>4, <2>9 DEF HealthInv, HealthTypeOK
    <3>2. \A b \in Actors : actor'[b].epoch \in 0..epochs
      BY <2>16, SettledKeeps
    <3> QED
      BY <2>7, <2>9, <2>15, <3>1, <3>2 DEF HealthInv, HealthTypeOK
  <2>18. NodeInv'
    <3>1. Initially' = Initially
      BY DEF Initially
    <3>2. \A d \in 0..MaxEpoch : d > node'.epoch => own'[d] = Initially'
      BY <2>3, <2>7, <2>9, <3>1 DEF HealthInv, NodeInv
    <3>3. own'[node'.epoch] = h /\ node'.pending = h.pending
      BY <2>3, <2>7, <2>9 DEF HealthFields
    <3>4. HealthOf(node)' = h
      <4>1. DOMAIN node' \ {"epoch"} = HealthFields
        BY <2>5, <2>7
      <4> QED
        BY <2>4, <2>7, <4>1 DEF HealthOf, IsHealth
    <3> QED
      BY <3>2, <3>3, <3>4 DEF NodeInv, EvidenceOwn
  <2> QED
    BY <2>16, <2>17, <2>18, SettledKeeps DEF HealthInv
<1> QED
  BY <1>1, <1>2 DEF Report

\* Only a reached endpoint cools down; a reset has cleared the flag already.
LEMMA CooldownKeeps ==
  ASSUME HealthInv, NEW e \in 1..MaxEpoch, CooldownEnds(e)
  PROVE  HealthInv'
<1>1. PICK h : h = [own[e] EXCEPT !.cooling = FALSE]
  OBVIOUS
<1>2. /\ own[e].cooling /\ own' = [own EXCEPT ![e] = h] /\ actor' = Witnessed(e, h)
      /\ node' = IF node.epoch = e THEN [node EXCEPT !.cooling = FALSE] ELSE node
      /\ UNCHANGED <<policy, discovered, epochs, holder>>
  BY <1>1 DEF CooldownEnds
<1>3. e \in 0..MaxEpoch /\ IsHealth(own[e]) /\ node.epoch \in 0..MaxEpoch
  <2>1. node.epoch \in 0..epochs /\ epochs \in 1..MaxEpoch /\ MaxEpoch \in Nat
    BY HealthBounds DEF HealthInv, HealthTypeOK
  <2>2. e \in 0..MaxEpoch
    BY <2>1
  <2> QED
    BY <2>1, <2>2 DEF HealthInv, HealthTypeOK
<1>4. /\ IsHealth(h) /\ h.cooling = FALSE /\ \A f \in HealthFields \ {"cooling"} : h[f] = own[e][f]
  BY <1>1, <1>3 DEF IsHealth, HealthFields
<1>5. Initially.cooling = FALSE /\ Initially' = Initially
  BY <1>2 DEF Initially
<1>6. ~(e > node.epoch)
  BY <1>2, <1>3, <1>5 DEF HealthInv, NodeInv
<1>7. DOMAIN node = HealthFields \cup {"epoch"} /\ node = [f \in HealthFields \cup {"epoch"} |-> node[f]]
      /\ "epoch" \notin HealthFields
  BY DEF HealthInv, HealthTypeOK, HealthFields
<1>8. /\ node'.epoch = node.epoch /\ \A f \in HealthFields \ {"cooling"} : node'[f] = node[f]
      /\ DOMAIN node' = HealthFields \cup {"epoch"} /\ node' = [f \in HealthFields \cup {"epoch"} |-> node'[f]]
      /\ node.epoch = e => node'.cooling = FALSE
      /\ node.epoch # e => node' = node
  BY <1>2, <1>7 DEF HealthFields
<1>9. /\ DOMAIN own' = 0..MaxEpoch /\ own' = [d \in 0..MaxEpoch |-> own'[d]]
      /\ own'[e] = h /\ \A d \in (0..MaxEpoch) \ {e} : own'[d] = own[d]
  BY <1>2, <1>3 DEF HealthInv, HealthTypeOK
<1>10. AreActors(actor') /\ \A b \in Actors :
          /\ actor'[b].at = actor[b].at /\ actor'[b].epoch = actor[b].epoch
          /\ actor'[b].check = actor[b].check /\ actor'[b].store = actor[b].store
  <2>1. \A b \in Actors : /\ IsActor(actor'[b]) /\ actor'[b].at = actor[b].at /\ actor'[b].epoch = actor[b].epoch
                          /\ actor'[b].check = actor[b].check /\ actor'[b].store = actor[b].store
    BY <1>2, WitnessedKeeps
  <2>2. DOMAIN actor' = Actors /\ actor' = [b \in Actors |-> actor'[b]]
    BY <1>2 DEF Witnessed
  <2> QED
    BY <2>1, <2>2 DEF AreActors
<1>11. h.pending = own[e].pending
  BY <1>4 DEF HealthFields
<1>12. Settled
  <2>1. \A f \in HealthFields : node'[f] = node[f] \/ node'[f] = Initially[f]
    BY <1>5, <1>8 DEF HealthFields
  <2> QED
    BY <1>2, <1>8, <1>9, <1>10, <1>11, <2>1 DEF Settled
<1>13. HealthTypeOK'
  <2>1. \A d \in 0..MaxEpoch : IsHealth(own'[d])
    BY <1>4, <1>9 DEF HealthInv, HealthTypeOK
  <2> QED
    BY <1>2, <1>8, <1>9, <1>10, <2>1 DEF HealthInv, HealthTypeOK
<1>14. NodeInv'
  <2>1. \A d \in 0..MaxEpoch : d > node'.epoch => own'[d] = Initially'
    BY <1>5, <1>6, <1>8, <1>9 DEF HealthInv, NodeInv
  <2>2. policy' = "checking" => (own'[node'.epoch].pending => node'.pending)
    <3>1. own'[node.epoch].pending = own[node.epoch].pending
      BY <1>3, <1>9, <1>11
    <3>2. node'.pending = node.pending
      BY <1>8 DEF HealthFields
    <3> QED
      BY <1>2, <1>8, <3>1, <3>2 DEF HealthInv, NodeInv
  <2>3. ASSUME holder = Nobody PROVE HealthOf(node)' = own'[node'.epoch]
    <3>1. HealthOf(node) = own[node.epoch]
      BY <2>3 DEF HealthInv, NodeInv, EvidenceOwn
    <3>2. CASE node.epoch # e
      BY <1>3, <1>8, <1>9, <3>1, <3>2 DEF HealthOf
    <3>3. CASE node.epoch = e
      <4>1. DOMAIN node \ {"epoch"} = HealthFields /\ DOMAIN node' \ {"epoch"} = HealthFields
        BY <1>7, <1>8
      <4>2. \A f \in HealthFields : node[f] = own[e][f]
        BY <3>1, <3>3, <4>1 DEF HealthOf
      <4>3. \A f \in HealthFields : node'[f] = h[f]
        BY <1>4, <1>8, <3>3, <4>2
      <4>4. HealthOf(node)' = h
        BY <1>4, <4>1, <4>3 DEF HealthOf, IsHealth
      <4> QED
        BY <1>8, <1>9, <3>3, <4>4
    <3> QED
      BY <3>2, <3>3
  <2> QED
    BY <1>2, <2>1, <2>2, <2>3 DEF NodeInv, EvidenceOwn
<1> QED
  BY <1>12, <1>13, <1>14, SettledKeeps DEF HealthInv

(* The theorem *)

\* Every step keeps the invariant.
LEMMA HealthStepKeeps == HealthInv /\ [HealthNext]_healthVars => HealthInv'
<1> SUFFICES ASSUME HealthInv, [HealthNext]_healthVars PROVE HealthInv'
  OBVIOUS
<1>1. ASSUME NEW a \in Actors, Resolve(a) \/ ObserveEpoch(a) \/ EnsureEpoch(a) \/ ResetStep(a)
      PROVE  HealthInv'
  BY <1>1, ResolveKeeps, ResultKeeps, EnsureKeeps, ResetKeeps
<1>2. ASSUME NEW r \in Routed, CheckField(r) \/ Redispatch(r) \/ GiveUp(r)
      PROVE  HealthInv'
  BY <1>2, CheckKeeps, RedispatchKeeps, GiveUpKeeps
<1>3. ASSUME NEW r \in Routed, Respond(r) PROVE HealthInv'
  BY <1>3, ReportKeeps DEF Respond, Actors
<1>4. CASE RecordProbe
  BY <1>4, ReportKeeps DEF RecordProbe, Actors
<1>5. CASE UNCHANGED healthVars
  <2>1. UNCHANGED <<policy, discovered, epochs, node, holder, actor, own>>
    BY <1>5 DEF healthVars
  <2>2. Initially' = Initially
    BY <2>1 DEF Initially
  <2>3. HealthTypeOK' /\ NodeInv'
    BY <2>1, <2>2 DEF HealthInv, HealthTypeOK, NodeInv, EvidenceOwn, HealthOf
  <2>4. ASSUME NEW b \in Actors PROVE ActorOK(b, actor[b])'
    BY <2>1, <2>2 DEF HealthInv, ActorOK
  <2> QED
    BY <2>3, <2>4 DEF HealthInv
<1>6. ASSUME NEW e \in 1..MaxEpoch, CooldownEnds(e) PROVE HealthInv'
  BY <1>6, CooldownKeeps
<1> QED
  BY <1>1, <1>2, <1>3, <1>4, <1>5, <1>6, ProbeReturnsKeeps, DiscoveryKeeps DEF HealthNext

\* The invariant implies what the runs check: health is the endpoint's own.
LEMMA InvOwn == HealthInv => OwnHealthOnly
  BY DEF HealthInv, NodeInv, ActorOK, OwnHealthOnly, Qualified, Actors

\* OwnHealthOnly: outside a reset a node holds exactly the evidence on its own
\* endpoint, and no request passes a backend in checking before that endpoint's
\* probes did (balance.rs ensure_epoch_locked, available_for, with_current_epoch).
THEOREM HealthIsOwn == HealthSpec => []OwnHealthOnly
<1>1. HealthInv /\ [HealthNext]_healthVars => HealthInv'
  BY HealthStepKeeps
<1> QED
  BY <1>1, HealthInitHolds, InvOwn, PTL DEF HealthSpec

-----------------------------------------------------------------------------
(* Receipt release *)

\* ReleasesKept for any number of callers, operations, faults and any rooms.
\* A release identity belongs to one operation for good: the journal holds
\* it while it holds the operation, and the ledger from then on.

JournalRows ==
  [state : {"accepted", "candidate_activated", "conflict", "indeterminate"},
   release : Nat, acknowledged : BOOLEAN]
CallerStates ==
  [at : {"idle", "lookup", "prepare", "evidence", "sent", "acknowledge"}, op : Nat,
   release : Nat, acknowledged : BOOLEAN]
Evidence == DOMAIN ledger

ReleaseTypes ==
  /\ nextSeq \in Nat \ {0} /\ history \in Nat /\ issued \in Nat /\ highWater \in Nat
  /\ journal \in [Kept -> JournalRows] /\ Kept \subseteq 1..(nextSeq - 1)
  /\ receipts \in [DOMAIN receipts -> BOOLEAN] /\ DOMAIN receipts \subseteq 1..(nextSeq - 1)
  /\ ledger \in [Evidence -> DOMAIN receipts] /\ Evidence \subseteq 1..issued
  /\ sentCas \subseteq 1..(nextSeq - 1) /\ sentRel \subseteq Nat \X Nat \X Releasers
  /\ releaser \in [Releasers -> CallerStates]
  /\ writer \in Nat /\ decision \in [latest : Nat, history : Nat, eligible : SUBSET Nat]

\* A release identity is the operation's own, and only activated ones have one.
JournalOwn ==
  /\ \A o \in Kept : journal[o].release # 0 =>
       /\ journal[o].release <= issued /\ journal[o].state = "candidate_activated"
       /\ journal[o].release \in Evidence => ledger[journal[o].release] = o
  /\ \A o, q \in Kept : journal[o].release = journal[q].release /\ journal[o].release # 0 => o = q
  /\ writer # 0 => writer \in Kept /\ journal[writer].state = "accepted"
  /\ \A o \in DOMAIN receipts : o <= highWater

\* A release of an operation, held by a caller or in flight, is the one in the
\* journal, or, once pruned, the one on the ledger.
OwnedBy(r, o) ==
  /\ r \in 1..issued /\ o \in 1..(nextSeq - 1)
  /\ o \in Kept => journal[o].release = r
  /\ o \notin Kept => r \in Evidence /\ ledger[r] = o

CallerOwns(c) ==
  /\ c.at # "idle" => /\ c.op \in 1..(nextSeq - 1)
                      /\ c.op \in Kept => journal[c.op].state = "candidate_activated"
  /\ c.at \in {"evidence", "sent", "acknowledge"} => OwnedBy(c.release, c.op)
  /\ c.at = "acknowledge" => c.release \in Evidence /\ ledger[c.release] = c.op

CallersOwn ==
  /\ \A t \in Releasers : CallerOwns(releaser[t])
  /\ \A s \in sentRel : OwnedBy(s[1], s[2])

\* A decision that still matches the journal saw all that is eligible now.
DecisionSaw ==
  /\ decision.history <= history
  /\ (decision.latest = nextSeq - 1 /\ decision.history = history) =>
       {o \in Kept : Eligible(o)} \subseteq decision.eligible

ReleaseInv == ReleaseTypes /\ JournalOwn /\ CallersOwn /\ DecisionSaw /\ EvidenceKept

\* The initial state satisfies the invariant.
LEMMA ReleaseInitially == ReleaseInit => ReleaseInv
<1>1. SUFFICES ASSUME ReleaseInit PROVE ReleaseInv OBVIOUS
<1>2. DOMAIN journal = {} /\ DOMAIN receipts = {} /\ DOMAIN ledger = {}
  BY <1>1 DEF ReleaseInit
<1>3. ReleaseTypes
  BY <1>1, <1>2 DEF ReleaseInit, ReleaseTypes, Kept, Evidence, Resting, CallerStates, NoDecision
<1>4. JournalOwn BY <1>1, <1>2 DEF ReleaseInit, JournalOwn, Kept
<1>5. CallersOwn BY <1>1, <1>2 DEF ReleaseInit, CallersOwn, CallerOwns, Resting
<1>6. DecisionSaw BY <1>1, <1>2 DEF ReleaseInit, DecisionSaw, NoDecision, Kept
<1>7. EvidenceKept BY <1>1, <1>2 DEF ReleaseInit, EvidenceKept, Kept
<1> QED BY <1>3, <1>4, <1>5, <1>6, <1>7 DEF ReleaseInv

\* A pair of a release and an operation is one pair.
LEMMA OwnsOnce ==
  ASSUME ReleaseInv, NEW r, NEW o, NEW q, OwnedBy(r, o), OwnedBy(r, q)
  PROVE  o = q
<1>1. r # 0 BY DEF OwnedBy
<1>2. CASE o \in Kept /\ q \in Kept BY <1>1, <1>2 DEF ReleaseInv, JournalOwn, OwnedBy
<1>3. CASE o \in Kept /\ q \notin Kept BY <1>1, <1>3 DEF ReleaseInv, JournalOwn, OwnedBy
<1>4. CASE o \notin Kept /\ q \in Kept BY <1>1, <1>4 DEF ReleaseInv, JournalOwn, OwnedBy
<1>5. CASE o \notin Kept /\ q \notin Kept BY <1>5 DEF OwnedBy
<1> QED BY <1>2, <1>3, <1>4, <1>5

\* Steps that touch neither side's tables, and one caller at most.
LEMMA CallerStep ==
  ASSUME ReleaseInv, NEW t \in Releasers, NEW c \in CallerStates,
         releaser' = [releaser EXCEPT ![t] = c], CallerOwns(c),
         UNCHANGED <<journal, nextSeq, history, writer, storeSide, issued, sentCas, decision>>,
         sentRel' \subseteq sentRel \cup {<<c.release, c.op, t>>},
         sentRel' \subseteq sentRel \/ c.at = "sent"
  PROVE  ReleaseInv' /\ PrunedAsDecided
<1> USE DEF ReleaseInv, storeSide
<1>1. \A u \in Releasers : releaser'[u] = IF u = t THEN c ELSE releaser[u]
  BY DEF ReleaseTypes
<1>2. c.release \in Nat /\ c.op \in Nat BY DEF CallerStates
<1>3. ReleaseTypes'
  <2>1. releaser' \in [Releasers -> CallerStates] BY DEF ReleaseTypes
  <2>2. sentRel' \subseteq Nat \X Nat \X Releasers BY <1>2 DEF ReleaseTypes
  <2> QED BY <2>1, <2>2 DEF ReleaseTypes, Kept, Evidence
<1>4. \A r, o : OwnedBy(r, o) => OwnedBy(r, o)' BY DEF OwnedBy, Kept, Evidence
<1>5. CallersOwn'
  <2>1. \A u \in Releasers : CallerOwns(releaser[u])'
    BY <1>1, <1>4 DEF CallersOwn, CallerOwns, OwnedBy, Kept, Evidence
  <2>2. \A s \in sentRel' : OwnedBy(s[1], s[2])'
    <3>1. SUFFICES ASSUME NEW s \in sentRel' PROVE OwnedBy(s[1], s[2]) BY <1>4
    <3>2. CASE s \in sentRel BY <3>2 DEF CallersOwn
    <3>3. CASE s = <<c.release, c.op, t>> /\ c.at = "sent" BY <3>3 DEF CallerOwns
    <3> QED BY <3>1, <3>2, <3>3
  <2> QED BY <2>1, <2>2 DEF CallersOwn
<1>6. JournalOwn' /\ DecisionSaw' /\ EvidenceKept'
  BY DEF JournalOwn, DecisionSaw, EvidenceKept, Kept, Evidence, Eligible
<1>7. PrunedAsDecided BY DEF PrunedAsDecided, Kept
<1> QED BY <1>3, <1>5, <1>6, <1>7

\* accept_config: the new operation is nobody's yet.
LEMMA AcceptOperationKeeps ==
  ASSUME ReleaseInv, AcceptOperation
  PROVE  ReleaseInv' /\ PrunedAsDecided
<1> USE DEF ReleaseInv
<1> DEFINE renewed == [state |-> "accepted", release |-> 0, acknowledged |-> FALSE]
<1>0. /\ nextSeq' = nextSeq + 1 /\ history' = history + 1 /\ writer' = nextSeq
      /\ sentCas' = sentCas \cup {nextSeq}
      /\ UNCHANGED <<receipts, highWater, ledger, issued, sentRel, releaser, decision>>
  BY DEF AcceptOperation, storeSide
<1>1. /\ DOMAIN journal' = Kept \cup {nextSeq} /\ journal'[nextSeq] = renewed
      /\ \A o \in Kept : o # nextSeq => journal'[o] = journal[o]
  BY DEF AcceptOperation
<1>2. nextSeq \in Nat \ {0} /\ nextSeq \notin Kept /\ nextSeq \notin DOMAIN receipts
      /\ \A o \in Kept : o # nextSeq
  BY DEF ReleaseTypes
<1>3. journal' \in [Kept' -> JournalRows]
  <2>1. renewed \in JournalRows BY DEF JournalRows
  <2>2. journal' = [o \in Kept \cup {nextSeq} |-> IF o = nextSeq THEN renewed ELSE journal[o]]
    BY DEF AcceptOperation
  <2> QED BY <2>1, <2>2 DEF ReleaseTypes, Kept
<1>4. ReleaseTypes'
  <2>1. Kept' \subseteq 1..nextSeq /\ sentCas' \subseteq 1..nextSeq
        /\ DOMAIN receipts \subseteq 1..nextSeq
    BY <1>0, <1>1, <1>2 DEF ReleaseTypes, Kept
  <2> QED BY <1>0, <1>2, <1>3, <2>1 DEF ReleaseTypes, Evidence
<1>5. \A r, o : OwnedBy(r, o) => OwnedBy(r, o)' /\ o # nextSeq
  BY <1>0, <1>1, <1>2 DEF OwnedBy, Kept, Evidence
<1>6. CallersOwn'
  <2>1. \A t \in Releasers : CallerOwns(releaser[t])'
    BY <1>0, <1>1, <1>2, <1>5 DEF CallersOwn, CallerOwns, Kept, Evidence
  <2> QED BY <1>0, <1>5, <2>1 DEF CallersOwn
<1>7. JournalOwn'
  <2>1. \A o \in Kept' : journal'[o].release # 0 => o \in Kept /\ journal'[o] = journal[o]
    BY <1>1, <1>2 DEF Kept
  <2> QED BY <1>0, <1>1, <1>2, <2>1 DEF JournalOwn, Kept, Evidence
<1>8. DecisionSaw' BY <1>0 DEF DecisionSaw, ReleaseTypes
<1>9. EvidenceKept'
  <2>1. \A r \in DOMAIN ledger : ledger[r] # nextSeq BY <1>2 DEF ReleaseTypes, Evidence
  <2>2. \A o \in Kept' : journal'[o].acknowledged => o \in Kept /\ journal'[o] = journal[o]
    BY <1>1, <1>2 DEF Kept
  <2>3. \A o \in (1..(nextSeq' - 1)) \ Kept' : o \in (1..(nextSeq - 1)) \ Kept
    BY <1>0, <1>1, <1>2 DEF Kept
  <2>4. \A o \in Kept' : o # nextSeq => o \in Kept /\ journal'[o] = journal[o]
    BY <1>1, <1>2 DEF Kept
  <2>a. \A r \in DOMAIN ledger : ledger[r] \in Kept' => journal'[ledger[r]].release = r
    BY <2>1, <2>4 DEF EvidenceKept
  <2>b. \A o \in Kept' : journal'[o].acknowledged =>
          journal'[o].release \in DOMAIN ledger /\ ledger[journal'[o].release] = o
    BY <2>2 DEF EvidenceKept
  <2>c. \A o \in DOMAIN receipts : o \in Kept' /\ journal'[o].state # "candidate_activated"
          => receipts[o]
    BY <2>4, <1>2 DEF EvidenceKept
  <2> QED BY <1>0, <2>3, <2>a, <2>b, <2>c DEF EvidenceKept
<1>10. PrunedAsDecided BY <1>1 DEF PrunedAsDecided
<1> QED BY <1>4, <1>6, <1>7, <1>8, <1>9, <1>10

\* compare_and_swap_operation_v2: a receipt the ledger knows nothing of.
LEMMA CasExecutesKeeps ==
  ASSUME ReleaseInv, NEW o, CasExecutes(o)
  PROVE  ReleaseInv' /\ PrunedAsDecided
<1> USE DEF ReleaseInv
<1>0. /\ o \in sentCas /\ sentCas' \subseteq sentCas /\ o \in 1..(nextSeq - 1)
      /\ UNCHANGED <<journal, nextSeq, history, writer, ledger, issued, sentRel, releaser, decision>>
  BY DEF CasExecutes, ReleaseTypes
<1>1. PrunedAsDecided BY <1>0 DEF PrunedAsDecided, Kept
<1>2. CallersOwn' /\ DecisionSaw'
  BY <1>0 DEF CallersOwn, CallerOwns, OwnedBy, DecisionSaw, Kept, Evidence, Eligible
<1>3. CASE UNCHANGED <<receipts, highWater>>
  <2>1. ReleaseTypes' BY <1>0, <1>3 DEF ReleaseTypes, Kept, Evidence
  <2>2. JournalOwn' /\ EvidenceKept'
    BY <1>0, <1>3 DEF JournalOwn, EvidenceKept, Kept, Evidence
  <2> QED BY <1>1, <1>2, <2>1, <2>2
<1>4. CASE /\ o > highWater /\ highWater' = o
           /\ receipts' = [q \in DOMAIN receipts \cup {o} |-> IF q = o THEN TRUE ELSE receipts[q]]
  <2>1. o \notin DOMAIN receipts BY <1>4, <1>0 DEF JournalOwn, ReleaseTypes
  <2>2. /\ DOMAIN receipts' = DOMAIN receipts \cup {o} /\ receipts'[o] = TRUE
        /\ \A q \in DOMAIN receipts : receipts'[q] = receipts[q]
    BY <1>4, <2>1
  <2>3. receipts' \in [DOMAIN receipts' -> BOOLEAN]
    BY <1>4, <2>2 DEF ReleaseTypes
  <2>4. ReleaseTypes'
    <3>1. ledger' \in [Evidence' -> DOMAIN receipts'] /\ highWater' \in Nat
          /\ DOMAIN receipts' \subseteq 1..(nextSeq' - 1)
      BY <1>0, <1>4, <2>2 DEF ReleaseTypes, Evidence
    <3> QED BY <1>0, <2>3, <3>1 DEF ReleaseTypes, Kept, Evidence
  <2>5. \A r \in DOMAIN ledger : ledger[r] # o BY <2>1 DEF ReleaseTypes, Evidence
  <2>6. JournalOwn'
    <3>1. \A q \in DOMAIN receipts' : q <= highWater'
      BY <1>0, <1>4, <2>2 DEF JournalOwn, ReleaseTypes
    <3> QED BY <1>0, <3>1 DEF JournalOwn, Kept, Evidence
  <2>7. EvidenceKept'
    <3>1. \A q \in DOMAIN receipts' : ~receipts'[q] <=> \E r \in DOMAIN ledger : ledger[r] = q
      BY <2>2, <2>5 DEF EvidenceKept
    <3>2. \A q \in DOMAIN receipts' : q \in Kept /\ journal[q].state # "candidate_activated"
            => receipts'[q]
      BY <2>2 DEF EvidenceKept
    <3> QED BY <1>0, <3>1, <3>2 DEF EvidenceKept, Kept
  <2> QED BY <1>1, <1>2, <2>4, <2>6, <2>7
<1> QED BY <1>3, <1>4 DEF CasExecutes

\* finish_config: an operation that was only accepted has no release.
LEMMA FinishOperationKeeps ==
  ASSUME ReleaseInv,
         NEW state \in {"candidate_activated", "conflict", "indeterminate"},
         FinishOperation(state)
  PROVE  ReleaseInv' /\ PrunedAsDecided
<1> USE DEF ReleaseInv
<1>0. /\ writer # 0 /\ writer \in Kept /\ journal[writer].state = "accepted"
      /\ journal' = [journal EXCEPT ![writer].state = state]
      /\ history' = history + 1 /\ writer' = 0
      /\ UNCHANGED <<nextSeq, receipts, highWater, ledger, issued, sentCas, sentRel, releaser,
                     decision>>
  BY DEF FinishOperation, storeSide, JournalOwn
<1>1. journal[writer] \in JournalRows BY <1>0 DEF ReleaseTypes
<1>2. /\ Kept' = Kept /\ journal' \in [Kept -> JournalRows]
      /\ \A o \in Kept : /\ journal'[o].release = journal[o].release
                         /\ journal'[o].acknowledged = journal[o].acknowledged
                         /\ o # writer => journal'[o].state = journal[o].state
  BY <1>0, <1>1 DEF ReleaseTypes, Kept, JournalRows
<1>3. journal[writer].release = 0 BY <1>0 DEF JournalOwn
<1>4. ReleaseTypes' BY <1>0, <1>2 DEF ReleaseTypes, Evidence
<1>5. \A o \in Kept : journal[o].state = "candidate_activated" =>
        journal'[o].state = "candidate_activated"
  BY <1>0, <1>2
<1>6. \A r, o : OwnedBy(r, o) => OwnedBy(r, o)' BY <1>0, <1>2 DEF OwnedBy, Evidence
<1>7. CallersOwn'
  <2>1. \A t \in Releasers : CallerOwns(releaser[t])'
    BY <1>0, <1>2, <1>5, <1>6 DEF CallersOwn, CallerOwns, Evidence
  <2> QED BY <1>0, <1>6, <2>1 DEF CallersOwn
<1>8. JournalOwn' BY <1>0, <1>2, <1>5 DEF JournalOwn, Evidence
<1>9. DecisionSaw' BY <1>0 DEF DecisionSaw, ReleaseTypes
<1>10. EvidenceKept'
  <2>1. \A o \in DOMAIN receipts : o \in Kept /\ journal'[o].state # "candidate_activated"
          => receipts[o]
    BY <1>0, <1>5 DEF EvidenceKept
  <2> QED BY <1>0, <1>2, <2>1 DEF EvidenceKept
<1>11. PrunedAsDecided BY <1>2 DEF PrunedAsDecided, Kept
<1> QED BY <1>4, <1>7, <1>8, <1>9, <1>10, <1>11

\* A caller with nothing under way.
LEMMA RestingOwns == Resting \in CallerStates /\ CallerOwns(Resting)
BY DEF Resting, CallerStates, CallerOwns

\* The caller reads, and asks the store.
LEMMA BeginKeeps ==
  ASSUME ReleaseInv, NEW t \in Releasers, NEW o \in Kept, Begin(t, o)
  PROVE  ReleaseInv' /\ PrunedAsDecided
<1> DEFINE step == IF journal[o].release # 0 THEN "prepare" ELSE "lookup"
           c == [Resting EXCEPT !.at = step, !.op = o]
<1>1. releaser' = [releaser EXCEPT ![t] = c] BY DEF Begin
<1>2. o \in Nat /\ o \in 1..(nextSeq - 1) BY DEF ReleaseInv, ReleaseTypes
<1>3. c \in CallerStates /\ c.at = step /\ c.op = o
  <2>1. step \in {"prepare", "lookup"} OBVIOUS
  <2> HIDE DEF step
  <2>2. [Resting EXCEPT !.at = step] \in CallerStates /\ [Resting EXCEPT !.at = step].at = step
    BY <2>1, RestingOwns DEF CallerStates
  <2>3. c = [[Resting EXCEPT !.at = step] EXCEPT !.op = o] OBVIOUS
  <2> QED BY <1>2, <2>2, <2>3 DEF CallerStates
<1>4. CallerOwns(c) BY <1>2, <1>3 DEF CallerOwns, Begin
<1> HIDE DEF c
<1> QED BY <1>1, <1>3, <1>4, CallerStep DEF Begin

\* What a caller's record consists of.
LEMMA CallerFields ==
  ASSUME ReleaseInv, NEW t \in Releasers
  PROVE  /\ releaser[t] \in CallerStates /\ CallerOwns(releaser[t])
         /\ releaser[t] = [at |-> releaser[t].at, op |-> releaser[t].op,
                           release |-> releaser[t].release,
                           acknowledged |-> releaser[t].acknowledged]
         /\ releaser[t].op \in Nat /\ releaser[t].release \in Nat
         /\ releaser[t].acknowledged \in BOOLEAN
<1>1. releaser[t] \in CallerStates BY DEF ReleaseInv, ReleaseTypes
<1> QED BY <1>1 DEF CallerStates, ReleaseInv, CallersOwn

\* A caller that moves on with what it has.
LEMMA MoveOn ==
  ASSUME ReleaseInv, NEW t \in Releasers, NEW step \in {"prepare", "sent", "acknowledge"},
         releaser[t].at # "idle",
         step # "prepare" => releaser[t].at \in {"evidence", "sent"},
         step = "acknowledge" => /\ releaser[t].release \in Evidence
                                 /\ ledger[releaser[t].release] = releaser[t].op
  PROVE  LET c == [releaser[t] EXCEPT !.at = step]
         IN  /\ [releaser EXCEPT ![t].at = step] = [releaser EXCEPT ![t] = c]
             /\ c \in CallerStates /\ CallerOwns(c) /\ c.at = step
             /\ c.op = releaser[t].op /\ c.release = releaser[t].release
<1> DEFINE c == [releaser[t] EXCEPT !.at = step]
<1>1. [releaser EXCEPT ![t].at = step] = [releaser EXCEPT ![t] = c]
  BY DEF ReleaseInv, ReleaseTypes
<1>2. /\ c \in CallerStates /\ c.at = step
      /\ c.op = releaser[t].op /\ c.release = releaser[t].release
  BY CallerFields DEF CallerStates
<1>3. CallerOwns(c)
  <2> HIDE DEF c
  <2> QED BY <1>2, CallerFields DEF CallerOwns
<1> QED BY <1>1, <1>2, <1>3

\* lookup of the receipt.
LEMMA LookupReceiptKeeps ==
  ASSUME ReleaseInv, NEW t \in Releasers, LookupReceipt(t)
  PROVE  ReleaseInv' /\ PrunedAsDecided
<1>1. PICK c \in CallerStates : releaser' = [releaser EXCEPT ![t] = c] /\ CallerOwns(c)
  <2>1. CASE releaser' = [releaser EXCEPT ![t] = Resting] BY <2>1, RestingOwns
  <2>2. CASE releaser' = [releaser EXCEPT ![t].at = "prepare"]
    BY <2>2, MoveOn DEF LookupReceipt
  <2> QED BY <2>1, <2>2 DEF LookupReceipt
<1> QED BY <1>1, CallerStep DEF LookupReceipt

\* lookup_receipt_release_v2.
LEMMA LookupEvidenceKeeps ==
  ASSUME ReleaseInv, NEW t \in Releasers, LookupEvidence(t)
  PROVE  ReleaseInv' /\ PrunedAsDecided
<1>0. /\ releaser[t].at = "evidence"
      /\ UNCHANGED <<journal, nextSeq, history, writer, storeSide, issued, sentCas, decision>>
  BY DEF LookupEvidence
<1>1. CASE /\ releaser[t].release \in Evidence /\ ledger[releaser[t].release] = releaser[t].op
           /\ releaser' = [releaser EXCEPT ![t].at = "acknowledge"] /\ UNCHANGED sentRel
  <2>1. PICK c \in CallerStates : releaser' = [releaser EXCEPT ![t] = c] /\ CallerOwns(c)
    BY <1>0, <1>1, MoveOn
  <2> QED BY <1>0, <1>1, <2>1, CallerStep
<1>2. CASE releaser' = [releaser EXCEPT ![t] = Resting] /\ UNCHANGED sentRel
  BY <1>0, <1>2, RestingOwns, CallerStep
<1>3. CASE /\ releaser' = [releaser EXCEPT ![t].at = "sent"]
           /\ sentRel' = sentRel \cup {<<releaser[t].release, releaser[t].op, t>>}
  <2> DEFINE c == [releaser[t] EXCEPT !.at = "sent"]
  <2>1. /\ releaser' = [releaser EXCEPT ![t] = c] /\ c \in CallerStates /\ CallerOwns(c)
        /\ c.at = "sent" /\ c.op = releaser[t].op /\ c.release = releaser[t].release
    BY <1>0, <1>3, MoveOn
  <2>2. sentRel' = sentRel \cup {<<c.release, c.op, t>>} BY <1>3, <2>1
  <2> HIDE DEF c
  <2> QED BY <1>0, <2>1, <2>2, CallerStep
<1> QED BY <1>1, <1>2, <1>3 DEF LookupEvidence, Evidence

\* A read, a transaction or an answer fails.
LEMMA ReleaseFailsKeeps ==
  ASSUME ReleaseInv, NEW t \in Releasers, ReleaseFails(t)
  PROVE  ReleaseInv' /\ PrunedAsDecided
BY RestingOwns, CallerStep DEF ReleaseFails

\* The process dies, and only what callers remembered goes with it.
LEMMA CrashReleaseKeeps ==
  ASSUME ReleaseInv, CrashRelease
  PROVE  ReleaseInv' /\ PrunedAsDecided
<1> USE DEF ReleaseInv, storeSide
<1>0. /\ writer' = 0 /\ releaser' = [t \in Releasers |-> Resting]
      /\ UNCHANGED <<journal, nextSeq, history, storeSide, issued, sentCas, sentRel, decision>>
  BY DEF CrashRelease
<1>1. ReleaseTypes' BY <1>0, RestingOwns DEF ReleaseTypes, Kept, Evidence
<1>2. CallersOwn'
  <2>1. \A t \in Releasers : CallerOwns(releaser[t])'
    BY <1>0 DEF CallerOwns, Resting
  <2> QED BY <1>0, <2>1 DEF CallersOwn, OwnedBy, Kept, Evidence
<1>3. JournalOwn' /\ DecisionSaw' /\ EvidenceKept'
  BY <1>0 DEF JournalOwn, DecisionSaw, EvidenceKept, Kept, Evidence, Eligible
<1>4. PrunedAsDecided BY <1>0 DEF PrunedAsDecided, Kept
<1> QED BY <1>1, <1>2, <1>3, <1>4

\* An administrator's page holds what is eligible at that moment.
LEMMA ReadJournalKeeps ==
  ASSUME ReleaseInv, ReadJournal
  PROVE  ReleaseInv' /\ PrunedAsDecided
<1> USE DEF ReleaseInv, storeSide
<1>0. /\ decision' = [latest |-> nextSeq - 1, history |-> history,
                      eligible |-> {o \in Kept : Eligible(o)}]
      /\ UNCHANGED <<journal, nextSeq, history, writer, storeSide, issued, sentCas, sentRel,
                     releaser>>
  BY DEF ReadJournal
<1>1. decision' \in [latest : Nat, history : Nat, eligible : SUBSET Nat]
  BY <1>0 DEF ReleaseTypes
<1>2. ReleaseTypes' BY <1>0, <1>1 DEF ReleaseTypes, Kept, Evidence
<1>3. DecisionSaw'
  <2>1. decision'.history = history /\ decision'.eligible = {o \in Kept : Eligible(o)}
    BY <1>0
  <2> QED BY <1>0, <2>1 DEF DecisionSaw, Kept, Eligible, ReleaseTypes
<1>4. JournalOwn' /\ CallersOwn' /\ EvidenceKept'
  BY <1>0 DEF JournalOwn, CallersOwn, CallerOwns, OwnedBy, EvidenceKept, Kept, Evidence
<1>5. PrunedAsDecided BY <1>0 DEF PrunedAsDecided, Kept
<1> QED BY <1>2, <1>3, <1>4, <1>5

\* prepare_config_release_authorized: the intent is found, or created with an
\* identity nobody has.
LEMMA PrepareIntentKeeps ==
  ASSUME ReleaseInv, NEW t \in Releasers, PrepareIntent(t)
  PROVE  ReleaseInv' /\ PrunedAsDecided
<1> USE DEF ReleaseInv
<1> DEFINE o == releaser[t].op
           takes(r, known) == [releaser EXCEPT ![t].at = "evidence", ![t].release = r,
                                               ![t].acknowledged = known]
<1>0. /\ releaser[t].at = "prepare" /\ o \in 1..(nextSeq - 1) /\ o \in Nat
      /\ o \in Kept => journal[o].state = "candidate_activated" /\ journal[o] \in JournalRows
      /\ UNCHANGED <<nextSeq, writer, receipts, highWater, ledger, sentCas, sentRel, decision>>
  BY CallerFields DEF PrepareIntent, storeSide, CallerOwns, ReleaseTypes
<1>1. ASSUME NEW r \in Nat, NEW known \in BOOLEAN
      PROVE  \E c \in CallerStates : /\ takes(r, known) = [releaser EXCEPT ![t] = c]
                                     /\ c.at = "evidence" /\ c.op = o /\ c.release = r
  <2> DEFINE c1 == [releaser[t] EXCEPT !.at = "evidence"]
             c2 == [c1 EXCEPT !.release = r]
             c3 == [c2 EXCEPT !.acknowledged = known]
  <2>1. c1 \in CallerStates /\ c1.at = "evidence" /\ c1.op = o
    BY CallerFields DEF CallerStates
  <2>2. takes(r, known) = [releaser EXCEPT ![t] = c3] BY DEF ReleaseTypes
  <2> HIDE DEF c1
  <2>3. c2 \in CallerStates /\ c2.at = "evidence" /\ c2.op = o /\ c2.release = r
    BY <2>1 DEF CallerStates
  <2> HIDE DEF c2
  <2>4. c3 \in CallerStates /\ c3.at = "evidence" /\ c3.op = o /\ c3.release = r
    BY <2>3 DEF CallerStates
  <2> HIDE DEF c3
  <2> QED BY <2>2, <2>4
<1> HIDE DEF takes
<1>2. CASE /\ o \in Kept /\ journal[o].release # 0
           /\ releaser' = takes(journal[o].release, journal[o].acknowledged)
           /\ UNCHANGED <<journal, history, issued>>
  <2>1. journal[o].release \in Nat /\ journal[o].acknowledged \in BOOLEAN
    BY <1>0, <1>2 DEF JournalRows
  <2>2. PICK c \in CallerStates : /\ releaser' = [releaser EXCEPT ![t] = c]
                                 /\ c.at = "evidence" /\ c.op = o
                                 /\ c.release = journal[o].release
    <3>1. PICK r \in Nat, k \in BOOLEAN : r = journal[o].release /\ k = journal[o].acknowledged
      BY <2>1
    <3>2. releaser' = takes(r, k) BY <1>2, <3>1
    <3> HIDE DEF o
    <3>3. \E c \in CallerStates : /\ takes(r, k) = [releaser EXCEPT ![t] = c]
                                  /\ c.at = "evidence" /\ c.op = o /\ c.release = r
      BY <1>1
    <3> QED BY <3>1, <3>2, <3>3
  <2>3. OwnedBy(journal[o].release, o) BY <1>0, <1>2, <2>1 DEF OwnedBy, JournalOwn, ReleaseTypes
  <2>4. CallerOwns(c) BY <1>0, <2>2, <2>3 DEF CallerOwns
  <2> QED BY <1>0, <1>2, <2>2, <2>4, CallerStep DEF storeSide
<1>3. CASE o \notin Kept /\ releaser' = [releaser EXCEPT ![t] = Resting]
           /\ UNCHANGED <<journal, history, issued>>
  BY <1>0, <1>3, RestingOwns, CallerStep DEF storeSide
<1>4. CASE /\ o \in Kept /\ journal[o].release = 0
           /\ issued' = issued + 1 /\ history' = history + 1
           /\ journal' = [journal EXCEPT ![o].release = issued + 1]
           /\ releaser' = takes(issued + 1, FALSE)
  <2>0. issued \in Nat /\ issued + 1 \in Nat BY DEF ReleaseTypes
  <2>1. PICK c \in CallerStates : /\ releaser' = [releaser EXCEPT ![t] = c]
                                 /\ c.at = "evidence" /\ c.op = o /\ c.release = issued + 1
    BY <1>1, <1>4, <2>0
  <2>2. /\ Kept' = Kept /\ journal' \in [Kept -> JournalRows]
        /\ journal'[o].release = issued + 1
        /\ \A q \in Kept : /\ q # o => journal'[q] = journal[q]
                           /\ journal'[q].state = journal[q].state
                           /\ journal'[q].acknowledged = journal[q].acknowledged
    BY <1>0, <1>4, <2>0 DEF ReleaseTypes, Kept, JournalRows
  <2>3. \A u \in Releasers : releaser'[u] = IF u = t THEN c ELSE releaser[u]
    BY <2>1 DEF ReleaseTypes
  <2>4. ReleaseTypes'
    <3>1. releaser' \in [Releasers -> CallerStates] BY <2>1 DEF ReleaseTypes
    <3>2. Evidence' \subseteq 1..issued' /\ issued' \in Nat /\ history' \in Nat
      BY <1>0, <1>4, <2>0 DEF ReleaseTypes, Evidence
    <3> QED BY <1>0, <2>2, <3>1, <3>2 DEF ReleaseTypes, Evidence
  <2>5. \A r, q : OwnedBy(r, q) => OwnedBy(r, q)'
    <3>1. SUFFICES ASSUME NEW r, NEW q, OwnedBy(r, q) PROVE OwnedBy(r, q)' OBVIOUS
    <3>2. q \in Kept => q # o BY <1>4, <3>1 DEF OwnedBy
    <3> QED BY <1>0, <1>4, <2>0, <2>2, <3>1, <3>2 DEF OwnedBy, Evidence
  <2>6. CallersOwn'
    <3>1. OwnedBy(c.release, c.op)'
      <4>0. issued' = issued + 1 /\ c.release = issued + 1 /\ nextSeq' = nextSeq
            /\ c.op \in 1..(nextSeq - 1)
        BY <1>0, <1>4, <2>1
      <4>1. c.release \in 1..issued' /\ c.op \in 1..(nextSeq' - 1) BY <2>0, <4>0
      <4>2. c.op \in Kept' /\ journal'[c.op].release = c.release BY <1>4, <2>1, <2>2
      <4> QED BY <4>1, <4>2 DEF OwnedBy
    <3>2. CallerOwns(c)' BY <1>0, <1>4, <2>1, <2>2, <3>1 DEF CallerOwns
    <3>4. CallerOwns(releaser[t])'
      <4>1. releaser'[t] = c BY <2>3
      <4> QED BY <3>2, <4>1 DEF CallerOwns, OwnedBy
    <3>3. \A u \in Releasers \ {t} : CallerOwns(releaser[u])'
      BY <1>0, <2>2, <2>3, <2>5 DEF CallersOwn, CallerOwns, Evidence
    <3> QED BY <1>0, <2>5, <3>4, <3>3 DEF CallersOwn
  <2>7. issued + 1 \notin Evidence BY <2>0 DEF ReleaseTypes
  <2>8. JournalOwn'
    <3>1. \A q \in Kept : journal'[q].release # 0 =>
            /\ journal'[q].release <= issued + 1 /\ journal'[q].state = "candidate_activated"
            /\ journal'[q].release \in Evidence => ledger[journal'[q].release] = q
      <4>1. SUFFICES ASSUME NEW q \in Kept, journal'[q].release # 0
                     PROVE  /\ journal'[q].release <= issued + 1
                            /\ journal'[q].state = "candidate_activated"
                            /\ journal'[q].release \in Evidence => ledger[journal'[q].release] = q
        OBVIOUS
      <4>2. CASE q = o BY <1>0, <1>4, <2>0, <2>2, <2>7, <4>2
      <4>3. CASE q # o
        <5>1. journal[q].release \in Nat BY DEF ReleaseTypes, JournalRows
        <5> QED BY <2>0, <2>2, <4>1, <4>3, <5>1 DEF JournalOwn
      <4> QED BY <4>2, <4>3
    <3>2. \A p, q \in Kept : journal'[p].release = journal'[q].release /\ journal'[p].release # 0
            => p = q
      <4>1. \A q \in Kept \ {o} : journal'[q].release # issued + 1
        <5>1. \A q \in Kept : journal[q].release \in Nat BY DEF ReleaseTypes, JournalRows
        <5> QED BY <2>0, <2>2, <5>1 DEF JournalOwn
      <4> QED BY <2>2, <4>1 DEF JournalOwn
    <3>3. writer # 0 => writer \in Kept /\ journal'[writer].state = "accepted"
      BY <2>2 DEF JournalOwn
    <3> QED BY <1>0, <1>4, <2>2, <3>1, <3>2, <3>3 DEF JournalOwn, Evidence
  <2>9. DecisionSaw' BY <1>0, <1>4 DEF DecisionSaw, ReleaseTypes
  <2>10. EvidenceKept'
    <3>1. \A r \in DOMAIN ledger : ledger[r] # o
      <4>1. SUFFICES ASSUME NEW r \in DOMAIN ledger, ledger[r] = o PROVE FALSE OBVIOUS
      <4>2. r = 0 BY <1>4, <4>1 DEF EvidenceKept
      <4> QED BY <2>0, <4>1, <4>2 DEF ReleaseTypes, Evidence
    <3>2. ~journal[o].acknowledged
      <4>1. 0 \notin DOMAIN ledger BY <2>0 DEF ReleaseTypes, Evidence
      <4> QED BY <1>4, <4>1 DEF EvidenceKept
    <3>3. \A r \in DOMAIN ledger : ledger[r] \in Kept => journal'[ledger[r]].release = r
      BY <2>2, <3>1 DEF EvidenceKept
    <3>4. \A q \in Kept : journal'[q].acknowledged =>
            journal'[q].release \in DOMAIN ledger /\ ledger[journal'[q].release] = q
      BY <1>4, <2>2, <3>2 DEF EvidenceKept
    <3> QED BY <1>0, <2>2, <3>3, <3>4 DEF EvidenceKept
  <2>11. PrunedAsDecided BY <2>2 DEF PrunedAsDecided, Kept
  <2> QED BY <2>4, <2>6, <2>8, <2>9, <2>10, <2>11
<1> QED BY <1>2, <1>3, <1>4 DEF PrepareIntent, takes

\* hangang_release_receipt_v2: evidence and unpinning in one transaction.
LEMMA ReleaseExecutesKeeps ==
  ASSUME ReleaseInv, NEW r, NEW o, NEW t, ReleaseExecutes(r, o, t)
  PROVE  ReleaseInv' /\ PrunedAsDecided
<1> USE DEF ReleaseInv
<1>0. /\ <<r, o, t>> \in sentRel /\ sentRel' \subseteq sentRel
      /\ UNCHANGED <<journal, nextSeq, history, writer, highWater, issued, sentCas, decision>>
  BY DEF ReleaseExecutes
<1>1. r \in Nat /\ o \in Nat /\ t \in Releasers /\ OwnedBy(r, o)
  <2>1. <<r, o, t>> \in Nat \X Nat \X Releasers BY <1>0 DEF ReleaseTypes
  <2>2. \A s \in sentRel : OwnedBy(s[1], s[2]) BY DEF CallersOwn
  <2>3. <<r, o, t>>[1] = r /\ <<r, o, t>>[2] = o OBVIOUS
  <2>4. OwnedBy(r, o) BY <1>0, <2>2, <2>3
  <2> QED BY <2>1, <2>4
<1> DEFINE released == ReleaseOutcome(r, o) = "released"
<1>2. /\ released => /\ r \notin Evidence /\ o \in DOMAIN receipts /\ receipts[o]
                     /\ ledger' = [q \in DOMAIN ledger \cup {r} |-> IF q = r THEN o ELSE ledger[q]]
                     /\ receipts' = [receipts EXCEPT ![o] = FALSE]
      /\ ~released => UNCHANGED <<receipts, ledger>>
  BY DEF ReleaseExecutes, ReleaseOutcome, Evidence
<1>3. ReleaseOutcome(r, o) = "proved" => r \in Evidence /\ ledger[r] = o
  BY DEF ReleaseOutcome, Evidence
<1>4. ReleaseOutcome(r, o) \in {"proved", "released", "refused"} BY DEF ReleaseOutcome
<1>5. \A q \in Evidence : q \in Evidence' /\ ledger'[q] = ledger[q]
  BY <1>2 DEF Evidence
<1>6. ReleaseOutcome(r, o) # "refused" => r \in Evidence' /\ ledger'[r] = o
  BY <1>2, <1>3, <1>4, <1>5 DEF Evidence
<1>7. Kept' = Kept BY <1>0 DEF Kept
<1>8. \A q, p : OwnedBy(q, p) => OwnedBy(q, p)' BY <1>0, <1>5, <1>7 DEF OwnedBy
<1>9. PICK u \in CallerStates : /\ releaser' = [releaser EXCEPT ![t] = u]
                                /\ CallerOwns(u)'
  <2>1. CASE releaser' = releaser
    <3>1. CallerOwns(releaser[t]) /\ releaser[t] \in CallerStates BY <1>1, CallerFields
    <3>2. \A w : CallerOwns(w) => CallerOwns(w)' BY <1>0, <1>5, <1>7, <1>8 DEF CallerOwns
    <3>3. releaser' = [releaser EXCEPT ![t] = releaser[t]] BY <1>1, <2>1 DEF ReleaseTypes
    <3> QED BY <3>1, <3>2, <3>3
  <2>2. CASE releaser' = [releaser EXCEPT ![t] = Resting]
    <3>1. CallerOwns(Resting)' BY DEF CallerOwns, Resting
    <3> QED BY <2>2, <3>1, RestingOwns
  <2>3. CASE /\ releaser[t].at = "sent" /\ releaser[t].release = r
             /\ ReleaseOutcome(r, o) # "refused"
             /\ releaser' = [releaser EXCEPT ![t].at = "acknowledge"]
    <3>1. OwnedBy(r, releaser[t].op) BY <1>1, <2>3, CallerFields DEF CallerOwns
    <3>2. releaser[t].op = o BY <1>1, <3>1, OwnsOnce
    <3>3. PICK w \in CallerStates : /\ w.at = "acknowledge" /\ w.op = o /\ w.release = r
                                   /\ releaser' = [releaser EXCEPT ![t] = w]
      <4> DEFINE x == [releaser[t] EXCEPT !.at = "acknowledge"]
      <4>1. x \in CallerStates /\ x.at = "acknowledge" /\ x.op = o /\ x.release = r
        BY <1>1, <2>3, <3>2, CallerFields DEF CallerStates
      <4>2. releaser' = [releaser EXCEPT ![t] = x] BY <1>1, <2>3 DEF ReleaseTypes
      <4> HIDE DEF x
      <4> QED BY <4>1, <4>2
    <3>5. o \in 1..(nextSeq - 1) /\ (o \in Kept => journal[o].state = "candidate_activated")
      BY <1>1, <2>3, <3>2, CallerFields DEF CallerOwns
    <3>6. CallerOwns(w)'
      BY <1>0, <1>1, <1>6, <1>7, <1>8, <2>3, <3>3, <3>5 DEF CallerOwns
    <3> QED BY <3>3, <3>6
  <2> QED BY <2>1, <2>2, <2>3 DEF ReleaseExecutes, Answered
<1>10. CallersOwn'
  <2>1. \A v \in Releasers : releaser'[v] = IF v = t THEN u ELSE releaser[v]
    BY <1>9 DEF ReleaseTypes
  <2>2. \A w : CallerOwns(w) => CallerOwns(w)' BY <1>0, <1>5, <1>7, <1>8 DEF CallerOwns
  <2>3. \A v \in Releasers : CallerOwns(releaser[v])'
    <3>1. SUFFICES ASSUME NEW v \in Releasers PROVE CallerOwns(releaser[v])' OBVIOUS
    <3>2. CASE v = t
      <4>1. releaser'[v] = u BY <2>1, <3>2
      <4> QED BY <4>1, <1>9 DEF CallerOwns, OwnedBy
    <3>3. CASE v # t
      <4>1. releaser'[v] = releaser[v] BY <2>1, <3>3
      <4>2. CallerOwns(releaser[v]) BY DEF CallersOwn
      <4> QED BY <4>1, <4>2, <2>2 DEF CallerOwns, OwnedBy
    <3> QED BY <3>2, <3>3
  <2> QED BY <1>0, <1>8, <2>3 DEF CallersOwn
<1>11. DecisionSaw' BY <1>0, <1>7 DEF DecisionSaw, Eligible
<1>12. PrunedAsDecided BY <1>7 DEF PrunedAsDecided, Kept
<1>13. releaser' \in [Releasers -> CallerStates] BY <1>9 DEF ReleaseTypes
<1>14. CASE ~released
  <2>1. ReleaseTypes' BY <1>0, <1>2, <1>7, <1>13, <1>14 DEF ReleaseTypes, Evidence
  <2>2. JournalOwn' /\ EvidenceKept'
    BY <1>0, <1>2, <1>7, <1>14 DEF JournalOwn, EvidenceKept, Evidence
  <2> QED BY <1>10, <1>11, <1>12, <2>1, <2>2
<1>15. CASE released
  <2>1. /\ r \notin Evidence /\ o \in DOMAIN receipts /\ receipts[o]
        /\ DOMAIN ledger' = DOMAIN ledger \cup {r} /\ ledger'[r] = o
        /\ \A q \in DOMAIN ledger : ledger'[q] = ledger[q]
        /\ DOMAIN receipts' = DOMAIN receipts /\ ~receipts'[o]
        /\ \A q \in DOMAIN receipts : q # o => receipts'[q] = receipts[q]
    BY <1>2, <1>15 DEF Evidence
  <2>2. o \in Kept /\ journal[o].release = r BY <1>1, <2>1 DEF OwnedBy
  <2>3. r \in 1..issued /\ r # 0 BY <1>1 DEF OwnedBy
  <2>4. \A q \in DOMAIN ledger : ledger[q] # o BY <2>1 DEF EvidenceKept
  <2>5. ReleaseTypes'
    <3>1. ledger' \in [Evidence' -> DOMAIN receipts']
      <4>1. ledger' = [q \in Evidence' |-> IF q = r THEN o ELSE ledger[q]]
        BY <1>2, <1>15, <2>1 DEF Evidence
      <4> QED BY <4>1, <2>1 DEF ReleaseTypes, Evidence
    <3>2. receipts' \in [DOMAIN receipts' -> BOOLEAN]
      <4>1. receipts' = [receipts EXCEPT ![o] = FALSE] BY <1>2, <1>15
      <4>2. receipts \in [DOMAIN receipts -> BOOLEAN] BY DEF ReleaseTypes
      <4> QED BY <4>1, <4>2
    <3>3. Evidence' \subseteq 1..issued BY <2>1, <2>3 DEF ReleaseTypes, Evidence
    <3> QED BY <1>0, <1>7, <1>13, <2>1, <3>1, <3>2, <3>3 DEF ReleaseTypes
  <2>6. JournalOwn'
    <3>1. \A q \in Kept : journal[q].release # 0 /\ journal[q].release \in Evidence' =>
            ledger'[journal[q].release] = q
      BY <2>1, <2>2, <2>3 DEF JournalOwn, Evidence
    <3> QED BY <1>0, <1>7, <2>1, <3>1 DEF JournalOwn
  <2>7. EvidenceKept'
    <3>1. \A q \in DOMAIN receipts : ~receipts'[q] <=> \E p \in DOMAIN ledger' : ledger'[p] = q
      <4>1. SUFFICES ASSUME NEW q \in DOMAIN receipts
                     PROVE  ~receipts'[q] <=> \E p \in DOMAIN ledger' : ledger'[p] = q
        OBVIOUS
      <4>2. CASE q = o BY <2>1, <4>2
      <4>3. CASE q # o
        <5>1. (\E p \in DOMAIN ledger' : ledger'[p] = q) <=> \E p \in DOMAIN ledger : ledger[p] = q
          BY <2>1, <4>3
        <5> QED BY <2>1, <4>3, <5>1 DEF EvidenceKept
      <4> QED BY <4>2, <4>3
    <3>2. \A p, q \in DOMAIN ledger' : ledger'[p] = ledger'[q] => p = q
      BY <2>1, <2>4 DEF EvidenceKept
    <3>3. \A p \in DOMAIN ledger' : ledger'[p] \in Kept => journal[ledger'[p]].release = p
      BY <2>1, <2>2 DEF EvidenceKept
    <3>4. \A q \in Kept : journal[q].acknowledged =>
            journal[q].release \in DOMAIN ledger' /\ ledger'[journal[q].release] = q
      BY <2>1 DEF EvidenceKept
    <3>5. \A q \in (1..(nextSeq - 1)) \ Kept : \E p \in DOMAIN ledger' : ledger'[p] = q
      BY <2>1 DEF EvidenceKept
    <3>6. \A q \in DOMAIN receipts : q \in Kept /\ journal[q].state # "candidate_activated"
            => receipts'[q]
      <4>1. journal[o].state = "candidate_activated" BY <2>2, <2>3 DEF JournalOwn
      <4> QED BY <2>1, <4>1 DEF EvidenceKept
    <3> QED BY <1>0, <1>7, <2>1, <3>1, <3>2, <3>3, <3>4, <3>5, <3>6 DEF EvidenceKept
  <2> QED BY <1>10, <1>11, <1>12, <2>5, <2>6, <2>7
<1> QED BY <1>14, <1>15

\* acknowledge_config_release: the caller holds the evidence.
LEMMA AcknowledgeKeeps ==
  ASSUME ReleaseInv, NEW t \in Releasers, Acknowledge(t)
  PROVE  ReleaseInv' /\ PrunedAsDecided
<1> USE DEF ReleaseInv
<1> DEFINE o == releaser[t].op
<1>0. /\ releaser[t].at = "acknowledge" /\ releaser' = [releaser EXCEPT ![t] = Resting]
      /\ UNCHANGED <<nextSeq, writer, receipts, highWater, ledger, issued, sentCas, sentRel,
                     decision>>
  BY DEF Acknowledge, storeSide
<1>1. CASE UNCHANGED <<journal, history>>
  BY <1>0, <1>1, RestingOwns, CallerStep DEF storeSide
<1>2. CASE /\ o \in Kept /\ journal[o].release = releaser[t].release
           /\ journal' = [journal EXCEPT ![o].acknowledged = TRUE]
           /\ history' = history + 1
  <2>1. /\ Kept' = Kept /\ journal' \in [Kept -> JournalRows]
        /\ \A q \in Kept : /\ q # o => journal'[q] = journal[q]
                           /\ journal'[q].state = journal[q].state
                           /\ journal'[q].release = journal[q].release
    <3>1. journal[o] \in JournalRows BY <1>2 DEF ReleaseTypes
    <3>2. [journal[o] EXCEPT !.acknowledged = TRUE] \in JournalRows
          /\ [journal[o] EXCEPT !.acknowledged = TRUE].state = journal[o].state
          /\ [journal[o] EXCEPT !.acknowledged = TRUE].release = journal[o].release
      BY <3>1 DEF JournalRows
    <3>3. journal' = [journal EXCEPT ![o] = [journal[o] EXCEPT !.acknowledged = TRUE]]
      BY <1>2 DEF ReleaseTypes
    <3> DEFINE w == [journal[o] EXCEPT !.acknowledged = TRUE]
    <3>4. w \in JournalRows /\ w.state = journal[o].state /\ w.release = journal[o].release
          /\ journal' = [journal EXCEPT ![o] = w]
      BY <3>2, <3>3
    <3> HIDE DEF w
    <3> QED BY <1>2, <3>4 DEF ReleaseTypes, Kept
  <2>2. releaser[t].release \in Evidence /\ ledger[releaser[t].release] = o
    BY <1>0, CallerFields DEF CallerOwns
  <2>3. ReleaseTypes'
    <3>1. releaser' \in [Releasers -> CallerStates] BY <1>0, RestingOwns DEF ReleaseTypes
    <3> QED BY <1>0, <1>2, <2>1, <3>1 DEF ReleaseTypes, Evidence
  <2>4. \A r, q : OwnedBy(r, q) => OwnedBy(r, q)' BY <1>0, <2>1 DEF OwnedBy, Evidence
  <2>5. CallersOwn'
    <3>1. \A u \in Releasers : releaser'[u] = IF u = t THEN Resting ELSE releaser[u]
      BY <1>0 DEF ReleaseTypes
    <3>2. \A u \in Releasers : CallerOwns(releaser[u])'
      <4>1. SUFFICES ASSUME NEW u \in Releasers PROVE CallerOwns(releaser[u])' OBVIOUS
      <4>2. CASE u = t BY <3>1, <4>2 DEF CallerOwns, Resting
      <4>3. CASE u # t BY <1>0, <2>1, <2>4, <3>1, <4>3 DEF CallersOwn, CallerOwns, Evidence
      <4> QED BY <4>2, <4>3
    <3> QED BY <1>0, <2>4, <3>2 DEF CallersOwn
  <2>6. JournalOwn' BY <1>0, <2>1 DEF JournalOwn, Evidence
  <2>7. DecisionSaw' BY <1>0, <1>2 DEF DecisionSaw, ReleaseTypes
  <2>8. EvidenceKept'
    <3>1. \A q \in Kept : journal'[q].acknowledged =>
            journal'[q].release \in DOMAIN ledger /\ ledger[journal'[q].release] = q
      BY <1>2, <2>1, <2>2 DEF EvidenceKept, Evidence
    <3> QED BY <1>0, <2>1, <3>1 DEF EvidenceKept
  <2>9. PrunedAsDecided BY <2>1 DEF PrunedAsDecided, Kept
  <2> QED BY <2>3, <2>5, <2>6, <2>7, <2>8, <2>9
<1> QED BY <1>0, <1>1, <1>2 DEF Acknowledge

\* prune_config_operations: what goes was acknowledged, and was on the page.
LEMMA PruneOperationsKeeps ==
  ASSUME ReleaseInv, NEW through, PruneOperations(through)
  PROVE  ReleaseInv' /\ PrunedAsDecided
<1> USE DEF ReleaseInv
<1> DEFINE removed == {o \in Kept : o <= through /\ Eligible(o)}
<1>0. /\ decision.latest = nextSeq - 1 /\ decision.history = history
      /\ journal' = [o \in Kept \ removed |-> journal[o]] /\ history' = history + 1
      /\ UNCHANGED <<nextSeq, writer, receipts, highWater, ledger, issued, sentCas, sentRel,
                     releaser, decision>>
  BY DEF PruneOperations, storeSide
<1>1. /\ Kept' = Kept \ removed /\ \A o \in Kept' : journal'[o] = journal[o] /\ o \in Kept
  BY <1>0 DEF Kept
<1>2. \A o \in removed : /\ o \in Kept /\ Eligible(o) /\ journal[o].release \in Evidence
                         /\ ledger[journal[o].release] = o
                         /\ journal[o].state # "accepted"
  BY DEF Eligible, EvidenceKept, Evidence
<1>3. PrunedAsDecided
  <2>1. \A o \in removed : o \in decision.eligible BY <1>0, <1>2 DEF DecisionSaw
  <2> QED BY <1>1, <2>1 DEF PrunedAsDecided, Kept
<1> HIDE DEF removed
<1>4. journal' \in [Kept' -> JournalRows] BY <1>0, <1>1 DEF ReleaseTypes
<1>5. ReleaseTypes' BY <1>0, <1>1, <1>4 DEF ReleaseTypes, Evidence
<1>6. \A r, o : OwnedBy(r, o) => OwnedBy(r, o)'
  <2>1. SUFFICES ASSUME NEW r, NEW o, OwnedBy(r, o) PROVE OwnedBy(r, o)' OBVIOUS
  <2>2. CASE o \in removed BY <1>0, <1>1, <1>2, <2>1, <2>2 DEF OwnedBy, Evidence
  <2>3. CASE o \notin removed BY <1>0, <1>1, <2>1, <2>3 DEF OwnedBy, Evidence
  <2> QED BY <2>2, <2>3
<1>7. CallersOwn'
  <2>1. \A t \in Releasers : CallerOwns(releaser[t])'
    BY <1>0, <1>1, <1>6 DEF CallersOwn, CallerOwns, Evidence
  <2> QED BY <1>0, <1>6, <2>1 DEF CallersOwn
<1>8. JournalOwn'
  <2>1. writer # 0 => writer \in Kept' BY <1>1, <1>2 DEF JournalOwn
  <2> QED BY <1>0, <1>1, <2>1 DEF JournalOwn, Evidence
<1>9. DecisionSaw' BY <1>0 DEF DecisionSaw, ReleaseTypes
<1>10. EvidenceKept'
  <2>1. \A o \in (1..(nextSeq - 1)) \ Kept' : \E r \in DOMAIN ledger : ledger[r] = o
    BY <1>1, <1>2 DEF EvidenceKept, Evidence
  <2> QED BY <1>0, <1>1, <2>1 DEF EvidenceKept
<1> QED BY <1>3, <1>5, <1>7, <1>8, <1>9, <1>10

\* Every step keeps the invariant and prunes only as decided.
LEMMA ReleaseInductive == ReleaseInv /\ ReleaseNext => ReleaseInv' /\ PrunedAsDecided
<1>1. SUFFICES ASSUME ReleaseInv, ReleaseNext PROVE ReleaseInv' /\ PrunedAsDecided OBVIOUS
<1>2. CASE \E s \in sentRel : ReleaseExecutes(s[1], s[2], s[3])
  BY <1>1, <1>2, ReleaseExecutesKeeps
<1> QED
  BY <1>1, <1>2, AcceptOperationKeeps, CrashReleaseKeeps, ReadJournalKeeps, CasExecutesKeeps,
     PruneOperationsKeeps, FinishOperationKeeps, BeginKeeps, LookupReceiptKeeps,
     PrepareIntentKeeps, LookupEvidenceKeeps, AcknowledgeKeeps, ReleaseFailsKeeps
     DEF ReleaseNext

\* Nothing is forgotten without evidence, and only on a decision, whatever
\* answers are lost and whenever the process dies (ReleasesKept;
\* config_receipt_release.rs, admin_users.rs, config_store.rs).
THEOREM ReleasesKeptAlways == ReleaseSpec => ReleasesKept
<1>1. ReleaseInv /\ UNCHANGED releaseVars => ReleaseInv'
  BY DEF releaseVars, ReleaseInv, ReleaseTypes, JournalOwn, CallersOwn, CallerOwns, OwnedBy,
     DecisionSaw, EvidenceKept, Kept, Evidence, Eligible
<1>2. ReleaseInv /\ [ReleaseNext]_releaseVars => ReleaseInv' /\ [ReleaseStep]_releaseVars
  BY <1>1, ReleaseInductive DEF ReleaseStep, ReleaseInv
<1> QED BY <1>2, ReleaseInitially, PTL DEF ReleaseSpec, ReleasesKept

-----------------------------------------------------------------------------
(* Accounts *)

User == [name : Names, role : Roles, enabled : BOOLEAN, epoch : Nat]
LoginState == [at : {"idle", "checked"}, user : Nat, epoch : Nat, role : Roles, since : Nat]
Meta == [next : Nat, pruned : Nat, stored : Nat, revision : Nat, dropped : Policies \cup {{}},
         filtered : Nat]

AccountTypes ==
  /\ nextUser \in Nat \ {0} /\ accountNow \in Nat
  /\ users \in [DOMAIN users -> User] /\ DOMAIN users \subseteq 1..(nextUser - 1)
  /\ login \in [Logins -> LoginState]
AuditTypes == IsFiniteSet(audit) /\ auditMeta \in Meta /\ auditMeta.pruned < auditMeta.next

\* A login that has checked a password knows the account as it is, or as it was
\* under an earlier epoch; ids are not used again.
LoginsFenced ==
  \A l \in Logins :
    LET u == login[l].user
    IN login[l].at = "checked" =>
         /\ u < nextUser
         /\ u \in DOMAIN users =>
              /\ login[l].epoch <= users[u].epoch
              /\ login[l].epoch = users[u].epoch => login[l].role = users[u].role

SessionsHonest ==
  \A s \in sessions : /\ Enabled(s.user) /\ s.epoch = users[s.user].epoch
                      /\ s.role = users[s.user].role
SessionsFew ==
  /\ IsFiniteSet(sessions) /\ Cardinality(sessions) <= MaxSessions
  /\ \A u \in DOMAIN users : Cardinality(SessionsOf(u, sessions)) <= MaxPerUser

AdminLeft == DOMAIN users # {} => Admins # {}

AuditCounted ==
  /\ auditMeta.stored = Cardinality(audit) /\ auditMeta.stored <= AuditCapacity
  /\ \A r \in audit : r.id \in (auditMeta.pruned + 1)..(auditMeta.next - 1)

\* The latest of these records about u says st.
TracedIn(stored, u, st) ==
  \E r \in stored : /\ r.target = u /\ \A q \in stored : q.target = u => q.id <= r.id
                     /\ r.after = st
AccountState(us, u) == IF u \in DOMAIN us THEN StateOf(us[u]) ELSE Gone
AllTraced ==
  \A u \in (1..(nextUser - 1)) \ unexplained : TracedIn(audit, u, AccountState(users, u))

AccountsInv ==
  /\ AccountTypes /\ AuditTypes /\ LoginsFenced /\ SessionsHonest /\ SessionsFew /\ AdminLeft
  /\ AuditCounted /\ AllTraced

\* No account at first, and no audit.
LEMMA AccountsStart == AccountsInit => AccountsInv
<1> SUFFICES ASSUME AccountsInit PROVE AccountsInv
  OBVIOUS
<1> USE AccountBounds DEF AccountsInit
<1>1. AccountTypes
  BY DEF AccountTypes, LoginState, NoLogin, Roles
<1>2. AuditTypes /\ AuditCounted
  BY FS_EmptySet DEF AuditTypes, AuditCounted, Meta
<1>3. LoginsFenced
  BY DEF LoginsFenced, NoLogin
<1>4. SessionsHonest /\ SessionsFew
  BY FS_EmptySet DEF SessionsHonest, SessionsFew, SessionsOf
<1>5. AdminLeft /\ AllTraced
  BY DEF AdminLeft, AllTraced
<1> QED
  BY <1>1, <1>2, <1>3, <1>4, <1>5 DEF AccountsInv

\* The invariant is what the property asks.
LEMMA AccountsInvSound == AccountsInv => AccountsSound
  BY DEF AccountsInv, AccountsSound, RevocationFinal, SessionsHonest, SessionsFew, AdminLeft,
         AuditExplains, AuditCounted, AllTraced, TracedIn, AccountState

(* The audit *)

\* A record with the highest id is the latest of its account and of no other.
LEMMA TraceAppended ==
  ASSUME NEW A, NEW e, e.id \in Int, \A q \in A : q.id \in Int /\ q.id < e.id
  PROVE  /\ TracedIn(A \cup {e}, e.target, e.after)
         /\ \A u, st : u # e.target /\ TracedIn(A, u, st) => TracedIn(A \cup {e}, u, st)
<1>1. TracedIn(A \cup {e}, e.target, e.after)
  BY DEF TracedIn
<1>2. ASSUME NEW u, NEW st, u # e.target, TracedIn(A, u, st) PROVE TracedIn(A \cup {e}, u, st)
  BY <1>2 DEF TracedIn
<1> QED
  BY <1>1, <1>2

\* What a transaction appends: its record, or a note that the account has
\* changes without one.
LEMMA Recorded ==
  ASSUME AuditTypes, AuditCounted, NEW act, NEW t, NEW st,
         AppendAccountAudit(act, t, st) \/ (AppendAudit(act, t, st) /\ UNCHANGED unexplained)
  PROVE  /\ AuditTypes' /\ AuditCounted' /\ unexplained \subseteq unexplained'
         /\ t \notin unexplained' => TracedIn(audit', t, st)
         /\ \A u, s : u # t /\ TracedIn(audit, u, s) => TracedIn(audit', u, s)
<1>1. CASE AppendAudit(act, t, st) /\ UNCHANGED unexplained
  <2> DEFINE e == Entry(act, t, st)
  <2>1. /\ RoomInAudit /\ audit' = audit \cup {e}
        /\ auditMeta' = [auditMeta EXCEPT !.next = @ + 1, !.stored = @ + 1]
    BY <1>1 DEF AppendAudit
  <2>2. e.id = auditMeta.next /\ e.target = t /\ e.after = st
    BY DEF Entry
  <2> HIDE DEF e
  <2>3. /\ auditMeta' \in Meta /\ auditMeta'.next = auditMeta.next + 1
        /\ auditMeta'.stored = auditMeta.stored + 1 /\ auditMeta'.pruned = auditMeta.pruned
    <3>1. auditMeta.next \in Nat /\ auditMeta.stored \in Nat /\ auditMeta \in Meta
      BY DEF AuditTypes, Meta
    <3>2. auditMeta' = [next |-> auditMeta.next + 1, pruned |-> auditMeta.pruned,
                        stored |-> auditMeta.stored + 1, revision |-> auditMeta.revision,
                        dropped |-> auditMeta.dropped, filtered |-> auditMeta.filtered]
      BY <2>1, <3>1 DEF Meta
    <3> QED
      BY <3>1, <3>2 DEF Meta
  <2>4. \A q \in audit : q.id \in Int /\ q.id < e.id
    BY <2>2 DEF AuditCounted, AuditTypes, Meta
  <2>5. e \notin audit
    BY <2>4
  <2>6. IsFiniteSet(audit') /\ Cardinality(audit') = Cardinality(audit) + 1
    BY <2>1, <2>5, FS_AddElement DEF AuditTypes
  <2>7. AuditTypes'
    BY <2>3, <2>6 DEF AuditTypes, Meta
  <2>8. AuditCounted'
    <3>1. auditMeta'.stored = Cardinality(audit') /\ auditMeta'.stored <= AuditCapacity
      BY <2>1, <2>3, <2>6, AccountBounds DEF AuditCounted, RoomInAudit, AuditTypes, Meta
    <3>2. \A r \in audit' : r.id \in (auditMeta'.pruned + 1)..(auditMeta'.next - 1)
      BY <2>1, <2>2, <2>3 DEF AuditCounted, AuditTypes, Meta
    <3> QED
      BY <3>1, <3>2 DEF AuditCounted
  <2>9. e.id \in Int
    BY <2>2 DEF AuditTypes, Meta
  <2>10. /\ TracedIn(audit', t, st)
         /\ \A u, s : u # t /\ TracedIn(audit, u, s) => TracedIn(audit', u, s)
    BY <2>1, <2>2, <2>4, <2>9, TraceAppended
  <2> QED
    BY <1>1, <2>7, <2>8, <2>10
<1>2. CASE act \in auditMeta.dropped /\ AppendAccountAudit(act, t, st)
  <2>1. /\ UNCHANGED audit /\ unexplained' = unexplained \cup {t}
        /\ auditMeta' = [auditMeta EXCEPT !.filtered = @ + 1]
    BY <1>2 DEF AppendAccountAudit
  <2>2. auditMeta' \in Meta /\ \A f \in {"next", "pruned", "stored"} : auditMeta'[f] = auditMeta[f]
    BY <2>1 DEF AuditTypes, Meta
  <2>3. /\ auditMeta'.next = auditMeta.next /\ auditMeta'.pruned = auditMeta.pruned
        /\ auditMeta'.stored = auditMeta.stored
    BY <2>1 DEF AuditTypes, Meta
  <2> QED
    BY <2>1, <2>2, <2>3 DEF AuditTypes, AuditCounted
<1> QED
  BY <1>1, <1>2 DEF AppendAccountAudit

\* A transaction that records what it makes of an account leaves every account
\* traced.
LEMMA TracedOn ==
  ASSUME AccountTypes, AuditTypes, AuditCounted, AllTraced, NEW act, NEW t \in Nat \ {0}, NEW st,
         AppendAccountAudit(act, t, st) \/ (AppendAudit(act, t, st) /\ UNCHANGED unexplained),
         nextUser' \in Nat, \A u \in 1..(nextUser' - 1) : u # t => u < nextUser,
         AccountState(users', t) = st,
         \A u \in Nat : u # t => AccountState(users', u) = AccountState(users, u)
  PROVE  AllTraced'
<1>1. /\ unexplained \subseteq unexplained'
      /\ t \notin unexplained' => TracedIn(audit', t, st)
      /\ \A u, s : u # t /\ TracedIn(audit, u, s) => TracedIn(audit', u, s)
  BY Recorded
<1>2. SUFFICES ASSUME NEW u \in (1..(nextUser' - 1)) \ unexplained'
               PROVE  TracedIn(audit', u, AccountState(users', u))
  BY DEF AllTraced
<1>3. CASE u = t
  BY <1>1, <1>3
<1>4. CASE u # t
  <2>1. u \in (1..(nextUser - 1)) \ unexplained
    BY <1>1, <1>4 DEF AccountTypes
  <2> QED
    BY <1>1, <1>4, <2>1 DEF AllTraced
<1> QED
  BY <1>3, <1>4

(* Accounts *)

\* A new account: under an id that was not in use, enabled, with no session.
LEMMA InsertedAccount ==
  ASSUME AccountTypes, NEW n \in Names, NEW r \in Roles, Inserted(n, r)
  PROVE  /\ nextUser' = nextUser + 1 /\ nextUser \notin DOMAIN users
         /\ users' \in [DOMAIN users' -> User] /\ DOMAIN users' = DOMAIN users \cup {nextUser}
         /\ users'[nextUser] = Account(n, r) /\ \A u \in DOMAIN users : users'[u] = users[u]
<1>1. nextUser \notin DOMAIN users
  BY DEF AccountTypes
<1>2. Account(n, r) \in User
  BY DEF Account, User
<1>3. users' = [u \in DOMAIN users \cup {nextUser} |->
                 IF u = nextUser THEN Account(n, r) ELSE users[u]] /\ nextUser' = nextUser + 1
  BY DEF Inserted
<1> QED
  BY <1>1, <1>2, <1>3 DEF AccountTypes

\* A new account has an id of its own, so no login and no session is about it.
LEMMA InsertedTypes ==
  ASSUME AccountsInv, NEW n \in Names, NEW r \in Roles, Inserted(n, r),
         UNCHANGED <<sessions, login, accountNow>>
  PROVE  AccountTypes' /\ LoginsFenced' /\ SessionsHonest' /\ SessionsFew'
<1> USE DEF AccountsInv
<1>1. /\ nextUser' = nextUser + 1 /\ nextUser \notin DOMAIN users
      /\ users' \in [DOMAIN users' -> User] /\ DOMAIN users' = DOMAIN users \cup {nextUser}
      /\ users'[nextUser] = Account(n, r) /\ \A u \in DOMAIN users : users'[u] = users[u]
  BY InsertedAccount
<1>2. AccountTypes'
  BY <1>1 DEF AccountTypes
<1>3. LoginsFenced'
  BY <1>1 DEF LoginsFenced, AccountTypes, LoginState
<1>4. SessionsHonest'
  BY <1>1 DEF SessionsHonest, Enabled
<1>5. SessionsFew'
  <2>1. SessionsOf(nextUser, sessions) = {}
    BY <1>1 DEF SessionsOf, SessionsHonest, Enabled
  <2>2. Cardinality(SessionsOf(nextUser, sessions)) <= MaxPerUser
    BY <2>1, FS_EmptySet, AccountBounds
  <2>3. \A u \in DOMAIN users : Cardinality(SessionsOf(u, sessions)) <= MaxPerUser
    BY DEF SessionsFew
  <2>4. \A u \in DOMAIN users' : Cardinality(SessionsOf(u, sessions)) <= MaxPerUser
    BY <1>1, <2>2, <2>3
  <2> QED
    BY <2>4 DEF SessionsFew, SessionsOf
<1> QED
  BY <1>2, <1>3, <1>4, <1>5

\* A new account is explained by its record, or counted among the unexplained.
LEMMA InsertedTraced ==
  ASSUME AccountsInv, NEW act, NEW n \in Names, NEW r \in Roles, Inserted(n, r),
         LET st == StateOf(Account(n, r))
         IN \/ AppendAccountAudit(act, nextUser, st)
            \/ AppendAudit(act, nextUser, st) /\ UNCHANGED unexplained
  PROVE  AuditTypes' /\ AuditCounted' /\ AllTraced'
<1> USE DEF AccountsInv
<1> DEFINE st == StateOf(Account(n, r))
<1>1. /\ nextUser' = nextUser + 1 /\ nextUser \notin DOMAIN users
      /\ DOMAIN users' = DOMAIN users \cup {nextUser}
      /\ users'[nextUser] = Account(n, r) /\ \A u \in DOMAIN users : users'[u] = users[u]
  BY InsertedAccount
<1>2. /\ AccountState(users', nextUser) = st
      /\ \A u \in Nat : u # nextUser => AccountState(users', u) = AccountState(users, u)
  BY <1>1 DEF AccountState
<1>3. AppendAccountAudit(act, nextUser, st) \/ (AppendAudit(act, nextUser, st) /\ UNCHANGED unexplained)
  OBVIOUS
<1> HIDE DEF st
<1>4. /\ nextUser \in Nat \ {0} /\ nextUser' \in Nat
      /\ \A u \in 1..(nextUser' - 1) : u # nextUser => u < nextUser
  BY <1>1 DEF AccountTypes
<1> QED
  BY <1>2, <1>3, <1>4, Recorded, TracedOn

\* bootstrap inserts the first administrator with its record.
LEMMA BootstrapKeeps ==
  ASSUME AccountsInv, NEW n \in Names, Bootstrap(n) PROVE AccountsInv'
<1> USE DEF Bootstrap
<1>1. "admin" \in Roles
  BY DEF Roles
<1>2. AccountTypes' /\ LoginsFenced' /\ SessionsHonest' /\ SessionsFew'
  BY <1>1, InsertedTypes
<1>3. AuditTypes' /\ AuditCounted' /\ AllTraced'
  BY <1>1, InsertedTraced
<1>4. nextUser \in Admins'
  BY <1>1, InsertedAccount DEF Admins, Account, AccountsInv
<1> QED
  BY <1>2, <1>3, <1>4 DEF AccountsInv, AdminLeft

\* create_user: the new account takes no administrator away.
LEMMA CreateKeeps ==
  ASSUME AccountsInv, NEW n \in Names, NEW r \in Roles, CreateUser(n, r) PROVE AccountsInv'
<1> USE DEF CreateUser
<1>2. AccountTypes' /\ LoginsFenced' /\ SessionsHonest' /\ SessionsFew'
  BY InsertedTypes
<1>3. AuditTypes' /\ AuditCounted' /\ AllTraced'
  BY InsertedTraced
<1>4. DOMAIN users # {}
  BY FS_EmptySet
<1>5. PICK a : a \in Admins
  BY <1>4 DEF AccountsInv, AdminLeft
<1>6. a \in Admins'
  BY <1>5, InsertedAccount DEF Admins, AccountsInv
<1> QED
  BY <1>2, <1>3, <1>6 DEF AccountsInv, AdminLeft

\* When an administrator goes there is another.
LEMMA AnotherAdmin ==
  ASSUME AccountTypes, AdminLeft, NEW u \in DOMAIN users, NEW role, NEW on,
         KeepsAdmin(u, role, on), ~(role = "admin" /\ on = TRUE)
  PROVE  \E a \in Admins : a # u
<1>1. CASE u \in Admins
  <2>1. Cardinality(Admins) > 1
    BY <1>1 DEF KeepsAdmin
  <2>2. Cardinality({u}) = 1
    BY FS_Singleton
  <2>3. Admins # {u}
    BY <2>1, <2>2
  <2> QED
    BY <1>1, <2>3
<1>2. CASE u \notin Admins
  BY <1>2 DEF AdminLeft
<1> QED
  BY <1>1, <1>2

\* Fewer sessions are still few.
LEMMA FewerSessions ==
  ASSUME SessionsFew, sessions' \subseteq sessions, DOMAIN users' \subseteq DOMAIN users
  PROVE  SessionsFew'
<1>1. IsFiniteSet(sessions') /\ Cardinality(sessions') <= Cardinality(sessions)
  BY FS_Subset DEF SessionsFew
<1>2. ASSUME NEW u \in DOMAIN users'
      PROVE  Cardinality(SessionsOf(u, sessions')) <= MaxPerUser
  <2>1. IsFiniteSet(SessionsOf(u, sessions))
    BY FS_Subset DEF SessionsOf, SessionsFew
  <2>2. SessionsOf(u, sessions') \subseteq SessionsOf(u, sessions)
    BY DEF SessionsOf
  <2>3. /\ Cardinality(SessionsOf(u, sessions')) <= Cardinality(SessionsOf(u, sessions))
        /\ Cardinality(SessionsOf(u, sessions')) \in Nat /\ Cardinality(SessionsOf(u, sessions)) \in Nat
    BY <2>1, <2>2, FS_Subset, FS_CardinalityType
  <2>4. Cardinality(SessionsOf(u, sessions)) <= MaxPerUser
    BY DEF SessionsFew
  <2> QED
    BY <2>3, <2>4, AccountBounds
<1>3. Cardinality(sessions') \in Nat /\ Cardinality(sessions) \in Nat
  BY <1>1, FS_CardinalityType DEF SessionsFew
<1>4. Cardinality(sessions') <= MaxSessions
  BY <1>1, <1>3, AccountBounds DEF SessionsFew
<1> QED
  BY <1>1, <1>2, <1>4 DEF SessionsFew, SessionsOf

\* delete_user takes the account's sessions and is refused for the last administrator.
LEMMA DeleteKeeps ==
  ASSUME AccountsInv, NEW u \in DOMAIN users, DeleteUser(u) PROVE AccountsInv'
<1> USE DEF AccountsInv
<1>1. /\ DOMAIN users' = DOMAIN users \ {u} /\ \A v \in DOMAIN users' : users'[v] = users[v]
      /\ sessions' = sessions \ SessionsOf(u, sessions)
      /\ AppendAccountAudit("delete", u, Gone) /\ KeepsAdmin(u, "viewer", FALSE)
      /\ UNCHANGED <<nextUser, login, accountNow>>
  BY DEF DeleteUser
<1>2. users' \in [DOMAIN users' -> User]
  BY <1>1 DEF DeleteUser, AccountTypes
<1>3. AccountTypes'
  BY <1>1, <1>2 DEF AccountTypes
<1>4. LoginsFenced'
  BY <1>1 DEF LoginsFenced
<1>5. SessionsHonest'
  BY <1>1 DEF SessionsHonest, Enabled, SessionsOf
<1>6. SessionsFew'
  BY <1>1, FewerSessions
<1>7. PICK a \in Admins : a # u
  BY <1>1, AnotherAdmin
<1>8. AdminLeft'
  BY <1>1, <1>7 DEF AdminLeft, Admins
<1>9. /\ AccountState(users', u) = Gone
      /\ \A v \in Nat : v # u => AccountState(users', v) = AccountState(users, v)
  BY <1>1 DEF AccountState
<1>10. u \in Nat \ {0} /\ nextUser' \in Nat /\ \A v \in 1..(nextUser' - 1) : v # u => v < nextUser
  BY <1>1 DEF AccountTypes
<1>11. AuditTypes' /\ AuditCounted' /\ AllTraced'
  BY <1>1, <1>9, <1>10, Recorded, TracedOn
<1> QED
  BY <1>3, <1>4, <1>5, <1>6, <1>8, <1>11

\* An update that leaves the sessions of an account changes nothing they stand
\* for: an account that is enabled now but was not has none.
LEMMA UpdateKeeps ==
  ASSUME AccountsInv, NEW u \in DOMAIN users, NEW r \in Roles, NEW on \in BOOLEAN,
         NEW password \in BOOLEAN, UpdateUser(u, r, on, password)
  PROVE  AccountsInv'
<1> USE DEF AccountsInv
<1> DEFINE changed == on # users[u].enabled \/ r # users[u].role
           revoked == password \/ ~on \/ r # users[u].role
           st == [role |-> r, enabled |-> on]
<1>1. /\ users' = [users EXCEPT ![u].role = r, ![u].enabled = on,
                                ![u].epoch = IF password \/ changed THEN @ + 1 ELSE @]
      /\ sessions' = IF revoked THEN sessions \ SessionsOf(u, sessions) ELSE sessions
      /\ AppendAccountAudit("update", u, st) /\ KeepsAdmin(u, r, on)
      /\ UNCHANGED <<nextUser, login, accountNow>>
  BY DEF UpdateUser
<1>2. users[u] \in User
  BY DEF AccountTypes
<1>3. /\ DOMAIN users' = DOMAIN users /\ \A v \in DOMAIN users : v # u => users'[v] = users[v]
      /\ users'[u].role = r /\ users'[u].enabled = on /\ users'[u] \in User
      /\ users'[u].epoch = IF password \/ changed THEN users[u].epoch + 1 ELSE users[u].epoch
  <2>1. users[u].epoch \in Nat
    BY <1>2 DEF User
  <2> DEFINE epoch == IF password \/ changed THEN users[u].epoch + 1 ELSE users[u].epoch
             next == [users[u] EXCEPT !.role = r, !.enabled = on, !.epoch = epoch]
  <2>2. users' = [users EXCEPT ![u] = next]
    BY <1>1, <1>2 DEF AccountTypes, User
  <2>3. epoch \in Nat
    BY <2>1
  <2> HIDE DEF epoch
  <2>4. next \in User /\ next.role = r /\ next.enabled = on /\ next.epoch = epoch
    BY <1>2, <2>3 DEF User
  <2> HIDE DEF next
  <2>5. /\ DOMAIN users' = DOMAIN users /\ \A v \in DOMAIN users : v # u => users'[v] = users[v]
        /\ users'[u] = next
    BY <2>2 DEF AccountTypes
  <2> QED
    BY <2>4, <2>5 DEF epoch
<1>4. users' \in [DOMAIN users' -> User]
  BY <1>1, <1>3 DEF AccountTypes
<1>5. AccountTypes'
  BY <1>1, <1>3, <1>4 DEF AccountTypes
<1>6. LoginsFenced'
  <2> SUFFICES ASSUME NEW l \in Logins, login[l].at = "checked"
               PROVE  LET v == login[l].user
                      IN /\ v < nextUser'
                         /\ v \in DOMAIN users' =>
                              /\ login[l].epoch <= users'[v].epoch
                              /\ login[l].epoch = users'[v].epoch => login[l].role = users'[v].role
    BY <1>1 DEF LoginsFenced
  <2>1. CASE login[l].user # u
    BY <1>1, <1>3, <2>1 DEF LoginsFenced
  <2>2. CASE login[l].user = u
    <3>1. /\ login[l].epoch \in Nat /\ users[u].epoch \in Nat /\ u < nextUser
          /\ login[l].epoch <= users[u].epoch
          /\ login[l].epoch = users[u].epoch => login[l].role = users[u].role
      BY <1>2, <2>2 DEF LoginsFenced, AccountTypes, LoginState, User
    <3>2. CASE password \/ changed
      BY <1>1, <1>3, <2>2, <3>1, <3>2
    <3>3. CASE ~(password \/ changed)
      BY <1>1, <1>3, <2>2, <3>1, <3>3
    <3> QED
      BY <3>2, <3>3
  <2> QED
    BY <2>1, <2>2
<1>7. SessionsHonest'
  <2> SUFFICES ASSUME NEW s \in sessions'
               PROVE  /\ s.user \in DOMAIN users' /\ users'[s.user].enabled
                      /\ s.epoch = users'[s.user].epoch /\ s.role = users'[s.user].role
    BY DEF SessionsHonest, Enabled
  <2>1. /\ s \in sessions /\ s.user \in DOMAIN users /\ users[s.user].enabled
        /\ s.epoch = users[s.user].epoch /\ s.role = users[s.user].role
    BY <1>1 DEF SessionsHonest, Enabled
  <2>2. CASE s.user # u
    BY <1>3, <2>1, <2>2
  <2>3. CASE s.user = u
    <3>1. ~revoked
      BY <1>1, <2>1, <2>3 DEF SessionsOf
    <3>2. ~password /\ on = TRUE /\ r = users[u].role /\ users[u].enabled = TRUE
      BY <1>2, <2>1, <2>3, <3>1 DEF User
    <3> QED
      BY <1>3, <2>1, <2>3, <3>2
  <2> QED
    BY <2>2, <2>3
<1>8. SessionsFew'
  BY <1>1, <1>3, FewerSessions
<1>9. AdminLeft'
  <2>1. CASE r = "admin" /\ on = TRUE
    BY <1>3, <2>1 DEF AdminLeft, Admins
  <2>2. CASE ~(r = "admin" /\ on = TRUE)
    <3>1. PICK a \in Admins : a # u
      BY <1>1, <2>2, AnotherAdmin
    <3> QED
      BY <1>3, <3>1 DEF AdminLeft, Admins
  <2> QED
    BY <2>1, <2>2
<1>10. /\ AccountState(users', u) = st
       /\ \A v \in Nat : v # u => AccountState(users', v) = AccountState(users, v)
  BY <1>3 DEF AccountState, StateOf
<1>11. u \in Nat \ {0} /\ nextUser' \in Nat /\ \A v \in 1..(nextUser' - 1) : v # u => v < nextUser
  BY <1>1 DEF AccountTypes
<1>12. AuditTypes' /\ AuditCounted' /\ AllTraced'
  <2> HIDE DEF st, changed, revoked
  <2> QED
    BY <1>1, <1>10, <1>11, Recorded, TracedOn
<1> QED
  BY <1>5, <1>6, <1>7, <1>8, <1>9, <1>12

(* Sessions *)

\* The account fields that every session step leaves.
accountsKept == <<users, nextUser, audit, auditMeta, unexplained>>

\* Only sessions and logins move.
LEMMA SessionFrame ==
  ASSUME AccountsInv, UNCHANGED accountsKept
  PROVE  /\ AuditTypes' /\ AdminLeft' /\ AuditCounted' /\ AllTraced'
         /\ accountNow' \in Nat /\ login' \in [Logins -> LoginState] => AccountTypes'
         /\ UNCHANGED login => LoginsFenced'
         /\ UNCHANGED sessions => SessionsHonest' /\ SessionsFew'
<1> USE DEF AccountsInv, accountsKept
<1>1. AuditTypes' /\ AuditCounted' /\ AllTraced'
  BY DEF AuditTypes, AuditCounted, AllTraced
<1>2. AdminLeft'
  BY DEF AdminLeft, Admins
<1>3. accountNow' \in Nat /\ login' \in [Logins -> LoginState] => AccountTypes'
  BY DEF AccountTypes
<1>4. UNCHANGED login => LoginsFenced'
  BY DEF LoginsFenced
<1>5. UNCHANGED sessions => SessionsHonest' /\ SessionsFew'
  BY DEF SessionsHonest, SessionsFew, Enabled, SessionsOf
<1> QED
  BY <1>1, <1>2, <1>3, <1>4, <1>5

\* The first transaction of a login remembers the account as it is then.
LEMMA LoginReadsKeeps ==
  ASSUME AccountsInv, NEW u \in DOMAIN users, NEW l \in Logins, LoginReads(l, u)
  PROVE  AccountsInv'
<1> USE DEF AccountsInv
<1> DEFINE x == [at |-> "checked", user |-> u, epoch |-> users[u].epoch,
                 role |-> users[u].role, since |-> accountNow]
<1>1. /\ login' = [login EXCEPT ![l] = x] /\ UNCHANGED accountsKept
      /\ UNCHANGED sessions /\ UNCHANGED accountNow
  BY DEF LoginReads, accountsKept
<1>2. users[u] \in User /\ u \in Nat /\ u < nextUser
  BY DEF AccountTypes
<1>3. x \in LoginState
  BY <1>2 DEF LoginState, User, AccountTypes
<1>4. login' \in [Logins -> LoginState] /\ accountNow' \in Nat
  BY <1>1, <1>3 DEF AccountTypes
<1>5. LoginsFenced'
  <2> SUFFICES ASSUME NEW m \in Logins, login'[m].at = "checked"
               PROVE  LET v == login'[m].user
                      IN /\ v < nextUser
                         /\ v \in DOMAIN users =>
                              /\ login'[m].epoch <= users[v].epoch
                              /\ login'[m].epoch = users[v].epoch => login'[m].role = users[v].role
    BY <1>1 DEF LoginsFenced, accountsKept
  <2>1. CASE m = l
    <3>1. login'[m] = x
      BY <1>1, <2>1 DEF AccountTypes
    <3> QED
      BY <1>2, <3>1 DEF User
  <2>2. CASE m # l
    <3>1. login'[m] = login[m]
      BY <1>1, <2>2 DEF AccountTypes
    <3> QED
      BY <3>1 DEF LoginsFenced
  <2> QED
    BY <2>1, <2>2
<1> QED
  BY <1>1, <1>4, <1>5, SessionFrame

\* logout removes a session and nothing else.
LEMMA LogoutKeeps ==
  ASSUME AccountsInv, NEW s \in sessions, Logout(s) PROVE AccountsInv'
<1> USE DEF AccountsInv
<1>1. sessions' \subseteq sessions /\ UNCHANGED accountsKept /\ UNCHANGED <<login, accountNow>>
  BY DEF Logout, accountsKept
<1>2. SessionsFew'
  BY <1>1, FewerSessions DEF accountsKept
<1>3. SessionsHonest'
  BY <1>1 DEF SessionsHonest, Enabled, accountsKept
<1>4. login' \in [Logins -> LoginState] /\ accountNow' \in Nat
  BY <1>1 DEF AccountTypes
<1> QED
  BY <1>1, <1>2, <1>3, <1>4, SessionFrame

\* The smaller of two numbers.
LEMMA MinOfTwo ==
  ASSUME NEW a \in Int, NEW b \in Int
  PROVE  Min({a, b}) <= a /\ Min({a, b}) <= b /\ Min({a, b}) \in {a, b}
<1>1. \E x \in {a, b} : \A y \in {a, b} : x =< y
  <2>1. CASE a <= b
    BY <2>1
  <2>2. CASE b <= a
    BY <2>2
  <2> QED
    BY <2>1, <2>2
<1> QED
  BY <1>1 DEF Min

\* A user's newest sessions are its own, and no more than there is room for.
LEMMA NewestFit ==
  ASSUME NEW u, NEW ss, IsFiniteSet(ss), NEW room \in Int, NEW left \in NewestKept(u, ss, room)
  PROVE  /\ left \subseteq SessionsOf(u, ss) /\ IsFiniteSet(left)
         /\ Cardinality(left) \in Nat /\ Cardinality(left) <= room
<1>1. IsFiniteSet(SessionsOf(u, ss))
  BY FS_Subset DEF SessionsOf
<1>2. left \subseteq SessionsOf(u, ss) /\ Cardinality(left) = Min({room, Cardinality(SessionsOf(u, ss))})
  BY DEF NewestKept
<1>3. IsFiniteSet(left) /\ Cardinality(left) \in Nat /\ Cardinality(SessionsOf(u, ss)) \in Nat
  BY <1>1, <1>2, FS_Subset, FS_CardinalityType
<1> QED
  BY <1>2, <1>3, MinOfTwo

\* One element more is at most one more.
LEMMA AtMostOneMore ==
  ASSUME NEW S, NEW x, IsFiniteSet(S)
  PROVE  /\ IsFiniteSet(S \cup {x}) /\ Cardinality(S) \in Nat
         /\ Cardinality(S \cup {x}) \in Nat /\ Cardinality(S \cup {x}) <= Cardinality(S) + 1
<1>1. /\ IsFiniteSet(S \cup {x}) /\ Cardinality(S) \in Nat
      /\ Cardinality(S \cup {x}) = IF x \in S THEN Cardinality(S) ELSE Cardinality(S) + 1
  BY FS_AddElement, FS_CardinalityType
<1> QED
  BY <1>1

\* One user gets a session beside those of its own that are kept, the others
\* have none they did not have.
LEMMA GrantFits ==
  ASSUME SessionsFew, UNCHANGED users, NEW u, NEW g, g.user = u,
         NEW others \in SUBSET sessions, NEW mine \in SUBSET sessions,
         \A s \in others : s.user # u, \A s \in mine : s.user = u,
         Cardinality(mine) <= MaxPerUser - 1,
         Cardinality(others \cup mine) < MaxSessions,
         sessions' = others \cup mine \cup {g}
  PROVE  SessionsFew'
<1> DEFINE rest == others \cup mine
<1>1. IsFiniteSet(rest) /\ Cardinality(rest) \in Nat /\ IsFiniteSet(mine) /\ Cardinality(mine) \in Nat
  BY FS_Subset, FS_CardinalityType DEF SessionsFew
<1>2. /\ IsFiniteSet(sessions') /\ Cardinality(sessions') \in Nat
      /\ Cardinality(sessions') <= Cardinality(rest) + 1
  BY <1>1, AtMostOneMore
<1>3. Cardinality(sessions') <= MaxSessions
  BY <1>1, <1>2, AccountBounds
<1>4. ASSUME NEW v \in DOMAIN users PROVE Cardinality(SessionsOf(v, sessions')) <= MaxPerUser
  <2>1. CASE v = u
    <3>1. SessionsOf(v, sessions') = mine \cup {g}
      BY <2>1 DEF SessionsOf
    <3>2. Cardinality(mine \cup {g}) \in Nat /\ Cardinality(mine \cup {g}) <= Cardinality(mine) + 1
      BY <1>1, AtMostOneMore
    <3>3. Cardinality(mine \cup {g}) <= MaxPerUser
      BY <1>1, <3>2, AccountBounds
    <3> QED
      BY <3>1, <3>3
  <2>2. CASE v # u
    <3>1. SessionsOf(v, sessions') \subseteq SessionsOf(v, sessions)
      BY <2>2 DEF SessionsOf
    <3>2. IsFiniteSet(SessionsOf(v, sessions))
      BY FS_Subset DEF SessionsFew, SessionsOf
    <3>3. /\ Cardinality(SessionsOf(v, sessions')) <= Cardinality(SessionsOf(v, sessions))
          /\ Cardinality(SessionsOf(v, sessions')) \in Nat /\ Cardinality(SessionsOf(v, sessions)) \in Nat
      BY <3>1, <3>2, FS_Subset, FS_CardinalityType
    <3>4. Cardinality(SessionsOf(v, sessions)) <= MaxPerUser
      BY DEF SessionsFew
    <3> QED
      BY <3>3, <3>4, AccountBounds
  <2> QED
    BY <2>1, <2>2
<1> QED
  BY <1>2, <1>3, <1>4 DEF SessionsFew, SessionsOf

\* A grant on the account as it is speaks for it.
LEMMA GrantHonest ==
  ASSUME SessionsHonest, UNCHANGED users, NEW g, NEW left \in SUBSET sessions,
         g.user \in DOMAIN users, users[g.user].enabled, g.epoch = users[g.user].epoch,
         g.role = users[g.user].role, sessions' = left \cup {g}
  PROVE  SessionsHonest'
  BY DEF SessionsHonest, Enabled

\* A single sign-on lease is granted on the account as it is now and replaces older ones.
LEMMA SsoLeaseKeeps ==
  ASSUME AccountsInv, NEW u \in DOMAIN users, SsoLease(u) PROVE AccountsInv'
<1> USE DEF AccountsInv
<1> DEFINE g == Granted(u, users[u], accountNow, LeaseTime)
           live == LiveSessions(sessions)
           mine == SessionsOf(u, live)
           others == live \ mine
<1>1. g.user = u /\ g.epoch = users[u].epoch /\ g.role = users[u].role
  BY DEF Granted
<1> HIDE DEF g
<1>2. /\ users[u].enabled /\ sessions' = live \cup {g} /\ Cardinality(live) < MaxSessions
      /\ Cardinality(mine) < MaxPerUser /\ UNCHANGED accountsKept /\ UNCHANGED <<login, accountNow>>
  BY DEF SsoLease, accountsKept, g
<1>3. live \subseteq sessions /\ mine \subseteq live /\ \A s \in mine : s.user = u
  BY DEF LiveSessions, SessionsOf
<1>4. \A s \in others : s.user # u
  BY DEF SessionsOf
<1>5. IsFiniteSet(mine) /\ Cardinality(mine) \in Nat
  BY <1>3, FS_Subset, FS_CardinalityType DEF SessionsFew
<1>6. Cardinality(mine) <= MaxPerUser - 1
  BY <1>2, <1>5, AccountBounds
<1>7. live = others \cup mine
  BY <1>3
<1>8. UNCHANGED users
  BY <1>2 DEF accountsKept
<1> HIDE DEF live, mine
<1>9. SessionsFew'
  BY <1>1, <1>2, <1>3, <1>4, <1>6, <1>7, <1>8, GrantFits
<1>10. SessionsHonest'
  BY <1>1, <1>2, <1>3, <1>8, GrantHonest
<1>11. login' \in [Logins -> LoginState] /\ accountNow' \in Nat
  BY <1>2 DEF AccountTypes
<1> QED
  BY <1>2, <1>9, <1>10, <1>11, SessionFrame

\* The second transaction of a login grants a session only if the account is still under
\* the epoch whose password was checked.
LEMMA LoginInsertsKeeps ==
  ASSUME AccountsInv, NEW l \in Logins, NEW now \in Nat, LoginInserts(l, now)
  PROVE  AccountsInv'
<1> USE DEF AccountsInv
<1> DEFINE u == login[l].user
           live == {s \in sessions : s.expires > now}
           mine == SessionsOf(u, live)
           others == live \ mine
           g == Granted(u, login[l], now, SessionTime)
<1>1. /\ login[l].at = "checked" /\ login' = [login EXCEPT ![l] = NoLogin]
      /\ UNCHANGED accountsKept /\ UNCHANGED accountNow
  BY DEF LoginInserts, accountsKept
<1>2. NoLogin \in LoginState /\ NoLogin.at = "idle"
  BY DEF NoLogin, LoginState, Roles
<1>3. login' \in [Logins -> LoginState] /\ accountNow' \in Nat
  BY <1>1, <1>2 DEF AccountTypes
<1>4. \A m \in Logins : login'[m] = IF m = l THEN NoLogin ELSE login[m]
  BY <1>1 DEF AccountTypes
<1>5. LoginsFenced'
  BY <1>1, <1>2, <1>4 DEF LoginsFenced, accountsKept
<1>6. SessionsHonest' /\ SessionsFew'
  <2>1. CASE UNCHANGED sessions
    BY <1>1, <2>1, SessionFrame
  <2>2. CASE ~UNCHANGED sessions
    <3>1. LoginCandidate(l)
      BY <2>2 DEF LoginInserts
    <3>2. u \in DOMAIN users /\ users[u].enabled /\ users[u].epoch = login[l].epoch
      BY <3>1 DEF LoginCandidate, Enabled
    <3>3. users[u].role = login[l].role
      BY <1>1, <3>2 DEF LoginsFenced
    <3>4. g.user = u /\ g.epoch = users[u].epoch /\ g.role = users[u].role
      BY <3>2, <3>3 DEF Granted
    <3>5. PICK left \in NewestKept(u, live, MaxPerUser - 1) :
            IF Cardinality(others \cup left) < MaxSessions
            THEN sessions' = others \cup left \cup {g}
            ELSE IF left = {} THEN UNCHANGED sessions
            ELSE \E fewer \in NewestKept(u, left, Cardinality(left) - 1) :
                   sessions' = others \cup fewer \cup {g}
      BY <3>1 DEF LoginInserts
    <3>6. /\ live \subseteq sessions /\ IsFiniteSet(live) /\ mine \subseteq live
          /\ others \subseteq sessions
          /\ (\A s \in mine : s.user = u) /\ (\A s \in others : s.user # u)
      BY FS_Subset DEF SessionsFew, SessionsOf
    <3>7. UNCHANGED users
      BY <1>1 DEF accountsKept
    <3> HIDE DEF live, mine, others, g, u
    <3>8. /\ left \subseteq mine /\ IsFiniteSet(left) /\ Cardinality(left) \in Nat
          /\ Cardinality(left) <= MaxPerUser - 1
      BY <3>6, NewestFit, AccountBounds DEF mine
    <3>9. ASSUME NEW k \in SUBSET left, Cardinality(k) <= MaxPerUser - 1,
                 Cardinality(others \cup k) < MaxSessions, sessions' = others \cup k \cup {g}
          PROVE  SessionsHonest' /\ SessionsFew'
      <4>1. k \in SUBSET sessions /\ (\A s \in k : s.user = u) /\ others \in SUBSET sessions
        BY <3>6, <3>8
      <4>2. SessionsFew'
        BY <3>4, <3>6, <3>7, <3>9, <4>1, GrantFits
      <4>3. SessionsHonest'
        BY <3>2, <3>4, <3>7, <3>9, <4>1, GrantHonest
      <4> QED
        BY <4>2, <4>3
    <3>10. CASE Cardinality(others \cup left) < MaxSessions
      BY <3>5, <3>8, <3>9, <3>10
    <3>11. CASE ~(Cardinality(others \cup left) < MaxSessions)
      <4>1. PICK fewer \in NewestKept(u, left, Cardinality(left) - 1) :
              sessions' = others \cup fewer \cup {g}
        BY <2>2, <3>5, <3>11
      <4>2. /\ fewer \subseteq left /\ IsFiniteSet(fewer) /\ Cardinality(fewer) \in Nat
            /\ Cardinality(fewer) <= Cardinality(left) - 1
        <5>1. Cardinality(left) - 1 \in Int /\ SessionsOf(u, left) \subseteq left
          BY <3>8 DEF SessionsOf
        <5> QED
          BY <3>8, <5>1, NewestFit
      <4>3. PICK d \in left : d \notin fewer
        <5>1. fewer # left
          BY <3>8, <4>2
        <5> QED
          BY <4>2, <5>1
      <4>4. d \notin others \cup fewer /\ d \in others \cup left
        BY <3>6, <3>8, <4>3
      <4>5. IsFiniteSet(others \cup left) /\ others \cup left \subseteq sessions
        BY <3>6, <3>8, FS_Subset DEF SessionsFew
      <4>6. /\ Cardinality(others \cup left) <= Cardinality(sessions)
            /\ Cardinality(others \cup left) \in Nat /\ Cardinality(sessions) \in Nat
        BY <4>5, FS_Subset, FS_CardinalityType DEF SessionsFew
      <4>7. others \cup fewer \subseteq others \cup left /\ others \cup fewer # others \cup left
        BY <4>2, <4>4
      <4>8. /\ Cardinality(others \cup fewer) <= Cardinality(others \cup left)
            /\ Cardinality(others \cup fewer) # Cardinality(others \cup left)
            /\ Cardinality(others \cup fewer) \in Nat
        BY <4>5, <4>7, FS_Subset, FS_CardinalityType
      <4>9. Cardinality(others \cup fewer) < MaxSessions
        BY <4>6, <4>8, AccountBounds DEF SessionsFew
      <4>10. Cardinality(fewer) <= MaxPerUser - 1
        BY <3>8, <4>2, AccountBounds
      <4> QED
        BY <3>9, <4>1, <4>2, <4>9, <4>10
    <3> QED
      BY <3>10, <3>11
  <2> QED
    BY <2>1, <2>2
<1> QED
  BY <1>1, <1>3, <1>5, <1>6, SessionFrame

\* Time only makes sessions and logins expire.
LEMMA TickKeeps == ASSUME AccountsInv, AccountTick PROVE AccountsInv'
<1> USE DEF AccountsInv
<1>1. UNCHANGED accountsKept /\ UNCHANGED <<sessions, login>> /\ accountNow' = accountNow + 1
  BY DEF AccountTick, accountsKept
<1>2. login' \in [Logins -> LoginState] /\ accountNow' \in Nat
  BY <1>1 DEF AccountTypes
<1> QED
  BY <1>1, <1>2, SessionFrame

(* Audit controls *)

\* Accounts and sessions stay when only the audit moves.
LEMMA AuditFrame ==
  ASSUME AccountsInv, UNCHANGED <<users, nextUser, sessions, login, accountNow>>
  PROVE  /\ AccountTypes' /\ LoginsFenced' /\ SessionsHonest' /\ SessionsFew' /\ AdminLeft'
<1> USE DEF AccountsInv
<1>1. AccountTypes'
  BY DEF AccountTypes
<1>2. LoginsFenced'
  BY DEF LoginsFenced
<1>3. SessionsHonest' /\ SessionsFew'
  BY DEF SessionsHonest, SessionsFew, Enabled, SessionsOf
<1>4. AdminLeft'
  BY DEF AdminLeft, Admins
<1> QED
  BY <1>1, <1>2, <1>3, <1>4

\* The records of changes to the audit are of no account.
LEMMA ControlTraced ==
  ASSUME AccountsInv, UNCHANGED <<users, nextUser>>, NEW act, NEW gone \in SUBSET audit,
         audit' = (audit \ gone) \cup {Entry(act, 0, Gone)},
         unexplained \subseteq unexplained', \A r \in gone : r.target \in unexplained'
  PROVE  AllTraced'
<1> USE DEF AccountsInv
<1>1. Entry(act, 0, Gone).target = 0
  BY DEF Entry
<1> SUFFICES ASSUME NEW u \in (1..(nextUser - 1)) \ unexplained'
             PROVE  TracedIn(audit', u, AccountState(users, u))
  BY DEF AllTraced
<1>2. PICK r \in audit : /\ r.target = u /\ \A q \in audit : q.target = u => q.id <= r.id
                         /\ r.after = AccountState(users, u)
  BY DEF AllTraced, TracedIn
<1>3. r \notin gone
  BY <1>2
<1>4. u # 0
  BY DEF AccountTypes
<1>5. \A q \in audit' : q.target = u => q \in audit
  BY <1>1, <1>4
<1> QED
  BY <1>2, <1>3, <1>5 DEF TracedIn

\* A new audit policy is itself recorded, and forgets no record.
LEMMA PolicyKeeps ==
  ASSUME AccountsInv, NEW dropped \in Policies, SetAuditPolicy(dropped) PROVE AccountsInv'
<1> USE DEF AccountsInv
<1> DEFINE e == Entry("policy", 0, Gone)
<1>1. /\ UNCHANGED <<users, nextUser, sessions, login, accountNow>> /\ UNCHANGED unexplained
      /\ audit' = audit \cup {e} /\ RoomInAudit
      /\ auditMeta' = [auditMeta EXCEPT !.next = @ + 1, !.stored = @ + 1, !.revision = @ + 1,
                                        !.dropped = dropped]
  BY DEF SetAuditPolicy
<1>2. e.id = auditMeta.next
  BY DEF Entry
<1>3. /\ {} \in SUBSET audit /\ audit' = (audit \ {}) \cup {e} /\ unexplained \subseteq unexplained'
      /\ \A r \in {} : r.target \in unexplained'
  BY <1>1
<1>4. AllTraced'
  BY <1>1, <1>3, ControlTraced
<1> HIDE DEF e
<1>5. /\ auditMeta.next \in Nat /\ auditMeta.stored \in Nat /\ auditMeta.revision \in Nat
      /\ auditMeta.pruned \in Nat /\ auditMeta.filtered \in Nat
  BY DEF AuditTypes, Meta
<1>6. auditMeta' = [next |-> auditMeta.next + 1, pruned |-> auditMeta.pruned,
                    stored |-> auditMeta.stored + 1, revision |-> auditMeta.revision + 1,
                    dropped |-> dropped, filtered |-> auditMeta.filtered]
  BY <1>1, <1>5 DEF AuditTypes, Meta
<1>7. auditMeta' \in Meta
  BY <1>5, <1>6 DEF Meta
<1>8. e \notin audit
  BY <1>2, <1>5 DEF AuditCounted
<1>9. IsFiniteSet(audit') /\ Cardinality(audit') = Cardinality(audit) + 1
  BY <1>1, <1>8, FS_AddElement DEF AuditTypes
<1>10. AuditTypes'
  BY <1>5, <1>6, <1>7, <1>9 DEF AuditTypes
<1>11. AuditCounted'
  <2>1. auditMeta'.stored = Cardinality(audit') /\ auditMeta'.stored <= AuditCapacity
    BY <1>1, <1>5, <1>6, <1>9, AccountBounds DEF AuditCounted, RoomInAudit
  <2>2. \A r \in audit' : r.id \in (auditMeta'.pruned + 1)..(auditMeta'.next - 1)
    BY <1>1, <1>2, <1>5, <1>6 DEF AuditCounted, AuditTypes
  <2> QED
    BY <2>1, <2>2 DEF AuditCounted
<1> QED
  BY <1>1, <1>4, <1>10, <1>11, AuditFrame

\* A pruned record leaves its account unexplained, and the boundary below the next id.
LEMMA PruneKeeps ==
  ASSUME AccountsInv, NEW through \in Int, PruneAudit(through) PROVE AccountsInv'
<1> USE DEF AccountsInv
<1> DEFINE e == Entry("prune", 0, Gone)
           gone == {r \in audit : r.id <= through}
<1>1. /\ UNCHANGED <<users, nextUser, sessions, login, accountNow>>
      /\ unexplained' = unexplained \cup {r.target : r \in gone} /\ gone # {}
      /\ through \in (auditMeta.pruned + 1)..(auditMeta.next - 1)
      /\ audit' = (audit \ gone) \cup {e}
      /\ auditMeta' = [auditMeta EXCEPT !.pruned = through, !.next = @ + 1,
                                        !.stored = @ - Cardinality(gone) + 1]
  BY DEF PruneAudit
<1>2. e.id = auditMeta.next
  BY DEF Entry
<1>3. gone \subseteq audit
  OBVIOUS
<1>4. AllTraced'
  BY <1>1, <1>3, ControlTraced
<1> HIDE DEF e
<1>5. /\ auditMeta.next \in Nat /\ auditMeta.stored \in Nat /\ auditMeta.revision \in Nat
      /\ auditMeta.pruned \in Nat /\ auditMeta.filtered \in Nat
      /\ auditMeta.dropped \in Policies \cup {{}}
  BY DEF AuditTypes, Meta
<1>6. auditMeta' = [next |-> auditMeta.next + 1, pruned |-> through,
                    stored |-> auditMeta.stored - Cardinality(gone) + 1,
                    revision |-> auditMeta.revision, dropped |-> auditMeta.dropped,
                    filtered |-> auditMeta.filtered]
  BY <1>1, <1>5 DEF AuditTypes, Meta
<1>7. /\ IsFiniteSet(gone) /\ Cardinality(gone) \in Nat /\ Cardinality(gone) # 0
      /\ IsFiniteSet(audit \ gone) /\ Cardinality(audit) \in Nat
  BY <1>1, <1>3, FS_Subset, FS_CardinalityType, FS_EmptySet DEF AuditTypes
<1>8. e \notin audit \ gone
  BY <1>2, <1>5 DEF AuditCounted
<1>9. Cardinality(audit \ gone) = Cardinality(audit) - Cardinality(gone)
  <2>1. Cardinality(audit \ gone) = Cardinality(audit) - Cardinality(audit \cap gone)
    BY <1>3, FS_Difference DEF AuditTypes
  <2>2. audit \cap gone = gone
    OBVIOUS
  <2> QED
    BY <2>1, <2>2
<1>10. IsFiniteSet(audit') /\ Cardinality(audit') = Cardinality(audit) - Cardinality(gone) + 1
  BY <1>1, <1>7, <1>8, <1>9, FS_AddElement
<1>11. Cardinality(audit \ gone) \in Nat
  BY <1>7, FS_CardinalityType
<1>12. auditMeta' \in Meta
  <2>1. auditMeta.stored - Cardinality(gone) + 1 \in Nat
    BY <1>5, <1>7, <1>9, <1>11 DEF AuditCounted
  <2>2. through \in Nat /\ auditMeta.next + 1 \in Nat
    BY <1>1, <1>5
  <2> HIDE DEF gone
  <2> QED
    BY <1>5, <1>6, <2>1, <2>2 DEF Meta
<1>13. AuditTypes'
  BY <1>1, <1>5, <1>6, <1>10, <1>12 DEF AuditTypes
<1>14. AuditCounted'
  <2>1. auditMeta'.stored = Cardinality(audit')
    BY <1>6, <1>10 DEF AuditCounted
  <2>2. auditMeta'.stored <= AuditCapacity
    BY <1>5, <1>6, <1>7, AccountBounds DEF AuditCounted
  <2>3. \A r \in audit' : r.id \in (auditMeta'.pruned + 1)..(auditMeta'.next - 1)
    BY <1>1, <1>2, <1>5, <1>6 DEF AuditCounted, AuditTypes
  <2> QED
    BY <2>1, <2>2, <2>3 DEF AuditCounted
<1> QED
  BY <1>1, <1>4, <1>13, <1>14, AuditFrame

\* Every step keeps the invariant.
LEMMA AccountsStep == AccountsInv /\ [AccountsNext]_accountVars => AccountsInv'
<1> SUFFICES ASSUME AccountsInv, [AccountsNext]_accountVars PROVE AccountsInv'
  OBVIOUS
<1>1. CASE UNCHANGED accountVars
  <2>1. AccountTypes' /\ AuditTypes' /\ AuditCounted' /\ AllTraced'
    BY <1>1 DEF AccountsInv, accountVars, AccountTypes, AuditTypes, AuditCounted, AllTraced
  <2> QED
    BY <1>1, <2>1, AuditFrame DEF AccountsInv, accountVars
<1>2. CASE AccountsNext
  <2>1. ASSUME NEW n \in Names, Bootstrap(n) PROVE AccountsInv'
    BY <2>1, BootstrapKeeps
  <2>2. ASSUME NEW n \in Names, NEW r \in Roles, CreateUser(n, r) PROVE AccountsInv'
    BY <2>2, CreateKeeps
  <2>3. ASSUME NEW u \in DOMAIN users, NEW r \in Roles, NEW on \in BOOLEAN, NEW password \in BOOLEAN,
               UpdateUser(u, r, on, password)
        PROVE  AccountsInv'
    BY <2>3, UpdateKeeps
  <2>4. ASSUME NEW u \in DOMAIN users, DeleteUser(u) PROVE AccountsInv'
    BY <2>4, DeleteKeeps
  <2>5. ASSUME NEW dropped \in Policies, SetAuditPolicy(dropped) PROVE AccountsInv'
    BY <2>5, PolicyKeeps
  <2>6. ASSUME NEW through \in 1..LastAudit, PruneAudit(through) PROVE AccountsInv'
    BY <2>6, PruneKeeps, AccountBounds
  <2>7. ASSUME NEW u \in DOMAIN users, SsoLease(u) PROVE AccountsInv'
    BY <2>7, SsoLeaseKeeps
  <2>8. ASSUME NEW u \in DOMAIN users, NEW l \in Logins, LoginReads(l, u) PROVE AccountsInv'
    BY <2>8, LoginReadsKeeps
  <2>9. ASSUME NEW l \in Logins, NEW now \in 0..accountNow, LoginInserts(l, now)
        PROVE  AccountsInv'
    <3>1. now \in Nat
      BY DEF AccountsInv, AccountTypes
    <3> QED
      BY <2>9, <3>1, LoginInsertsKeeps
  <2>10. ASSUME NEW s \in sessions, Logout(s) PROVE AccountsInv'
    BY <2>10, LogoutKeeps
  <2>11. CASE AccountTick
    BY <2>11, TickKeeps
  <2> QED
    BY <1>2, <2>1, <2>2, <2>3, <2>4, <2>5, <2>6, <2>7, <2>8, <2>9, <2>10, <2>11 DEF AccountsNext
<1> QED
  BY <1>1, <1>2

\* Sessions speak for their accounts as they are, an administrator is left, and
\* the audit explains every account, for any number of users, logins, sessions
\* and records (admin_users.rs).
THEOREM AccountsSoundAlways == AccountsSpec => []AccountsSound
<1>1. AccountsInit => AccountsInv
  BY AccountsStart
<1>2. AccountsInv /\ [AccountsNext]_accountVars => AccountsInv'
  BY AccountsStep
<1>3. AccountsInv => AccountsSound
  BY AccountsInvSound
<1> QED
  BY <1>1, <1>2, <1>3, PTL DEF AccountsSpec

-----------------------------------------------------------------------------
(* Updates *)

(* What may be on disk after operations that are not synced. *)

Ops == UNION {[ns -> Contents] : ns \in SUBSET Paths}
Dirs == [Paths -> Contents]

CrashSet(dir, ops) == {After(dir, ops, done) : done \in SUBSET DOMAIN ops}
LatestDir(dir, ops) == After(dir, ops, DOMAIN ops)
\* A directory after one more operation.
Over(dir, op) == [n \in Paths |-> IF n \in DOMAIN op THEN op[n] ELSE dir[n]]

\* A nonempty set of numbers up to k has a largest.
LEMMA LargestExists ==
  ASSUME NEW k \in Nat, NEW S \in SUBSET (1..k), S # {}
  PROVE  Max(S) \in S /\ \A i \in S : i <= Max(S)
<1> DEFINE R == {p \in Nat \X Nat : p[1] < p[2]}
           T == {k - i : i \in S}
<1>1. IsWellFoundedOn(R, Nat)
  BY NatLessThanWellFounded DEF OpToRel
<1>2. T \subseteq Nat /\ T # {}
  <2>1. PICK i : i \in S
    OBVIOUS
  <2>2. k - i \in T
    BY <2>1
  <2>3. ASSUME NEW x \in T PROVE x \in Nat
    <3>1. PICK j \in S : x = k - j
      OBVIOUS
    <3>2. j \in 1..k
      OBVIOUS
    <3> QED
      BY <3>1, <3>2
  <2> QED
    BY <2>2, <2>3
<1> HIDE DEF T, R
<1>3. PICK x \in T : \A y \in T : ~(<<y, x>> \in R)
  BY <1>1, <1>2, WFMin
<1>4. PICK m \in S : x = k - m
  BY <1>3 DEF T
<1>5. ASSUME NEW i \in S PROVE i <= m
  <2>1. k - i \in T /\ k - i \in Nat /\ x \in Nat
    BY <1>2, <1>3 DEF T
  <2>2. ~(k - i < x)
    BY <1>3, <2>1 DEF R
  <2> QED
    BY <1>4, <2>1, <2>2
<1>6. \A i \in S : i \in Int
  OBVIOUS
<1> QED
  BY <1>4, <1>5, <1>6 DEF Max

\* The largest of a set that has it.
LEMMA LargestIs ==
  ASSUME NEW S \in SUBSET Nat, NEW k \in S, \A i \in S : i <= k
  PROVE  Max(S) = k
<1>1. Max(S) \in S /\ \A i \in S : Max(S) >= i
  <2>1. \E x \in S : \A i \in S : x >= i
    OBVIOUS
  <2> QED
    BY <2>1 DEF Max
<1>2. Max(S) >= k /\ Max(S) <= k /\ Max(S) \in Nat
  BY <1>1
<1> QED
  BY <1>2

\* One more operation: every directory there could be, with it or without.
LEMMA AfterOneMore ==
  ASSUME NEW dir, NEW ops \in Seq(Ops), NEW op \in Ops, NEW done \in SUBSET DOMAIN ops
  PROVE  /\ After(dir, Append(ops, op), done) = After(dir, ops, done)
         /\ After(dir, Append(ops, op), done \cup {Len(ops) + 1}) = Over(After(dir, ops, done), op)
<1> DEFINE more == Append(ops, op)
           k == Len(ops) + 1
<1>1. /\ Len(ops) \in Nat /\ DOMAIN ops = 1..Len(ops) /\ DOMAIN more = 1..k /\ more[k] = op
      /\ \A i \in DOMAIN ops : more[i] = ops[i]
  OBVIOUS
<1> HIDE DEF more
<1>2. ASSUME NEW n \in Paths
      PROVE  After(dir, more, done)[n] = After(dir, ops, done)[n]
  <2> DEFINE by == {i \in done : n \in DOMAIN ops[i]}
             byMore == {i \in done : n \in DOMAIN more[i]}
  <2>1. by = byMore
    BY <1>1
  <2>2. by # {} => Max(by) \in by
    BY <1>1, LargestExists
  <2>3. by # {} => more[Max(by)] = ops[Max(by)]
    BY <1>1, <2>2
  <2> QED
    BY <2>1, <2>3 DEF After
<1>3. ASSUME NEW n \in Paths
      PROVE  After(dir, more, done \cup {k})[n] = Over(After(dir, ops, done), op)[n]
  <2> DEFINE byMore == {i \in done \cup {k} : n \in DOMAIN more[i]}
             by == {i \in done : n \in DOMAIN more[i]}
  <2>1. CASE n \in DOMAIN op
    <3>1. k \in byMore /\ byMore \subseteq Nat /\ \A i \in byMore : i <= k
      BY <1>1, <2>1
    <3>2. Max(byMore) = k
      BY <3>1, LargestIs
    <3>3. After(dir, more, done \cup {k})[n] = op[n]
      BY <1>1, <3>1, <3>2 DEF After
    <3> QED
      BY <2>1, <3>3 DEF Over
  <2>2. CASE n \notin DOMAIN op
    <3>1. byMore = by
      BY <1>1, <2>2
    <3>2. After(dir, more, done \cup {k})[n] = After(dir, more, done)[n]
      BY <3>1 DEF After
    <3> QED
      BY <1>2, <2>2, <3>2 DEF Over
  <2> QED
    BY <2>1, <2>2
<1>4. After(dir, more, done) = After(dir, ops, done)
  BY <1>2 DEF After
<1>5. After(dir, more, done \cup {k}) = Over(After(dir, ops, done), op)
  BY <1>3 DEF After, Over
<1> QED
  BY <1>4, <1>5 DEF more

\* One more operation: a crash keeps it or loses it, and the latest state has it.
LEMMA CrashOneMore ==
  ASSUME NEW dir, NEW ops \in Seq(Ops), NEW op \in Ops
  PROVE  /\ \A x \in CrashSet(dir, Append(ops, op)) :
              x \in CrashSet(dir, ops) \/ \E y \in CrashSet(dir, ops) : x = Over(y, op)
         /\ LatestDir(dir, Append(ops, op)) = Over(LatestDir(dir, ops), op)
<1> DEFINE more == Append(ops, op)
           k == Len(ops) + 1
<1>1. /\ Len(ops) \in Nat /\ DOMAIN ops = 1..Len(ops) /\ DOMAIN more = 1..k
      /\ DOMAIN more = DOMAIN ops \cup {k} /\ k \notin DOMAIN ops
  OBVIOUS
<1> HIDE DEF more
<1>2. ASSUME NEW x \in CrashSet(dir, more)
      PROVE  x \in CrashSet(dir, ops) \/ \E y \in CrashSet(dir, ops) : x = Over(y, op)
  <2>1. PICK done \in SUBSET DOMAIN more : x = After(dir, more, done)
    BY DEF CrashSet
  <2>2. CASE k \notin done
    <3>1. done \in SUBSET DOMAIN ops
      BY <1>1, <2>2
    <3> QED
      BY <2>1, <3>1, AfterOneMore DEF CrashSet, more
  <2>3. CASE k \in done
    <3> DEFINE rest == done \ {k}
    <3>1. rest \in SUBSET DOMAIN ops /\ done = rest \cup {k}
      BY <1>1, <2>3
    <3> HIDE DEF rest
    <3>2. After(dir, more, rest \cup {k}) = Over(After(dir, ops, rest), op)
      BY <3>1, AfterOneMore DEF more
    <3>3. After(dir, ops, rest) \in CrashSet(dir, ops)
      BY <3>1 DEF CrashSet
    <3>4. x = Over(After(dir, ops, rest), op)
      BY <2>1, <3>1, <3>2
    <3> QED
      BY <3>3, <3>4
  <2> QED
    BY <2>2, <2>3
<1>3. LatestDir(dir, more) = Over(LatestDir(dir, ops), op)
  <2> DEFINE all == DOMAIN ops
  <2>1. DOMAIN more = all \cup {k}
    BY <1>1
  <2>0. all \in SUBSET DOMAIN ops
    OBVIOUS
  <2> HIDE DEF all
  <2>2. After(dir, more, all \cup {k}) = Over(After(dir, ops, all), op)
    BY <2>0, AfterOneMore DEF more
  <2> QED
    BY <2>1, <2>2 DEF LatestDir, all
<1> QED
  BY <1>2, <1>3 DEF more

\* With nothing unsynced there is one directory.
LEMMA CrashNone ==
  ASSUME NEW dir \in Dirs
  PROVE  CrashSet(dir, <<>>) = {dir} /\ LatestDir(dir, <<>>) = dir
<1>1. DOMAIN (<<>>) = {}
  OBVIOUS
<1>2. After(dir, <<>>, {}) = dir
  BY DEF After, Dirs
<1> QED
  BY <1>1, <1>2 DEF CrashSet, LatestDir

\* A name nothing touches has one content.
LEMMA Untouched ==
  ASSUME NEW dir, NEW ops, NEW n \in Paths, \A i \in DOMAIN ops : n \notin DOMAIN ops[i],
         NEW x \in CrashSet(dir, ops)
  PROVE  x[n] = dir[n]
  BY DEF CrashSet, After

\* What a crash leaves is a directory, and the latest state is one a crash may leave.
LEMMA CrashTyped ==
  ASSUME NEW dir \in Dirs, NEW ops \in Seq(Ops)
  PROVE  CrashSet(dir, ops) \subseteq Dirs /\ LatestDir(dir, ops) \in CrashSet(dir, ops)
<1>1. ASSUME NEW done \in SUBSET DOMAIN ops PROVE After(dir, ops, done) \in Dirs
  <2>1. SUFFICES ASSUME NEW n \in Paths PROVE After(dir, ops, done)[n] \in Contents
    BY DEF After, Dirs
  <2> DEFINE by == {i \in done : n \in DOMAIN ops[i]}
  <2>2. by # {} => Max(by) \in by
    <3>1. Len(ops) \in Nat /\ by \in SUBSET (1..Len(ops))
      OBVIOUS
    <3> QED
      BY <3>1, LargestExists
  <2>3. by # {} => ops[Max(by)] \in Ops /\ n \in DOMAIN ops[Max(by)]
    BY <2>2
  <2>4. by # {} => ops[Max(by)][n] \in Contents
    BY <2>3 DEF Ops
  <2>5. dir[n] \in Contents
    BY DEF Dirs
  <2> QED
    BY <2>4, <2>5 DEF After
<1> QED
  BY <1>1 DEF CrashSet, LatestDir

(* The invariant *)

Steps == {"serving", "down", "fetching", "staged", "linked", "retained", "swapped", "activated", "ready"}
Updaters == [at : Steps, release : Releases \cup {0}, staged : Paths, rollback : Paths]

InstallTypes ==
  /\ disk \in Dirs /\ unsynced \in Seq(Ops)
  /\ lock \subseteq Supervisors
  /\ updater \in [Supervisors -> Updaters]
  /\ version \in [Supervisors -> Releases] /\ proven \in Releases
  /\ before \in Dirs

\* The lock is held by the one supervisor that updates.
UpdatesLocked ==
  /\ \A s \in Supervisors : s \in lock <=> updater[s].at \notin {"serving", "down"}
  /\ \A s, t \in lock : s = t

\* The executable path names a whole release, whatever reached the disk.
WholeRelease == \A x \in CrashStates : x["install"] \in Releases

\* What is settled: nothing is unsynced, or what is does not matter.
UpdateSettled == CrashStates = {Current}

\* The names of an update: temporary, and different.
NamesInv(u) ==
  /\ u.release \in Releases /\ u.staged \in TempNames
  /\ u.at \in {"fetching", "staged"} => u.rollback = "install"
  /\ u.at \notin {"fetching", "staged"} => u.rollback \in TempNames /\ u.rollback # u.staged

\* What the files of an update hold.
FilesInv(u) ==
  /\ u.at \in {"staged", "retained", "activated", "ready"} => UpdateSettled
  /\ u.at \in {"staged", "linked", "retained"} => Current[u.staged] = u.release
  /\ u.at \in {"linked", "retained"} => Current[u.rollback] = Current["install"]
  /\ u.at \in {"swapped", "activated"} => Current[u.rollback] \in Releases
  /\ u.at \in {"swapped", "activated", "ready"} => Current["install"] = u.release
  /\ u.at = "ready" => proven = u.release

\* What an update has changed of the directory it found.
TraceInv(u) ==
  /\ u.at # "ready" =>
       /\ before[u.staged] = NoFile
       /\ \A n \in TempNames \ {u.staged, u.rollback} : Current[n] = before[n]
  /\ u.at \in {"fetching", "staged", "linked", "retained"} => Current["install"] = before["install"]
  /\ u.at \in {"linked", "retained", "swapped", "activated"} => before[u.rollback] = NoFile
  /\ u.at \in {"swapped", "activated"} =>
       Current[u.staged] = NoFile /\ Current[u.rollback] = before["install"]

UpdateInv == \A s \in lock : NamesInv(updater[s]) /\ FilesInv(updater[s]) /\ TraceInv(updater[s])

\* The release that was seen to work is installed or under the name n, which the
\* running update does not remove; while the installed binary is being replaced
\* it is under that name for certain.
KeptAt(n) ==
  /\ \A x \in CrashStates : x["install"] = proven \/ x[n] = proven
  /\ \A s \in lock :
       /\ n # updater[s].staged
       /\ updater[s].at \in {"linked", "retained"} => n # updater[s].rollback
       /\ updater[s].at \in {"swapped", "activated"} =>
            n # "install" /\ \A x \in CrashStates : x[n] = proven
ProvenKept == \E n \in Paths : KeptAt(n)

InstallInv == InstallTypes /\ UpdatesLocked /\ WholeRelease /\ UpdateInv /\ ProvenKept

\* The directory there is now is one a failure may leave, and all are well typed.
LEMMA CurrentPossible ==
  ASSUME InstallTypes PROVE Current \in CrashStates /\ CrashStates \subseteq Dirs
  BY CrashTyped DEF InstallTypes, Current, CrashStates, CrashSet, LatestDir

\* A sync.
LEMMA SyncedDirs ==
  ASSUME NEW d \in Dirs, disk' = d, unsynced' = <<>>
  PROVE  /\ disk' \in Dirs /\ unsynced' \in Seq(Ops)
         /\ CrashStates' = {d} /\ Current' = d
<1>1. CrashSet(d, <<>>) = {d} /\ LatestDir(d, <<>>) = d
  BY CrashNone
<1>2. CrashStates' = CrashSet(disk', unsynced') /\ Current' = LatestDir(disk', unsynced')
  BY DEF CrashStates, Current, CrashSet, LatestDir
<1> QED
  BY <1>1, <1>2

\* An operation.
LEMMA DoneDirs ==
  ASSUME InstallTypes, NEW op \in Ops, Do(op)
  PROVE  /\ disk' \in Dirs /\ unsynced' \in Seq(Ops)
         /\ \A x \in CrashStates' : x \in CrashStates \/ \E y \in CrashStates : x = Over(y, op)
         /\ Current' = Over(Current, op)
<1>1. unsynced' = Append(unsynced, op) /\ disk' = disk
  BY DEF Do
<1>2. CrashStates' = CrashSet(disk, Append(unsynced, op)) /\ Current' = LatestDir(disk, Append(unsynced, op))
  BY <1>1 DEF CrashStates, Current, CrashSet, LatestDir
<1>3. CrashStates = CrashSet(disk, unsynced) /\ Current = LatestDir(disk, unsynced)
  BY DEF CrashStates, Current, CrashSet, LatestDir
<1> QED
  BY <1>1, <1>2, <1>3, CrashOneMore DEF InstallTypes

\* Nothing happens to the directory.
LEMMA SameDirs ==
  ASSUME UNCHANGED directory
  PROVE  CrashStates' = CrashStates /\ Current' = Current /\ UNCHANGED <<disk, unsynced>>
  BY DEF directory, CrashStates, Current

\* The operations there are.
LEMMA OpsTyped ==
  /\ \A n \in Paths, c \in Contents :
       Put(n, c) \in Ops /\ DOMAIN Put(n, c) = {n} /\ Put(n, c)[n] = c
  /\ InstallTypes => \A from \in Paths :
       LET op == Renamed(from, "install")
       IN /\ op \in Ops /\ DOMAIN op = {from, "install"} /\ op["install"] = Current[from]
          /\ from # "install" => op[from] = NoFile
<1>1. ASSUME NEW n \in Paths, NEW c \in Contents
      PROVE  Put(n, c) \in Ops /\ DOMAIN Put(n, c) = {n} /\ Put(n, c)[n] = c
  <2>1. Put(n, c) \in [{n} -> Contents] /\ {n} \in SUBSET Paths
    BY DEF Put
  <2> QED
    BY <2>1 DEF Put, Ops
<1>2. ASSUME InstallTypes, NEW from \in Paths
      PROVE  LET op == Renamed(from, "install")
             IN /\ op \in Ops /\ DOMAIN op = {from, "install"} /\ op["install"] = Current[from]
                /\ from # "install" => op[from] = NoFile
  <2>1. Current[from] \in Contents /\ "install" \in Paths /\ NoFile \in Contents
    BY <1>2, CurrentPossible DEF Dirs, Paths, Contents
  <2>2. Renamed(from, "install") \in [{from, "install"} -> Contents] /\ {from, "install"} \in SUBSET Paths
    BY <2>1 DEF Renamed
  <2> QED
    BY <2>2 DEF Renamed, Ops
<1> QED
  BY <1>1, <1>2

\* A name nobody has.
LEMMA UnusedName ==
  ASSUME InstallTypes, NEW n \in Unused
  PROVE  n \in TempNames /\ n \in Paths /\ n # "install" /\ \A x \in CrashStates : x[n] = NoFile
<1>1. n \in TempNames /\ disk[n] = NoFile /\ \A i \in DOMAIN unsynced : n \notin DOMAIN unsynced[i]
  BY DEF Unused
<1>2. n \in Paths /\ n # "install"
  BY <1>1, UpdateAssumption DEF Paths
<1>3. CrashStates = CrashSet(disk, unsynced)
  BY DEF CrashStates, CrashSet
<1> QED
  BY <1>1, <1>2, <1>3, Untouched

\* The same of the directory after a step.
LEMMA NextPossible ==
  ASSUME disk' \in Dirs, unsynced' \in Seq(Ops)
  PROVE  Current' \in CrashStates' /\ CrashStates' \subseteq Dirs
<1>1. CrashStates' = CrashSet(disk', unsynced') /\ Current' = LatestDir(disk', unsynced')
  BY DEF CrashStates, Current, CrashSet, LatestDir
<1> QED
  BY <1>1, CrashTyped

\* What the removal of n, when n is gone, makes of the directories there could be.
Differs(dir, ops, more, n, gone) ==
  /\ more \in Seq(Ops)
  /\ \A x \in CrashSet(dir, more) : \E y \in CrashSet(dir, ops) :
       \A m \in Paths : (m # n \/ n \notin gone) => x[m] = y[m]
  /\ \A m \in Paths : LatestDir(dir, more)[m] = IF m = n /\ n \in gone THEN NoFile
                                             ELSE LatestDir(dir, ops)[m]

\* The removal of a leftover, whether it is done or not, changes that name alone.
LEMMA RemovedDirs ==
  ASSUME NEW dir, NEW ops \in Seq(Ops), NEW n \in Paths, NEW gone,
         NEW more, more = Removed(ops, n, gone)
  PROVE  Differs(dir, ops, more, n, gone)
<1> DEFINE op == Put(n, NoFile)
<1>1. NoFile \in Contents
  BY DEF Contents
<1>2. op \in Ops /\ DOMAIN op = {n} /\ op[n] = NoFile
  BY <1>1, OpsTyped
<1> HIDE DEF op
<1>3. CASE n \in gone
  <2>1. more = Append(ops, op)
    BY <1>3 DEF Removed, op
  <2>2. more \in Seq(Ops)
    BY <1>2, <2>1
  <2>3. /\ \A x \in CrashSet(dir, more) :
              x \in CrashSet(dir, ops) \/ \E y \in CrashSet(dir, ops) : x = Over(y, op)
        /\ LatestDir(dir, more) = Over(LatestDir(dir, ops), op)
    BY <1>2, <2>1, CrashOneMore
  <2>4. ASSUME NEW y, NEW m \in Paths
        PROVE  Over(y, op)[m] = IF m = n THEN NoFile ELSE y[m]
    BY <1>2 DEF Over
  <2>5. ASSUME NEW x \in CrashSet(dir, more)
        PROVE  \E y \in CrashSet(dir, ops) : \A m \in Paths : (m # n \/ n \notin gone) => x[m] = y[m]
    BY <1>3, <2>3, <2>4
  <2>6. \A m \in Paths : LatestDir(dir, more)[m] = IF m = n /\ n \in gone THEN NoFile
                                                ELSE LatestDir(dir, ops)[m]
    BY <1>3, <2>3, <2>4
  <2> QED
    BY <2>2, <2>5, <2>6 DEF Differs
<1>4. CASE n \notin gone
  <2>1. more = ops
    BY <1>4 DEF Removed
  <2> QED
    BY <1>4, <2>1 DEF Differs
<1> QED
  BY <1>3, <1>4

(* The steps of an update *)

\* Who updates is alone.
LEMMA UpdaterAlone ==
  ASSUME UpdatesLocked, InstallTypes, NEW s \in Supervisors, updater[s].at \notin {"serving", "down"}
  PROVE  lock = {s} /\ s \in lock /\ \A t \in Supervisors \ {s} : updater[t].at \in {"serving", "down"}
<1>1. s \in lock
  BY DEF UpdatesLocked
<1>2. lock = {s}
  BY <1>1 DEF UpdatesLocked, InstallTypes
<1> QED
  BY <1>1, <1>2 DEF UpdatesLocked

\* A step of one supervisor.
LEMMA StepOf ==
  ASSUME InstallTypes, NEW s \in Supervisors, NEW step \in Steps, To(s, step)
  PROVE  /\ updater' \in [Supervisors -> Updaters] /\ updater'[s].at = step
         /\ updater'[s].release = updater[s].release /\ updater'[s].staged = updater[s].staged
         /\ updater'[s].rollback = updater[s].rollback
         /\ \A t \in Supervisors : t # s => updater'[t] = updater[t]
<1>1. updater[s] \in Updaters
  BY DEF InstallTypes
<1>2. updater' = [updater EXCEPT ![s] = [updater[s] EXCEPT !.at = step]]
  BY <1>1 DEF To, InstallTypes, Updaters
<1> DEFINE u == [updater[s] EXCEPT !.at = step]
<1>3. /\ u \in Updaters /\ u.at = step /\ u.release = updater[s].release
      /\ u.staged = updater[s].staged /\ u.rollback = updater[s].rollback
  BY <1>1 DEF Updaters
<1> HIDE DEF u
<1>4. updater'[s] = u /\ \A t \in Supervisors : t # s => updater'[t] = updater[t]
  BY <1>2 DEF InstallTypes, u
<1>5. updater' \in [Supervisors -> Updaters]
  BY <1>2, <1>3 DEF InstallTypes, u
<1> QED
  BY <1>3, <1>4, <1>5

\* Only the end of an update is an outcome.
LEMMA NoOutcome ==
  ASSUME UpdatesLocked, \A t \in lock : updater'[t].at # "serving"
  PROVE  OutcomeTruthful
<1> SUFFICES ASSUME NEW t \in Supervisors,
                    At(t, {"fetching", "staged", "linked", "retained", "swapped", "activated", "ready"}),
                    updater'[t].at = "serving"
             PROVE  FALSE
  BY DEF OutcomeTruthful, At
<1>1. t \in lock
  BY DEF UpdatesLocked, At
<1> QED
  BY <1>1

\* A running update has moved on.
LEMMA UpdateMoved ==
  ASSUME InstallInv, InstallTypes', NEW s \in Supervisors, lock = {s} \/ lock = {}, lock' = {s},
         \A t \in Supervisors : t # s => updater'[t] = updater[t],
         updater'[s].at \notin {"serving", "down"},
         WholeRelease', NamesInv(updater[s])', FilesInv(updater[s])', TraceInv(updater[s])',
         NEW n \in Paths, KeptAt(n)'
  PROVE  InstallInv' /\ (lock = {s} => OutcomeTruthful)
<1>1. UpdatesLocked'
  BY DEF UpdatesLocked, InstallInv
<1>2. UpdateInv'
  BY DEF UpdateInv
<1>3. ProvenKept'
  BY DEF ProvenKept
<1>4. lock = {s} => OutcomeTruthful
  BY NoOutcome DEF InstallInv
<1> QED
  BY <1>1, <1>2, <1>3, <1>4 DEF InstallInv

\* No update runs.
LEMMA NoUpdate ==
  ASSUME InstallTypes', lock' = {}, \A t \in Supervisors : updater'[t].at \in {"serving", "down"},
         WholeRelease', NEW n \in Paths, \A x \in CrashStates' : x["install"] = proven' \/ x[n] = proven'
  PROVE  InstallInv'
<1>1. UpdatesLocked'
  BY DEF UpdatesLocked
<1>2. UpdateInv'
  BY DEF UpdateInv
<1>3. KeptAt(n)'
  BY DEF KeptAt
<1>4. ProvenKept'
  BY <1>3 DEF ProvenKept
<1> QED
  BY <1>1, <1>2, <1>4 DEF InstallInv

\* A supervisor at rest, and one that is down.
LEMMA AtRest ==
  /\ Serving \in Updaters /\ Serving.at = "serving" /\ Down \in Updaters /\ Down.at = "down"
  /\ EmptyDir \in Dirs /\ "install" \in Paths
  BY DEF Serving, Down, Updaters, Steps, Paths, EmptyDir, Dirs, Contents

\* An update begins with the lock and a file under an unused name.
LEMMA BeginUpdateKeeps ==
  ASSUME InstallInv, NEW s \in Supervisors, NEW r \in Releases, BeginUpdate(s, r)
  PROVE  InstallInv' /\ OutcomeTruthful
<1> USE DEF InstallInv
<1> DEFINE n == CHOOSE m \in Unused : TRUE
           op == Put(n, Partial)
           u == [Serving EXCEPT !.at = "fetching", !.release = r, !.staged = n]
<1>1. /\ lock = {} /\ Unused # {} /\ Do(op) /\ updater' = [updater EXCEPT ![s] = u]
      /\ lock' = {s} /\ before' = Current /\ UNCHANGED <<version, proven>>
  BY DEF BeginUpdate, MayLock
<1>2. n \in Unused
  BY <1>1
<1> HIDE DEF n
<1>3. n \in TempNames /\ n \in Paths /\ n # "install" /\ \A x \in CrashStates : x[n] = NoFile
  BY <1>2, UnusedName
<1>4. op \in Ops /\ DOMAIN op = {n} /\ op[n] = Partial
  BY <1>3, OpsTyped DEF Contents
<1> HIDE DEF op
<1>5. /\ disk' \in Dirs /\ unsynced' \in Seq(Ops)
      /\ \A x \in CrashStates' : x \in CrashStates \/ \E y \in CrashStates : x = Over(y, op)
      /\ Current' = Over(Current, op)
  BY <1>1, <1>4, DoneDirs
<1>6. Current \in CrashStates /\ CrashStates \subseteq Dirs
  BY CurrentPossible
<1>7. ASSUME NEW y, NEW m \in Paths, m # n PROVE Over(y, op)[m] = y[m]
  BY <1>4, <1>7 DEF Over
<1>8. ASSUME NEW x \in CrashStates'
      PROVE  \E y \in CrashStates : \A m \in Paths : m # n => x[m] = y[m]
  BY <1>5, <1>7
<1>9. /\ u \in Updaters /\ u.at = "fetching" /\ u.release = r /\ u.staged = n /\ u.rollback = "install"
  BY <1>3, AtRest DEF Serving, Updaters, Steps
<1> HIDE DEF u
<1>10. /\ updater' \in [Supervisors -> Updaters] /\ updater'[s] = u
       /\ \A t \in Supervisors : t # s => updater'[t] = updater[t]
  BY <1>1, <1>9 DEF InstallTypes
<1>11. InstallTypes'
  BY <1>1, <1>5, <1>6, <1>10 DEF InstallTypes
<1>12. WholeRelease'
  BY <1>3, <1>8, AtRest DEF WholeRelease
<1>13. NamesInv(updater[s])' /\ FilesInv(updater[s])'
  BY <1>3, <1>9, <1>10 DEF NamesInv, FilesInv
<1>14. \A m \in Paths : m # n => Current'[m] = Current[m]
  BY <1>5, <1>7
<1>15. TempNames \subseteq Paths
  BY DEF Paths
<1>16. TraceInv(updater[s])'
  BY <1>1, <1>3, <1>6, <1>9, <1>10, <1>14, <1>15, AtRest DEF TraceInv
<1>17. PICK m \in Paths : KeptAt(m)
  BY DEF ProvenKept
<1>18. PICK k \in Paths : k # n /\ \A x \in CrashStates : x["install"] = proven \/ x[k] = proven
  <2>1. proven # NoFile
    BY UpdateAssumption DEF InstallTypes, NoFile
  <2>2. CASE m = n
    BY <1>3, <1>17, <2>1, <2>2, AtRest DEF KeptAt
  <2>3. CASE m # n
    BY <1>17, <2>3 DEF KeptAt
  <2> QED
    BY <2>2, <2>3
<1>19. KeptAt(k)'
  <2>1. \A x \in CrashStates' : x["install"] = proven' \/ x[k] = proven'
    BY <1>1, <1>3, <1>8, <1>18, AtRest
  <2> QED
    BY <1>1, <1>9, <1>10, <1>18, <2>1 DEF KeptAt
<1>20. InstallInv'
  BY <1>1, <1>9, <1>10, <1>11, <1>12, <1>13, <1>16, <1>18, <1>19, UpdateMoved
<1>21. OutcomeTruthful
  BY <1>1, NoOutcome
<1> QED
  BY <1>20, <1>21

\* What holds while a supervisor updates.
LEMMA WhileUpdating ==
  ASSUME InstallInv, NEW s \in Supervisors, updater[s].at \notin {"serving", "down"}
  PROVE  /\ lock = {s} /\ updater[s] \in Updaters
         /\ NamesInv(updater[s]) /\ FilesInv(updater[s]) /\ TraceInv(updater[s])
         /\ Current \in CrashStates /\ CrashStates \subseteq Dirs
         /\ updater[s].staged \in TempNames /\ updater[s].staged \in Paths
         /\ updater[s].staged # "install" /\ updater[s].rollback \in Paths
<1> USE DEF InstallInv
<1>1. lock = {s}
  BY UpdaterAlone
<1>2. updater[s] \in Updaters
  BY DEF InstallTypes
<1>3. NamesInv(updater[s]) /\ FilesInv(updater[s]) /\ TraceInv(updater[s])
  BY <1>1 DEF UpdateInv
<1>4. /\ updater[s].staged \in TempNames /\ updater[s].staged \in Paths
      /\ updater[s].staged # "install" /\ updater[s].rollback \in Paths
  BY <1>2, <1>3, UpdateAssumption DEF NamesInv, Updaters, Paths
<1> QED
  BY <1>1, <1>2, <1>3, <1>4, CurrentPossible

\* The fetched release is synced whole under the staged name.
LEMMA FetchedKeeps ==
  ASSUME InstallInv, NEW s \in Supervisors, Fetched(s)
  PROVE  InstallInv' /\ OutcomeTruthful
<1> USE DEF InstallInv
<1> DEFINE u == updater[s]
           d == [Current EXCEPT ![u.staged] = u.release]
<1>1. /\ u.at = "fetching" /\ To(s, "staged") /\ disk' = d /\ unsynced' = <<>>
      /\ UNCHANGED <<lock, version, proven, before>>
  BY DEF Fetched, At
<1>2. /\ lock = {s} /\ NamesInv(u) /\ TraceInv(u) /\ u \in Updaters
      /\ Current \in CrashStates /\ CrashStates \subseteq Dirs
      /\ u.staged \in TempNames /\ u.staged \in Paths /\ u.staged # "install"
  BY <1>1, WhileUpdating
<1>3. u.release \in Releases /\ u.release \in Contents /\ u.rollback = "install"
  BY <1>1, <1>2 DEF NamesInv, Contents
<1>4. /\ updater' \in [Supervisors -> Updaters] /\ updater'[s].at = "staged"
      /\ updater'[s].release = u.release /\ updater'[s].staged = u.staged
      /\ updater'[s].rollback = u.rollback
      /\ \A t \in Supervisors : t # s => updater'[t] = updater[t]
  BY <1>1, StepOf DEF Steps
<1>5. d \in Dirs /\ d[u.staged] = u.release /\ \A m \in Paths : m # u.staged => d[m] = Current[m]
  BY <1>2, <1>3 DEF Dirs
<1> HIDE DEF d
<1>6. disk' \in Dirs /\ unsynced' \in Seq(Ops) /\ CrashStates' = {d} /\ Current' = d
  BY <1>1, <1>5, SyncedDirs
<1>7. InstallTypes'
  BY <1>1, <1>4, <1>6 DEF InstallTypes
<1>8. WholeRelease'
  BY <1>2, <1>5, <1>6, AtRest DEF WholeRelease
<1>9. NamesInv(updater[s])'
  BY <1>2, <1>3, <1>4 DEF NamesInv
<1>10. FilesInv(updater[s])'
  BY <1>4, <1>5, <1>6 DEF FilesInv, UpdateSettled
<1>11. TempNames \subseteq Paths
  BY DEF Paths
<1>12. TraceInv(updater[s])'
  BY <1>1, <1>2, <1>4, <1>5, <1>6, <1>11, AtRest DEF TraceInv
<1>13. PICK m \in Paths : KeptAt(m)
  BY DEF ProvenKept
<1>14. KeptAt(m)'
  BY <1>1, <1>2, <1>4, <1>5, <1>6, <1>13, AtRest DEF KeptAt
<1> QED
  BY <1>1, <1>2, <1>4, <1>7, <1>8, <1>9, <1>10, <1>12, <1>14, UpdateMoved

\* The end of an update before the swap: its files are removed, as far as that
\* succeeds.
LEMMA ClearedDirs ==
  ASSUME InstallInv, NEW s \in Supervisors, Cleared(s),
         updater[s].at \in {"fetching", "staged", "linked", "retained"}
  PROVE  /\ disk' \in Dirs /\ unsynced' \in Seq(Ops)
         /\ \A x \in CrashStates' : \E y \in CrashStates :
              \A m \in Paths \ Leftovers(s) : x[m] = y[m]
         /\ ~faulted' => \A m \in Paths : Current'[m] = IF m \in Leftovers(s) THEN NoFile ELSE Current[m]
<1> USE DEF InstallInv
<1> DEFINE a == updater[s].rollback
           b == updater[s].staged
<1>1. a \in Paths /\ b \in Paths
  BY WhileUpdating
<1>2. PICK gone \in SUBSET Leftovers(s) :
        /\ unsynced' = Removed(Removed(unsynced, a, gone), b, gone)
        /\ UNCHANGED disk
        /\ IF gone = Leftovers(s) THEN NoFault ELSE Fault
  BY DEF Cleared
<1>3. ~faulted' => gone = Leftovers(s)
  BY <1>2 DEF Fault
<1>4. /\ CrashStates = CrashSet(disk, unsynced) /\ Current = LatestDir(disk, unsynced)
      /\ CrashStates' = CrashSet(disk, unsynced') /\ Current' = LatestDir(disk, unsynced')
  BY <1>2 DEF CrashStates, Current, CrashSet, LatestDir
<1>5. disk \in Dirs /\ unsynced \in Seq(Ops)
  BY DEF InstallTypes
<1> DEFINE mid == Removed(unsynced, a, gone)
<1>6. Leftovers(s) \subseteq {a, b}
  BY DEF Leftovers
<1> HIDE DEF a, b
<1>8. unsynced' = Removed(mid, b, gone) /\ mid = Removed(unsynced, a, gone)
  BY <1>2
<1> HIDE DEF mid
<1>7. Differs(disk, unsynced, mid, a, gone)
  BY <1>1, <1>5, <1>8, RemovedDirs
<1>9. Differs(disk, mid, unsynced', b, gone)
  <2>1. mid \in Seq(Ops)
    BY <1>7 DEF Differs
  <2> QED
    BY <1>1, <1>8, <2>1, RemovedDirs
<1>10. ASSUME NEW x \in CrashStates'
       PROVE  \E y \in CrashStates : \A m \in Paths \ Leftovers(s) : x[m] = y[m]
  <2>1. PICK z \in CrashSet(disk, mid) : \A m \in Paths : (m # b \/ b \notin gone) => x[m] = z[m]
    BY <1>4, <1>9 DEF Differs
  <2>2. PICK y \in CrashStates : \A m \in Paths : (m # a \/ a \notin gone) => z[m] = y[m]
    BY <1>4, <1>7 DEF Differs
  <2>3. ASSUME NEW m \in Paths \ Leftovers(s) PROVE x[m] = y[m]
    <3>1. m \notin gone
      BY <1>2
    <3> QED
      BY <2>1, <2>2, <3>1
  <2> QED
    BY <2>3
<1>11. ASSUME ~faulted', NEW m \in Paths
       PROVE  Current'[m] = IF m \in Leftovers(s) THEN NoFile ELSE Current[m]
  BY <1>3, <1>4, <1>6, <1>7, <1>9, <1>11 DEF Differs
<1> QED
  BY <1>2, <1>5, <1>9, <1>10, <1>11 DEF Differs

\* The release that works survives the removal of an update's files.
LEMMA ClearedKeeps ==
  ASSUME InstallInv, NEW s \in Supervisors, Cleared(s), UNCHANGED proven,
         updater[s].at \in {"fetching", "staged", "linked", "retained"}
  PROVE  WholeRelease' /\ \E n \in Paths : \A x \in CrashStates' : x["install"] = proven \/ x[n] = proven
<1> USE DEF InstallInv
<1>1. \A x \in CrashStates' : \E y \in CrashStates : \A m \in Paths \ Leftovers(s) : x[m] = y[m]
  BY ClearedDirs
<1>2. "install" \in Paths \ Leftovers(s)
  BY AtRest DEF Leftovers
<1>3. WholeRelease'
  BY <1>1, <1>2 DEF WholeRelease
<1>4. PICK n \in Paths : KeptAt(n)
  BY DEF ProvenKept
<1>5. lock = {s} /\ NamesInv(updater[s])
  BY WhileUpdating
<1>6. n \notin Leftovers(s)
  BY <1>4, <1>5 DEF KeptAt, NamesInv, Leftovers
<1>7. \A x \in CrashStates' : x["install"] = proven \/ x[n] = proven
  BY <1>1, <1>2, <1>4, <1>6 DEF KeptAt
<1> QED
  BY <1>3, <1>7

\* The end of an update frees the lock and leaves nobody updating.
LEMMA EndsTyped ==
  ASSUME InstallTypes, UpdatesLocked, NEW s \in Supervisors, lock = {s}, Ends(s)
  PROVE  /\ lock' = {} /\ updater' \in [Supervisors -> Updaters] /\ before' \in Dirs
         /\ \A t \in Supervisors : updater'[t].at \in {"serving", "down"}
<1>1. lock' = {} /\ updater' = [updater EXCEPT ![s] = Serving] /\ before' = EmptyDir
  BY DEF Ends
<1>2. updater' \in [Supervisors -> Updaters] /\ updater'[s] = Serving
      /\ \A t \in Supervisors : t # s => updater'[t] = updater[t]
  BY <1>1, AtRest DEF InstallTypes
<1>3. \A t \in Supervisors : t # s => updater[t].at \in {"serving", "down"}
  BY DEF UpdatesLocked
<1> QED
  BY <1>1, <1>2, <1>3, AtRest

\* The outcome of an update is that of the one that ran.
LEMMA OutcomeOf ==
  ASSUME UpdatesLocked, NEW s \in Supervisors, lock = {s},
         updater[s].at = "ready" =>
             /\ proven = updater[s].release
             /\ \A d \in CrashStates' : d["install"] = updater[s].release,
         updater[s].at # "ready" /\ ~faulted' =>
             /\ Current' = before
             /\ updater[s].at = "activated" => CrashStates' = {before}
  PROVE  OutcomeTruthful
<1>1. ASSUME NEW t \in Supervisors, t # s PROVE updater[t].at \in {"serving", "down"}
  BY <1>1 DEF UpdatesLocked
<1> SUFFICES ASSUME NEW t \in Supervisors
             PROVE  LET ended == updater'[t].at = "serving"
                        rejected == ended /\ At(t, {"fetching", "staged", "linked", "retained",
                                                    "swapped", "activated"})
                    IN /\ ended /\ At(t, {"ready"}) =>
                             /\ proven = updater[t].release
                             /\ \A d \in CrashStates' : d["install"] = updater[t].release
                       /\ rejected /\ ~faulted' =>
                             /\ Current' = before
                             /\ At(t, {"activated"}) => CrashStates' = {before}
  BY DEF OutcomeTruthful
<1>2. CASE t = s
  BY <1>2 DEF At
<1>3. CASE t # s
  BY <1>1, <1>3 DEF At
<1> QED
  BY <1>2, <1>3

\* A failed update removes its own files and leaves the installed one.
LEMMA FailsKeeps ==
  ASSUME InstallInv, NEW s \in Supervisors, UpdateFails(s)
  PROVE  InstallInv' /\ OutcomeTruthful
<1> USE DEF InstallInv
<1> DEFINE u == updater[s]
<1>1. /\ u.at \in {"fetching", "staged", "linked", "retained"} /\ Ends(s) /\ Cleared(s)
      /\ UNCHANGED <<version, proven>>
  BY DEF UpdateFails, At
<1>2. /\ lock = {s} /\ NamesInv(u) /\ TraceInv(u) /\ Current \in Dirs /\ before \in Dirs
  BY <1>1, WhileUpdating DEF InstallTypes
<1>3. /\ disk' \in Dirs /\ unsynced' \in Seq(Ops)
      /\ ~faulted' => \A m \in Paths : Current'[m] = IF m \in Leftovers(s) THEN NoFile ELSE Current[m]
  BY <1>1, ClearedDirs
<1>4. WholeRelease' /\ \E n \in Paths : \A x \in CrashStates' : x["install"] = proven \/ x[n] = proven
  BY <1>1, ClearedKeeps
<1>5. /\ lock' = {} /\ updater' \in [Supervisors -> Updaters] /\ before' \in Dirs
      /\ \A t \in Supervisors : updater'[t].at \in {"serving", "down"}
  BY <1>1, <1>2, EndsTyped
<1>6. InstallTypes'
  BY <1>1, <1>3, <1>5 DEF InstallTypes
<1>7. InstallInv'
  BY <1>1, <1>4, <1>5, <1>6, NoUpdate
<1>8. ASSUME ~faulted' PROVE Current' = before
  <2>1. ASSUME NEW m \in Paths PROVE Current'[m] = before[m]
    <3>1. CASE m \in Leftovers(s)
      BY <1>1, <1>2, <1>3, <1>8, <3>1 DEF TraceInv, NamesInv, Leftovers
    <3>2. CASE m \notin Leftovers(s)
      BY <1>1, <1>2, <1>3, <1>8, <3>2 DEF TraceInv, NamesInv, Leftovers, Paths
    <3> QED
      BY <3>1, <3>2
  <2>2. Current' \in Dirs
    BY <1>3, NextPossible
  <2> QED
    BY <1>2, <2>1, <2>2 DEF Dirs
<1>9. OutcomeTruthful
  BY <1>1, <1>2, <1>8, OutcomeOf
<1> QED
  BY <1>7, <1>9

\* One supervisor goes down.
LEMMA DownTyped ==
  ASSUME InstallTypes, NEW s \in Supervisors, updater' = [updater EXCEPT ![s] = Down]
  PROVE  /\ updater' \in [Supervisors -> Updaters] /\ updater'[s].at = "down"
         /\ \A t \in Supervisors : t # s => updater'[t] = updater[t]
  BY AtRest DEF InstallTypes

\* An update that ends with its supervisor removes its own files.
LEMMA InterruptedKeeps ==
  ASSUME InstallInv, NEW s \in Supervisors, Interrupted(s)
  PROVE  InstallInv' /\ OutcomeTruthful
<1> USE DEF InstallInv
<1>1. /\ updater[s].at \in {"fetching", "staged"} /\ lock' = lock \ {s}
      /\ updater' = [updater EXCEPT ![s] = Down] /\ before' = EmptyDir /\ Cleared(s)
      /\ UNCHANGED <<version, proven>>
  BY DEF Interrupted, At
<1>2. lock = {s} /\ \A t \in Supervisors \ {s} : updater[t].at \in {"serving", "down"}
  BY <1>1, UpdaterAlone
<1>3. disk' \in Dirs /\ unsynced' \in Seq(Ops)
  BY <1>1, ClearedDirs
<1>4. WholeRelease' /\ \E n \in Paths : \A x \in CrashStates' : x["install"] = proven \/ x[n] = proven
  BY <1>1, ClearedKeeps
<1>5. /\ updater' \in [Supervisors -> Updaters] /\ updater'[s].at = "down"
      /\ \A t \in Supervisors : t # s => updater'[t] = updater[t]
  BY <1>1, DownTyped
<1>6. InstallTypes'
  BY <1>1, <1>3, <1>5, AtRest DEF InstallTypes
<1>7. lock' = {} /\ \A t \in Supervisors : updater'[t].at \in {"serving", "down"}
  BY <1>1, <1>2, <1>5
<1>8. InstallInv'
  BY <1>1, <1>4, <1>6, <1>7, NoUpdate
<1>9. OutcomeTruthful
  BY <1>2, <1>5, NoOutcome
<1> QED
  BY <1>8, <1>9

\* The link to the installed binary adds a name for it and changes no other.
LEMMA LinkKeeps ==
  ASSUME InstallInv, NEW s \in Supervisors, Link(s)
  PROVE  InstallInv' /\ OutcomeTruthful
<1> USE DEF InstallInv
<1> DEFINE u == updater[s]
           n == CHOOSE m \in Unused : TRUE
           op == Put(n, Current["install"])
<1>1. /\ u.at = "staged" /\ Unused # {} /\ Do(op)
      /\ updater' = [updater EXCEPT ![s].at = "linked", ![s].rollback = n]
      /\ UNCHANGED <<lock, version, proven, before>>
  BY DEF Link, At
<1>2. n \in Unused
  BY <1>1
<1> HIDE DEF n
<1>3. n \in TempNames /\ n \in Paths /\ n # "install" /\ \A x \in CrashStates : x[n] = NoFile
  BY <1>2, UnusedName
<1>4. /\ lock = {s} /\ NamesInv(u) /\ FilesInv(u) /\ TraceInv(u) /\ u \in Updaters
      /\ Current \in CrashStates /\ CrashStates \subseteq Dirs
      /\ u.staged \in TempNames /\ u.staged \in Paths /\ u.staged # "install"
  BY <1>1, WhileUpdating
<1>5. /\ u.release \in Releases /\ u.rollback = "install" /\ Current[u.staged] = u.release
      /\ u.release # NoFile /\ Current["install"] \in Releases
  BY <1>1, <1>4, UpdateAssumption DEF NamesInv, FilesInv, NoFile, WholeRelease
<1>6. u.staged # n
  BY <1>3, <1>4, <1>5
<1>7. op \in Ops /\ DOMAIN op = {n} /\ op[n] = Current["install"]
  BY <1>3, <1>5, OpsTyped DEF Contents
<1> HIDE DEF op
<1>8. /\ disk' \in Dirs /\ unsynced' \in Seq(Ops)
      /\ \A x \in CrashStates' : x \in CrashStates \/ \E y \in CrashStates : x = Over(y, op)
      /\ Current' = Over(Current, op)
  BY <1>1, <1>7, DoneDirs
<1>9. ASSUME NEW y, NEW m \in Paths PROVE Over(y, op)[m] = IF m = n THEN Current["install"] ELSE y[m]
  BY <1>7 DEF Over
<1>10. ASSUME NEW x \in CrashStates'
       PROVE  \E y \in CrashStates : \A m \in Paths : m # n => x[m] = y[m]
  BY <1>8, <1>9
<1>11. \A m \in Paths : Current'[m] = IF m = n THEN Current["install"] ELSE Current[m]
  BY <1>8, <1>9
<1>12. /\ updater' \in [Supervisors -> Updaters] /\ updater'[s].at = "linked"
       /\ updater'[s].release = u.release /\ updater'[s].staged = u.staged
       /\ updater'[s].rollback = n
       /\ \A t \in Supervisors : t # s => updater'[t] = updater[t]
  <2> DEFINE v == [u EXCEPT !.at = "linked", !.rollback = n]
  <2>1. updater' = [updater EXCEPT ![s] = v]
    BY <1>1, <1>4 DEF InstallTypes, Updaters
  <2>2. /\ v \in Updaters /\ v.at = "linked" /\ v.release = u.release /\ v.staged = u.staged
        /\ v.rollback = n
    BY <1>3, <1>4 DEF Updaters, Steps
  <2> HIDE DEF v
  <2>3. /\ updater'[s] = v /\ updater' \in [Supervisors -> Updaters]
        /\ \A t \in Supervisors : t # s => updater'[t] = updater[t]
    BY <2>1, <2>2 DEF InstallTypes
  <2> QED
    BY <2>2, <2>3
<1>13. InstallTypes'
  BY <1>1, <1>8, <1>12 DEF InstallTypes
<1>14. WholeRelease'
  BY <1>3, <1>10, AtRest DEF WholeRelease
<1>15. NamesInv(updater[s])'
  BY <1>3, <1>4, <1>5, <1>6, <1>12 DEF NamesInv
<1>16. FilesInv(updater[s])'
  BY <1>3, <1>4, <1>5, <1>6, <1>11, <1>12, AtRest DEF FilesInv
<1>17. TempNames \subseteq Paths
  BY DEF Paths
<1>18. before[n] = NoFile
  <2>1. Current[n] = NoFile
    BY <1>3, <1>4
  <2> QED
    BY <1>1, <1>3, <1>4, <1>5, <1>6, <2>1 DEF TraceInv
<1>19. TraceInv(updater[s])'
  BY <1>1, <1>3, <1>4, <1>5, <1>6, <1>11, <1>12, <1>17, <1>18, AtRest DEF TraceInv
<1>20. PICK m \in Paths : KeptAt(m)
  BY DEF ProvenKept
<1>21. PICK k \in Paths : /\ k # n /\ k # u.staged
                          /\ \A x \in CrashStates : x["install"] = proven \/ x[k] = proven
  <2>1. proven # NoFile
    BY UpdateAssumption DEF InstallTypes, NoFile
  <2>2. CASE m = n
    BY <1>3, <1>4, <1>20, <2>1, <2>2, AtRest DEF KeptAt
  <2>3. CASE m # n
    BY <1>4, <1>20, <2>3 DEF KeptAt
  <2> QED
    BY <2>2, <2>3
<1>22. KeptAt(k)'
  <2>1. \A x \in CrashStates' : x["install"] = proven' \/ x[k] = proven'
    BY <1>1, <1>3, <1>10, <1>21, AtRest
  <2> QED
    BY <1>1, <1>4, <1>12, <1>21, <2>1 DEF KeptAt
<1> QED
  BY <1>1, <1>4, <1>12, <1>13, <1>14, <1>15, <1>16, <1>19, <1>22, UpdateMoved

\* Once synced, the link holds the installed binary whatever a crash does.
LEMMA RetainKeeps ==
  ASSUME InstallInv, NEW s \in Supervisors, Retain(s)
  PROVE  InstallInv' /\ OutcomeTruthful
<1> USE DEF InstallInv
<1> DEFINE u == updater[s]
<1>1. /\ u.at = "linked" /\ To(s, "retained") /\ disk' = Current /\ unsynced' = <<>>
      /\ UNCHANGED <<lock, version, proven, before>>
  BY DEF Retain, At, Synced
<1>2. /\ lock = {s} /\ NamesInv(u) /\ FilesInv(u) /\ TraceInv(u)
      /\ Current \in CrashStates /\ CrashStates \subseteq Dirs
  BY <1>1, WhileUpdating
<1>3. /\ updater' \in [Supervisors -> Updaters] /\ updater'[s].at = "retained"
      /\ updater'[s].release = u.release /\ updater'[s].staged = u.staged
      /\ updater'[s].rollback = u.rollback
      /\ \A t \in Supervisors : t # s => updater'[t] = updater[t]
  BY <1>1, StepOf DEF Steps
<1>4. disk' \in Dirs /\ unsynced' \in Seq(Ops) /\ CrashStates' = {Current} /\ Current' = Current
  BY <1>1, <1>2, SyncedDirs
<1>5. InstallTypes'
  BY <1>1, <1>3, <1>4 DEF InstallTypes
<1>6. WholeRelease'
  BY <1>2, <1>4 DEF WholeRelease
<1>7. NamesInv(updater[s])' /\ FilesInv(updater[s])' /\ TraceInv(updater[s])'
  BY <1>1, <1>2, <1>3, <1>4 DEF NamesInv, FilesInv, TraceInv, UpdateSettled
<1>8. PICK m \in Paths : KeptAt(m)
  BY DEF ProvenKept
<1>9. KeptAt(m)'
  BY <1>1, <1>2, <1>3, <1>4, <1>8 DEF KeptAt
<1> QED
  BY <1>1, <1>2, <1>3, <1>5, <1>6, <1>7, <1>9, UpdateMoved

\* The swap renames a whole release onto the install path, the old one under its link.
LEMMA SwapKeeps ==
  ASSUME InstallInv, NEW s \in Supervisors, Swap(s)
  PROVE  InstallInv' /\ OutcomeTruthful
<1> USE DEF InstallInv
<1> DEFINE u == updater[s]
           op == Renamed(u.staged, "install")
<1>1. /\ u.at = "retained" /\ To(s, "swapped") /\ Do(op)
      /\ UNCHANGED <<lock, version, proven, before>>
  BY DEF Swap, At
<1>2. /\ lock = {s} /\ NamesInv(u) /\ FilesInv(u) /\ TraceInv(u) /\ u.rollback \in Paths
      /\ Current \in CrashStates /\ CrashStates \subseteq Dirs
      /\ u.staged \in TempNames /\ u.staged \in Paths /\ u.staged # "install"
  BY <1>1, WhileUpdating
<1>3. op \in Ops /\ DOMAIN op = {u.staged, "install"} /\ op["install"] = Current[u.staged]
      /\ op[u.staged] = NoFile
  BY <1>2, OpsTyped
<1> HIDE DEF op
<1>4. /\ u.release \in Releases /\ Current[u.staged] = u.release /\ CrashStates = {Current}
      /\ Current[u.rollback] = Current["install"] /\ Current["install"] \in Releases
      /\ u.rollback \in TempNames /\ u.rollback # u.staged /\ u.rollback # "install"
  BY <1>1, <1>2, UpdateAssumption DEF NamesInv, FilesInv, UpdateSettled, WholeRelease
<1>5. /\ disk' \in Dirs /\ unsynced' \in Seq(Ops)
      /\ \A x \in CrashStates' : x \in CrashStates \/ \E y \in CrashStates : x = Over(y, op)
      /\ Current' = Over(Current, op)
  BY <1>1, <1>3, DoneDirs
<1>6. \A m \in Paths : Over(Current, op)[m] = IF m = "install" THEN u.release
                                               ELSE IF m = u.staged THEN NoFile ELSE Current[m]
  BY <1>2, <1>3, <1>4 DEF Over
<1>7. \A m \in Paths : Current'[m] = IF m = "install" THEN u.release
                                     ELSE IF m = u.staged THEN NoFile ELSE Current[m]
  BY <1>5, <1>6
<1>8. \A x \in CrashStates' : x = Current \/ x = Over(Current, op)
  BY <1>4, <1>5
<1>9. /\ updater' \in [Supervisors -> Updaters] /\ updater'[s].at = "swapped"
      /\ updater'[s].release = u.release /\ updater'[s].staged = u.staged
      /\ updater'[s].rollback = u.rollback
      /\ \A t \in Supervisors : t # s => updater'[t] = updater[t]
  BY <1>1, StepOf DEF Steps
<1>10. InstallTypes'
  BY <1>1, <1>5, <1>9 DEF InstallTypes
<1>11. WholeRelease'
  BY <1>4, <1>6, <1>8, AtRest DEF WholeRelease
<1>12. NamesInv(updater[s])'
  BY <1>2, <1>4, <1>9 DEF NamesInv
<1>13. FilesInv(updater[s])'
  BY <1>2, <1>4, <1>7, <1>9, AtRest DEF FilesInv
<1>14. TempNames \subseteq Paths
  BY DEF Paths
<1>15. TraceInv(updater[s])'
  <2>1. \A n \in TempNames \ {u.staged, u.rollback} : Current'[n] = before[n]
    BY <1>1, <1>2, <1>7, <1>14, UpdateAssumption DEF TraceInv
  <2>2. Current'[u.staged] = NoFile /\ Current'[u.rollback] = before["install"]
    BY <1>1, <1>2, <1>4, <1>7 DEF TraceInv
  <2>3. before[u.staged] = NoFile /\ before[u.rollback] = NoFile
    BY <1>1, <1>2 DEF TraceInv
  <2> QED
    BY <1>1, <1>9, <2>1, <2>2, <2>3 DEF TraceInv
<1>16. PICK m \in Paths : KeptAt(m)
  BY DEF ProvenKept
<1>17. PICK k \in Paths : k \notin {"install", u.staged} /\ Current[k] = proven
  <2>1. m # u.staged /\ (Current["install"] = proven \/ Current[m] = proven)
    BY <1>2, <1>16 DEF KeptAt
  <2>2. CASE Current["install"] = proven
    BY <1>2, <1>4, <2>2
  <2>3. CASE Current["install"] # proven
    BY <2>1, <2>3
  <2> QED
    BY <2>2, <2>3
<1>18. \A x \in CrashStates' : x[k] = proven
  BY <1>6, <1>8, <1>17
<1>19. KeptAt(k)'
  BY <1>1, <1>2, <1>9, <1>17, <1>18 DEF KeptAt
<1> QED
  BY <1>1, <1>2, <1>9, <1>10, <1>11, <1>12, <1>13, <1>15, <1>19, UpdateMoved

\* The synced swap: the new release is installed, the old one still linked.
LEMMA ActivatedKeeps ==
  ASSUME InstallInv, NEW s \in Supervisors, Activated(s)
  PROVE  InstallInv' /\ OutcomeTruthful
<1> USE DEF InstallInv
<1> DEFINE u == updater[s]
<1>1. /\ u.at = "swapped" /\ To(s, "activated") /\ disk' = Current /\ unsynced' = <<>>
      /\ UNCHANGED <<lock, version, proven, before>>
  BY DEF Activated, At, Synced
<1>2. /\ lock = {s} /\ NamesInv(u) /\ FilesInv(u) /\ TraceInv(u)
      /\ Current \in CrashStates /\ CrashStates \subseteq Dirs
  BY <1>1, WhileUpdating
<1>3. /\ updater' \in [Supervisors -> Updaters] /\ updater'[s].at = "activated"
      /\ updater'[s].release = u.release /\ updater'[s].staged = u.staged
      /\ updater'[s].rollback = u.rollback
      /\ \A t \in Supervisors : t # s => updater'[t] = updater[t]
  BY <1>1, StepOf DEF Steps
<1>4. disk' \in Dirs /\ unsynced' \in Seq(Ops) /\ CrashStates' = {Current} /\ Current' = Current
  BY <1>1, <1>2, SyncedDirs
<1>5. InstallTypes'
  BY <1>1, <1>3, <1>4 DEF InstallTypes
<1>6. WholeRelease'
  BY <1>2, <1>4 DEF WholeRelease
<1>7. NamesInv(updater[s])' /\ FilesInv(updater[s])' /\ TraceInv(updater[s])'
  BY <1>1, <1>2, <1>3, <1>4 DEF NamesInv, FilesInv, TraceInv, UpdateSettled
<1>8. PICK m \in Paths : KeptAt(m)
  BY DEF ProvenKept
<1>9. KeptAt(m)'
  BY <1>1, <1>2, <1>3, <1>4, <1>8 DEF KeptAt
<1> QED
  BY <1>1, <1>2, <1>3, <1>5, <1>6, <1>7, <1>9, UpdateMoved

\* The rollback renamed back, in every directory that may be on disk.
LEMMA RenamedBack ==
  ASSUME InstallInv, NEW s \in Supervisors, updater[s].at \in {"swapped", "activated"},
         NEW op, op = Renamed(updater[s].rollback, "install")
  PROVE  /\ op \in Ops
         /\ \A y, m : m \in Paths => Over(y, op)[m] = IF m = "install" THEN Current[updater[s].rollback]
                                      ELSE IF m = updater[s].rollback THEN NoFile ELSE y[m]
         /\ \A y \in CrashStates : Over(y, op)["install"] \in Releases
         /\ \E n \in Paths : \A y \in CrashStates :
              /\ y["install"] = proven \/ y[n] = proven
              /\ Over(y, op)["install"] = proven \/ Over(y, op)[n] = proven
<1> USE DEF InstallInv
<1> DEFINE u == updater[s]
<1>1. /\ lock = {s} /\ NamesInv(u) /\ FilesInv(u) /\ u.rollback \in Paths
      /\ Current \in CrashStates
  BY WhileUpdating
<1>2. u.rollback # "install" /\ Current[u.rollback] \in Releases
  BY <1>1, UpdateAssumption DEF NamesInv, FilesInv
<1>3. op \in Ops /\ DOMAIN op = {u.rollback, "install"} /\ op["install"] = Current[u.rollback]
      /\ op[u.rollback] = NoFile
  BY <1>1, <1>2, OpsTyped
<1>4. ASSUME NEW y, NEW m \in Paths
      PROVE  Over(y, op)[m] = IF m = "install" THEN Current[u.rollback]
                              ELSE IF m = u.rollback THEN NoFile ELSE y[m]
  BY <1>2, <1>3 DEF Over
<1>5. PICK n \in Paths : KeptAt(n)
  BY DEF ProvenKept
<1>6. n # "install" /\ \A x \in CrashStates : x[n] = proven
  BY <1>1, <1>5 DEF KeptAt
<1>7. ASSUME NEW y \in CrashStates
      PROVE  /\ y["install"] = proven \/ y[n] = proven
             /\ Over(y, op)["install"] = proven \/ Over(y, op)[n] = proven
  <2>1. CASE n = u.rollback
    BY <1>1, <1>4, <1>6, <2>1, AtRest
  <2>2. CASE n # u.rollback
    BY <1>4, <1>6, <2>2
  <2> QED
    BY <2>1, <2>2
<1>8. \A y \in CrashStates : Over(y, op)["install"] \in Releases
  BY <1>2, <1>4, AtRest
<1> QED
  BY <1>3, <1>4, <1>7, <1>8

\* A rollback that is not synced, or not done.
LEMMA BackUnsynced ==
  ASSUME InstallInv, NEW s \in Supervisors, updater[s].at \in {"swapped", "activated"},
         Do(Renamed(updater[s].rollback, "install")) \/ UNCHANGED directory,
         Ends(s), UNCHANGED <<version, proven>>
  PROVE  InstallInv'
<1> USE DEF InstallInv
<1> DEFINE op == Renamed(updater[s].rollback, "install")
<1>1. lock = {s}
  BY WhileUpdating
<1>2. /\ op \in Ops /\ \A y \in CrashStates : Over(y, op)["install"] \in Releases
      /\ \E n \in Paths : \A y \in CrashStates :
           /\ y["install"] = proven \/ y[n] = proven
           /\ Over(y, op)["install"] = proven \/ Over(y, op)[n] = proven
  BY RenamedBack
<1>3. PICK n \in Paths : \A y \in CrashStates :
           /\ y["install"] = proven \/ y[n] = proven
           /\ Over(y, op)["install"] = proven \/ Over(y, op)[n] = proven
  BY <1>2
<1>4. Do(op) \/ UNCHANGED directory
  OBVIOUS
<1> HIDE DEF op
<1>5. /\ disk' \in Dirs /\ unsynced' \in Seq(Ops)
      /\ \A x \in CrashStates' : x \in CrashStates \/ \E y \in CrashStates : x = Over(y, op)
  <2>1. CASE Do(op)
    BY <1>2, <2>1, DoneDirs
  <2>2. CASE UNCHANGED directory
    BY <2>2, SameDirs DEF InstallTypes
  <2> QED
    BY <1>4, <2>1, <2>2
<1>6. WholeRelease'
  BY <1>2, <1>5 DEF WholeRelease
<1>7. \A x \in CrashStates' : x["install"] = proven' \/ x[n] = proven'
  BY <1>3, <1>5
<1>8. /\ lock' = {} /\ updater' \in [Supervisors -> Updaters] /\ before' \in Dirs
      /\ \A t \in Supervisors : updater'[t].at \in {"serving", "down"}
  BY <1>1, EndsTyped
<1>9. InstallTypes'
  BY <1>5, <1>8 DEF InstallTypes
<1> QED
  BY <1>6, <1>7, <1>8, <1>9, NoUpdate

\* A swap that could not be synced is undone from the link, or left for a restart.
LEMMA ActivationFailsKeeps ==
  ASSUME InstallInv, NEW s \in Supervisors, ActivationFails(s)
  PROVE  InstallInv' /\ OutcomeTruthful
<1> USE DEF InstallInv
<1>1. /\ updater[s].at = "swapped" /\ faulted' = TRUE
      /\ Do(Renamed(updater[s].rollback, "install")) \/ UNCHANGED directory
      /\ Ends(s) /\ UNCHANGED <<version, proven>>
  BY DEF ActivationFails, At, Fault
<1>2. InstallInv'
  BY <1>1, BackUnsynced
<1>3. lock = {s}
  BY <1>1, WhileUpdating
<1>4. OutcomeTruthful
  BY <1>1, <1>3, OutcomeOf
<1> QED
  BY <1>2, <1>4

\* A replacement that reported ready proves the release that is installed.
LEMMA ReplacedKeeps ==
  ASSUME InstallInv, NEW s \in Supervisors, Replaced(s)
  PROVE  InstallInv' /\ OutcomeTruthful
<1> USE DEF InstallInv
<1> DEFINE u == updater[s]
<1>1. /\ u.at = "activated" /\ To(s, "ready") /\ proven' = Current["install"] /\ UNCHANGED directory
      /\ UNCHANGED <<lock, version, before>>
  BY DEF Replaced, At
<1>2. /\ lock = {s} /\ NamesInv(u) /\ FilesInv(u) /\ TraceInv(u)
      /\ u.staged # "install" /\ Current \in CrashStates
  BY <1>1, WhileUpdating
<1>3. /\ updater' \in [Supervisors -> Updaters] /\ updater'[s].at = "ready"
      /\ updater'[s].release = u.release /\ updater'[s].staged = u.staged
      /\ updater'[s].rollback = u.rollback
      /\ \A t \in Supervisors : t # s => updater'[t] = updater[t]
  BY <1>1, StepOf DEF Steps
<1>4. CrashStates' = CrashStates /\ Current' = Current /\ UNCHANGED <<disk, unsynced>>
  BY <1>1, SameDirs
<1>5. CrashStates = {Current} /\ Current["install"] = u.release /\ u.release \in Releases
  BY <1>1, <1>2 DEF FilesInv, UpdateSettled, NamesInv
<1>6. InstallTypes'
  BY <1>1, <1>3, <1>4, <1>5 DEF InstallTypes
<1>7. WholeRelease'
  BY <1>4 DEF WholeRelease
<1>8. NamesInv(updater[s])' /\ FilesInv(updater[s])' /\ TraceInv(updater[s])'
  BY <1>1, <1>2, <1>3, <1>4, <1>5 DEF NamesInv, FilesInv, TraceInv, UpdateSettled
<1>9. "install" \in Paths /\ KeptAt("install")'
  BY <1>1, <1>2, <1>3, <1>4, <1>5, AtRest DEF KeptAt
<1> QED
  BY <1>1, <1>2, <1>3, <1>6, <1>7, <1>8, <1>9, UpdateMoved

\* The link is removed once the installed release has been proven.
LEMMA DiscardKeeps ==
  ASSUME InstallInv, NEW s \in Supervisors, Discard(s)
  PROVE  InstallInv' /\ OutcomeTruthful
<1> USE DEF InstallInv
<1> DEFINE u == updater[s]
           op == Put(u.rollback, NoFile)
           d == [Current EXCEPT ![u.rollback] = NoFile]
<1>1. /\ u.at = "ready" /\ Ends(s) /\ UNCHANGED proven
      /\ version' = [version EXCEPT ![s] = u.release]
      /\ (disk' = d /\ unsynced' = <<>>) \/ Do(op) \/ UNCHANGED directory
  BY DEF Discard, At
<1>2. /\ lock = {s} /\ NamesInv(u) /\ FilesInv(u) /\ u.rollback \in Paths
      /\ Current \in CrashStates /\ CrashStates \subseteq Dirs
  BY <1>1, WhileUpdating
<1>3. /\ CrashStates = {Current} /\ Current["install"] = u.release /\ u.release \in Releases
      /\ proven = u.release /\ u.rollback # "install"
  BY <1>1, <1>2, UpdateAssumption DEF FilesInv, UpdateSettled, NamesInv
<1>4. op \in Ops /\ DOMAIN op = {u.rollback}
  BY <1>2, OpsTyped DEF Contents
<1>5. d \in Dirs /\ d["install"] = u.release
  BY <1>2, <1>3, AtRest DEF Dirs, Contents
<1>6. \A y : Over(y, op)["install"] = y["install"]
  BY <1>3, <1>4, AtRest DEF Over
<1> HIDE DEF op, d
<1>7. disk' \in Dirs /\ unsynced' \in Seq(Ops) /\ \A x \in CrashStates' : x["install"] = u.release
  <2>1. CASE disk' = d /\ unsynced' = <<>>
    BY <1>5, <2>1, SyncedDirs
  <2>2. CASE Do(op)
    BY <1>3, <1>4, <1>6, <2>2, DoneDirs
  <2>3. CASE UNCHANGED directory
    BY <1>3, <2>3, SameDirs DEF InstallTypes
  <2> QED
    BY <1>1, <2>1, <2>2, <2>3
<1>8. /\ lock' = {} /\ updater' \in [Supervisors -> Updaters] /\ before' \in Dirs
      /\ \A t \in Supervisors : updater'[t].at \in {"serving", "down"}
  BY <1>1, <1>2, EndsTyped
<1>9. version' \in [Supervisors -> Releases]
  BY <1>1, <1>3 DEF InstallTypes
<1>10. InstallTypes'
  BY <1>1, <1>7, <1>8, <1>9 DEF InstallTypes
<1>11. WholeRelease'
  BY <1>3, <1>7 DEF WholeRelease
<1>12. InstallInv'
  BY <1>1, <1>3, <1>7, <1>8, <1>10, <1>11, NoUpdate, AtRest
<1>13. OutcomeTruthful
  BY <1>1, <1>2, <1>3, <1>7, OutcomeOf
<1> QED
  BY <1>12, <1>13

\* A replacement that failed puts the old binary back from its link.
LEMMA RestoreKeeps ==
  ASSUME InstallInv, NEW s \in Supervisors, Restore(s)
  PROVE  InstallInv' /\ OutcomeTruthful
<1> USE DEF InstallInv
<1> DEFINE u == updater[s]
           op == Renamed(u.rollback, "install")
           d == [n \in Paths |-> IF n \in DOMAIN op THEN op[n] ELSE Current[n]]
<1>1. /\ u.at = "activated" /\ Ends(s) /\ UNCHANGED <<version, proven>>
      /\ \/ disk' = d /\ unsynced' = <<>>
         \/ (Do(op) \/ UNCHANGED directory) /\ faulted' = TRUE
  BY DEF Restore, At, Fault
<1>2. /\ lock = {s} /\ NamesInv(u) /\ FilesInv(u) /\ TraceInv(u) /\ u.rollback \in Paths
      /\ Current \in CrashStates /\ CrashStates \subseteq Dirs
      /\ u.staged \in TempNames /\ u.staged \in Paths /\ u.staged # "install"
  BY <1>1, WhileUpdating
<1>3. CASE (Do(op) \/ UNCHANGED directory) /\ faulted' = TRUE
  <2>1. InstallInv'
    BY <1>1, <1>3, BackUnsynced
  <2>2. OutcomeTruthful
    BY <1>1, <1>2, <1>3, OutcomeOf
  <2> QED
    BY <2>1, <2>2
<1>4. CASE disk' = d /\ unsynced' = <<>>
  <2>1. /\ \A m \in Paths : Over(Current, op)[m] = IF m = "install" THEN Current[u.rollback]
                                     ELSE IF m = u.rollback THEN NoFile ELSE Current[m]
        /\ Over(Current, op)["install"] \in Releases
        /\ \E n \in Paths : Over(Current, op)["install"] = proven \/ Over(Current, op)[n] = proven
    BY <1>1, <1>2, RenamedBack
  <2>2. d = Over(Current, op)
    BY DEF Over
  <2>3. before \in Dirs /\ \A m \in Paths : m \in TempNames \/ m = "install"
    BY DEF InstallTypes, Paths
  <2>4. \A m \in Paths : d[m] = before[m]
    <3>1. /\ before[u.staged] = NoFile /\ before[u.rollback] = NoFile
          /\ Current[u.staged] = NoFile /\ Current[u.rollback] = before["install"]
          /\ \A m \in TempNames \ {u.staged, u.rollback} : Current[m] = before[m]
      BY <1>1, <1>2 DEF TraceInv
    <3> HIDE DEF d, op
    <3> QED
      BY <2>1, <2>2, <2>3, <3>1
  <2>5. d = before
    BY <2>3, <2>4 DEF Dirs
  <2> HIDE DEF d, op
  <2>6. disk' \in Dirs /\ unsynced' \in Seq(Ops) /\ CrashStates' = {d} /\ Current' = d
    BY <1>4, <2>3, <2>5, SyncedDirs
  <2>7. /\ lock' = {} /\ updater' \in [Supervisors -> Updaters] /\ before' \in Dirs
        /\ \A t \in Supervisors : updater'[t].at \in {"serving", "down"}
    BY <1>1, <1>2, EndsTyped
  <2>8. InstallTypes'
    BY <1>1, <2>6, <2>7 DEF InstallTypes
  <2>9. WholeRelease' /\ \E n \in Paths : \A x \in CrashStates' : x["install"] = proven' \/ x[n] = proven'
    BY <1>1, <2>1, <2>2, <2>6 DEF WholeRelease
  <2>10. InstallInv'
    BY <2>7, <2>8, <2>9, NoUpdate
  <2>11. OutcomeTruthful
    BY <1>1, <1>2, <2>5, <2>6, OutcomeOf
  <2> QED
    BY <2>10, <2>11
<1> QED
  BY <1>1, <1>3, <1>4

(* Outages *)

\* The kernel may write operations back at any time.
LEMMA WriteBackKeeps ==
  ASSUME InstallInv, WriteBack PROVE InstallInv' /\ OutcomeTruthful
<1> USE DEF InstallInv
<1>1. disk' = Current /\ unsynced' = <<>> /\ UNCHANGED <<lock, updater, version, proven, before>>
  BY DEF WriteBack, Synced
<1>2. Current \in CrashStates /\ CrashStates \subseteq Dirs
  BY CurrentPossible
<1>3. disk' \in Dirs /\ unsynced' \in Seq(Ops) /\ CrashStates' = {Current} /\ Current' = Current
  BY <1>1, <1>2, SyncedDirs
<1>4. InstallTypes' /\ UpdatesLocked' /\ WholeRelease'
  BY <1>1, <1>2, <1>3 DEF InstallTypes, UpdatesLocked, WholeRelease
<1>5. UpdateInv'
  BY <1>1, <1>3 DEF UpdateInv, NamesInv, FilesInv, TraceInv, UpdateSettled
<1>6. PICK m \in Paths : KeptAt(m)
  BY DEF ProvenKept
<1>7. KeptAt(m)'
  BY <1>1, <1>2, <1>3, <1>6 DEF KeptAt
<1>8. \A t \in lock : updater'[t].at # "serving"
  BY <1>1 DEF UpdatesLocked, InstallTypes
<1> QED
  BY <1>4, <1>5, <1>7, <1>8, NoOutcome DEF ProvenKept

\* A killed supervisor leaves its files and frees its lock.
LEMMA KilledKeeps ==
  ASSUME InstallInv, NEW s \in Supervisors, Killed(s) PROVE InstallInv' /\ OutcomeTruthful
<1> USE DEF InstallInv
<1>1. /\ lock' = lock \ {s} /\ updater' = [updater EXCEPT ![s] = Down]
      /\ before' = (IF lock' = {} THEN EmptyDir ELSE before)
      /\ UNCHANGED directory /\ UNCHANGED <<version, proven>>
  BY DEF Killed
<1>2. CrashStates' = CrashStates /\ Current' = Current /\ UNCHANGED <<disk, unsynced>>
  BY <1>1, SameDirs
<1>3. /\ updater' \in [Supervisors -> Updaters] /\ updater'[s].at = "down"
      /\ \A t \in Supervisors : t # s => updater'[t] = updater[t]
  BY <1>1, DownTyped
<1>4. InstallTypes'
  BY <1>1, <1>2, <1>3, AtRest DEF InstallTypes
<1>5. UpdatesLocked'
  BY <1>1, <1>3 DEF UpdatesLocked, InstallTypes
<1>6. WholeRelease'
  BY <1>2 DEF WholeRelease
<1>7. UpdateInv'
  <2> SUFFICES ASSUME NEW t \in lock'
               PROVE  NamesInv(updater'[t]) /\ FilesInv(updater[t])' /\ TraceInv(updater[t])'
    BY DEF UpdateInv, NamesInv
  <2>1. t \in lock /\ t # s /\ updater'[t] = updater[t] /\ UNCHANGED before
    BY <1>1, <1>3 DEF InstallTypes
  <2> QED
    BY <1>1, <1>2, <2>1 DEF UpdateInv, NamesInv, FilesInv, TraceInv, UpdateSettled
<1>8. PICK m \in Paths : KeptAt(m)
  BY DEF ProvenKept
<1>9. KeptAt(m)'
  BY <1>1, <1>2, <1>3, <1>8 DEF KeptAt, InstallTypes
<1>10. \A t \in lock : updater'[t].at # "serving"
  BY <1>3 DEF UpdatesLocked, InstallTypes
<1> QED
  BY <1>4, <1>5, <1>6, <1>7, <1>9, <1>10, NoOutcome DEF ProvenKept

\* A machine failure leaves one of the possible crash states, and nobody running.
LEMMA MachineFailsKeeps ==
  ASSUME InstallInv, MachineFails PROVE InstallInv' /\ OutcomeTruthful
<1> USE DEF InstallInv
<1>1. /\ disk' \in CrashStates /\ unsynced' = <<>> /\ lock' = {} /\ before' = EmptyDir
      /\ updater' = [s \in Supervisors |-> Down] /\ UNCHANGED <<version, proven>>
  BY DEF MachineFails
<1>2. CrashStates \subseteq Dirs
  BY CurrentPossible
<1>3. disk' \in Dirs /\ unsynced' \in Seq(Ops) /\ CrashStates' = {disk'}
  BY <1>1, <1>2, SyncedDirs
<1>4. /\ updater' \in [Supervisors -> Updaters]
      /\ \A t \in Supervisors : updater'[t].at \in {"serving", "down"} /\ updater'[t].at # "serving"
  BY <1>1, AtRest
<1>5. InstallTypes'
  BY <1>1, <1>3, <1>4, AtRest DEF InstallTypes
<1>6. WholeRelease'
  BY <1>1, <1>3 DEF WholeRelease
<1>7. PICK m \in Paths : KeptAt(m)
  BY DEF ProvenKept
<1>8. \A x \in CrashStates' : x["install"] = proven' \/ x[m] = proven'
  BY <1>1, <1>3, <1>7 DEF KeptAt
<1>9. InstallInv'
  BY <1>1, <1>4, <1>5, <1>6, <1>8, NoUpdate
<1>10. OutcomeTruthful
  BY <1>4, NoOutcome DEF InstallTypes
<1> QED
  BY <1>9, <1>10

\* A restarted supervisor runs what is installed, which is a whole release.
LEMMA StartedKeeps ==
  ASSUME InstallInv, NEW s \in Supervisors, Started(s) PROVE InstallInv' /\ OutcomeTruthful
<1> USE DEF InstallInv
<1>1. /\ updater[s].at = "down" /\ Current["install"] \in Releases /\ To(s, "serving")
      /\ version' = [version EXCEPT ![s] = Current["install"]]
      /\ UNCHANGED directory /\ UNCHANGED <<lock, proven, before>>
  BY DEF Started, At
<1>2. CrashStates' = CrashStates /\ Current' = Current /\ UNCHANGED <<disk, unsynced>>
  BY <1>1, SameDirs
<1>3. /\ updater' \in [Supervisors -> Updaters] /\ updater'[s].at = "serving"
      /\ \A t \in Supervisors : t # s => updater'[t] = updater[t]
  BY <1>1, StepOf DEF Steps
<1>4. s \notin lock
  BY <1>1 DEF UpdatesLocked
<1>5. InstallTypes'
  BY <1>1, <1>2, <1>3 DEF InstallTypes
<1>6. UpdatesLocked' /\ WholeRelease'
  BY <1>1, <1>2, <1>3, <1>4 DEF UpdatesLocked, WholeRelease, InstallTypes
<1>7. \A t \in lock : updater'[t] = updater[t]
  BY <1>3, <1>4 DEF InstallTypes
<1>8. UpdateInv'
  BY <1>1, <1>2, <1>7 DEF UpdateInv, NamesInv, FilesInv, TraceInv, UpdateSettled
<1>9. PICK m \in Paths : KeptAt(m)
  BY DEF ProvenKept
<1>10. KeptAt(m)'
  BY <1>1, <1>2, <1>7, <1>9 DEF KeptAt
<1>11. \A t \in lock : updater'[t].at # "serving"
  BY <1>7 DEF UpdatesLocked, InstallTypes
<1> QED
  BY <1>5, <1>6, <1>8, <1>10, <1>11, NoOutcome DEF ProvenKept

\* The invariant holds at first.
LEMMA InstallStarts == InstallInit => InstallInv
<1> SUFFICES ASSUME InstallInit PROVE InstallInv
  OBVIOUS
<1> USE DEF InstallInit
<1>1. disk \in Dirs /\ disk["install"] = FirstInstalled
  BY UpdateAssumption, AtRest DEF Dirs, Contents
<1>2. CrashStates = {disk}
  <2>1. CrashStates = CrashSet(disk, <<>>)
    BY DEF CrashStates, CrashSet
  <2> QED
    BY <1>1, <2>1, CrashNone
<1>3. InstallTypes
  BY <1>1, AtRest, UpdateAssumption DEF InstallTypes
<1>4. UpdatesLocked /\ UpdateInv
  BY AtRest DEF UpdatesLocked, UpdateInv
<1>5. WholeRelease
  BY <1>1, <1>2, UpdateAssumption DEF WholeRelease
<1>6. KeptAt("install")
  BY <1>1, <1>2 DEF KeptAt
<1> QED
  BY <1>3, <1>4, <1>5, <1>6, AtRest DEF InstallInv, ProvenKept

\* Every step keeps the invariant and reports the truth.
LEMMA InstallStepKeeps ==
  ASSUME InstallInv, InstallNext PROVE InstallInv' /\ OutcomeTruthful
<1>1. CASE WriteBack
  BY <1>1, WriteBackKeeps
<1>2. CASE MachineFails
  BY <1>2, MachineFailsKeeps
<1>3. ASSUME NEW s \in Supervisors, NEW r \in Releases, BeginUpdate(s, r)
      PROVE  InstallInv' /\ OutcomeTruthful
  BY <1>3, BeginUpdateKeeps
<1>4. ASSUME NEW s \in Supervisors,
             \/ Fetched(s) \/ UpdateFails(s) \/ Interrupted(s)
             \/ Link(s) \/ Retain(s) \/ Swap(s) \/ Activated(s) \/ ActivationFails(s)
             \/ Replaced(s) \/ Discard(s) \/ Restore(s)
             \/ Killed(s) \/ Started(s)
      PROVE  InstallInv' /\ OutcomeTruthful
  BY <1>4, FetchedKeeps, FailsKeeps, InterruptedKeeps, LinkKeeps, RetainKeeps, SwapKeeps,
     ActivatedKeeps, ActivationFailsKeeps, ReplacedKeeps, DiscardKeeps, RestoreKeeps, KilledKeeps,
     StartedKeeps
<1> QED
  BY <1>1, <1>2, <1>3, <1>4 DEF InstallNext

\* So does no step.
LEMMA InstallStutters == ASSUME InstallInv, UNCHANGED installVars PROVE InstallInv'
<1> USE DEF InstallInv, installVars
<1>1. UNCHANGED directory
  BY DEF directory
<1>2. CrashStates' = CrashStates /\ Current' = Current
  BY <1>1, SameDirs
<1>3. InstallTypes' /\ UpdatesLocked' /\ WholeRelease'
  BY <1>2 DEF InstallTypes, UpdatesLocked, WholeRelease
<1>4. UpdateInv'
  BY <1>2 DEF UpdateInv, NamesInv, FilesInv, TraceInv, UpdateSettled
<1>5. ProvenKept'
  BY <1>2 DEF ProvenKept, KeptAt
<1> QED
  BY <1>3, <1>4, <1>5

\* What a reader of the directory is promised.
LEMMA InstallPromises == InstallInv => InstallTypeOK /\ BinaryKept
<1> SUFFICES ASSUME InstallInv PROVE InstallTypeOK /\ BinaryKept
  OBVIOUS
<1> USE DEF InstallInv
<1>1. InstallTypeOK
  BY DEF InstallTypeOK, InstallTypes, Dirs, Ops, Updaters
<1>2. BinaryKept
  BY AtRest DEF BinaryKept, WholeRelease, ProvenKept, KeptAt
<1> QED
  BY <1>1, <1>2

\* An update never costs the instance its binary, and reports what the disk
\* holds: for any number of supervisors, releases and temporary names, and any
\* storage faults, kills and machine failures (update.rs).
THEOREM InstallTruthfulAlways == InstallSpec => InstallTruthful
<1>1. InstallInit => InstallInv
  BY InstallStarts
<1>2. InstallInv /\ [InstallNext]_installVars => InstallInv'
  BY InstallStepKeeps, InstallStutters
<1>3. InstallInv => InstallTypeOK /\ BinaryKept
  BY InstallPromises
<1>4. InstallInv /\ [InstallNext]_installVars => [OutcomeTruthful]_installVars
  BY InstallStepKeeps
<1> QED
  BY <1>1, <1>2, <1>3, <1>4, PTL DEF InstallSpec, InstallTruthful

-----------------------------------------------------------------------------
(* The Kubernetes controller *)

MessageTypes == {"upsert", "delete", "alive", "tick", "expired"}
Messages == [kind : Resources, type : MessageTypes, object : Objects \cup {NoObject}]
IsChange(m) == m.type \in {"upsert", "delete"}

KubeTypes ==
  /\ api \in [Resources -> Seq(SUBSET Objects)]
  /\ kept \in [Resources -> Nat] /\ listed \in [Resources -> Nat]
  /\ resume \in [Resources -> Nat] /\ stream \in [Resources -> Nat]
  /\ \A k \in Resources : /\ kept[k] \in 1..Latest(k) /\ listed[k] <= Latest(k)
                          /\ resume[k] <= Latest(k) /\ stream[k] <= Latest(k)
  /\ cache \in [Resources -> SUBSET Objects] /\ channel \in Seq(Messages)

\* The API server changes one object at a time.
Toggled(a, o) == IF o \in a THEN a \ {o} ELSE a \cup {o}
OneAtATime ==
  \A k \in Resources : \A v \in 1..(Latest(k) - 1) :
    \E o \in Objects : api[k][v + 1] = Toggled(api[k][v], o)

\* Where the loop is, there are watchers or none; a loop that lists has no cache,
\* or one it knows to be incomplete.
LoopInv ==
  /\ stage \in {"pause", "list"} => stream = Zero /\ (has => missed # {})
  /\ stage \in {"publish", "watch"} => has
  /\ has => \A k \in Resources : resume[k] >= 1
  /\ stage = "watch" => \A k \in Resources : stream[k] >= 1
  /\ stream = Zero => channel = <<>>
  /\ stream # Zero => \A k \in Resources : stream[k] >= 1
  /\ stage = "publish" /\ stream = Zero /\ missed = {} =>
       \A k \in Resources : cache[k] = api[k][resume[k]]

\* The changes of k in a channel, from position i on.
Waiting(k, i, ch) == {j \in i..Len(ch) : ch[j].kind = k /\ IsChange(ch[j])}
\* The version a watcher at v had read when it sent what is at position i.
SentAt(k, i, ch, v) == v - Cardinality(Waiting(k, i, ch))

\* A channel holds the changes that its watchers have read last, in order.
ChannelInv ==
  \A i \in DOMAIN channel : IsChange(channel[i]) =>
    LET k == channel[i].kind
        v == SentAt(k, i, channel, stream[k])
    IN v \in 1..(Latest(k) - 1) /\ channel[i] = Change(k, v)

\* The cache is what the API server held before the changes still to be read.
CacheInv ==
  stream # Zero => \A k \in Resources :
    LET v == SentAt(k, 1, channel, stream[k])
    IN v \in 1..Latest(k) /\ (missed = {} => cache[k] = api[k][v])

\* What the controller says, and what it has done, when it waits.
WordInv ==
  /\ failed \in BOOLEAN /\ reported \in BOOLEAN /\ ready \in BOOLEAN
  /\ ready => reported
  /\ stage = "watch" /\ ~failed => published = cache
  /\ stage = "watch" /\ reported => ~failed

ViewInv == KubeTypes /\ OneAtATime /\ LoopInv /\ ChannelInv /\ CacheInv
KubeInv == ViewInv /\ WordInv

(* Counting what waits in the channel *)

\* What waits is finite.
LEMMA WaitingFinite ==
  ASSUME NEW ch, Len(ch) \in Nat, NEW k, NEW i \in Nat
  PROVE  IsFiniteSet(Waiting(k, i, ch)) /\ Cardinality(Waiting(k, i, ch)) \in Nat
<1>1. IsFiniteSet(i..Len(ch))
  BY FS_Interval
<1>2. Waiting(k, i, ch) \in SUBSET (i..Len(ch))
  BY DEF Waiting
<1>3. IsFiniteSet(Waiting(k, i, ch))
  BY <1>1, <1>2, FS_Subset
<1> QED
  BY <1>3, FS_CardinalityType

\* A message that is sent waits if it is a change of the kind.
LEMMA WaitingSent ==
  ASSUME NEW ch \in Seq(Messages), NEW m \in Messages, NEW k, NEW i \in 1..(Len(ch) + 1)
  PROVE  Cardinality(Waiting(k, i, Append(ch, m))) =
           Cardinality(Waiting(k, i, ch)) + IF m.kind = k /\ IsChange(m) THEN 1 ELSE 0
<1> DEFINE W == Waiting(k, i, ch)
           n == Len(ch) + 1
<1>1. Append(ch, m) \in Seq(Messages) /\ Len(Append(ch, m)) = n /\ Len(ch) \in Nat
  OBVIOUS
<1>2. Append(ch, m)[n] = m /\ \A j \in 1..Len(ch) : Append(ch, m)[j] = ch[j]
  OBVIOUS
<1>3. IsFiniteSet(W) /\ Cardinality(W) \in Nat
  BY WaitingFinite
<1>4. n \notin W
  BY DEF Waiting
<1>5. CASE m.kind = k /\ IsChange(m)
  <2>1. Waiting(k, i, Append(ch, m)) = W \cup {n}
    BY <1>1, <1>2, <1>5 DEF Waiting
  <2>2. Cardinality(W \cup {n}) = Cardinality(W) + 1
    <3> HIDE DEF W, n
    <3> QED
      BY <1>3, <1>4, FS_AddElement
  <2> QED
    BY <1>3, <1>5, <2>1, <2>2
<1>6. CASE ~(m.kind = k /\ IsChange(m))
  <2>1. Waiting(k, i, Append(ch, m)) = W
    BY <1>1, <1>2, <1>6 DEF Waiting
  <2> QED
    BY <1>3, <1>6, <2>1
<1> QED
  BY <1>5, <1>6

\* What waits behind a message waits one place further ahead once that is taken.
LEMMA WaitingShifts ==
  ASSUME NEW ch \in Seq(Messages), ch # <<>>, NEW k, NEW i \in 1..Len(ch)
  PROVE  Cardinality(Waiting(k, i, Tail(ch))) = Cardinality(Waiting(k, i + 1, ch))
<1> DEFINE A == Waiting(k, i + 1, ch)
           B == Waiting(k, i, Tail(ch))
           f == [j \in A |-> j - 1]
<1>1. /\ Len(Tail(ch)) = Len(ch) - 1 /\ Len(ch) \in Nat \ {0}
      /\ \A j \in 1..(Len(ch) - 1) : Tail(ch)[j] = ch[j + 1]
  OBVIOUS
<1>2. A \subseteq (i + 1)..Len(ch) /\ B \subseteq i..(Len(ch) - 1)
  BY <1>1 DEF Waiting
<1>3. ASSUME NEW j \in A PROVE j - 1 \in B
  <2>1. j \in (i + 1)..Len(ch) /\ ch[j].kind = k /\ IsChange(ch[j])
    BY DEF Waiting
  <2>2. j - 1 \in 1..(Len(ch) - 1) /\ (j - 1) + 1 = j
    BY <2>1, <1>1
  <2>3. Tail(ch)[j - 1] = ch[j]
    BY <1>1, <2>2
  <2>4. j - 1 \in i..Len(Tail(ch))
    BY <2>1, <1>1
  <2> QED
    BY <2>1, <2>3, <2>4 DEF Waiting
<1>4. ASSUME NEW j \in B PROVE j + 1 \in A
  <2>1. j \in i..(Len(ch) - 1) /\ Tail(ch)[j].kind = k /\ IsChange(Tail(ch)[j])
    BY <1>1 DEF Waiting
  <2>2. Tail(ch)[j] = ch[j + 1] /\ j + 1 \in (i + 1)..Len(ch)
    BY <1>1, <2>1
  <2> QED
    BY <2>1, <2>2 DEF Waiting
<1> HIDE DEF A, B
<1>5. f \in Bijection(A, B)
  <2>1. f \in [A -> B]
    BY <1>3
  <2>2. \A x, y \in A : f[x] = f[y] => x = y
    BY <1>2
  <2>3. \A y \in B : \E x \in A : f[x] = y
    <3>1. ASSUME NEW y \in B PROVE \E x \in A : f[x] = y
      <4>1. y \in Int /\ y + 1 \in A /\ f[y + 1] = y
        BY <1>2, <1>4
      <4> QED
        BY <4>1
    <3> QED
      BY <3>1
  <2> QED
    BY <2>1, <2>2, <2>3 DEF Bijection, Injection, Surjection, IsInjective
<1>6. IsFiniteSet(A)
  BY <1>1, WaitingFinite DEF A
<1>7. Cardinality(B) = Cardinality(A)
  BY <1>5, <1>6, FS_Bijection DEF ExistsBijection
<1> QED
  BY <1>7 DEF A, B

\* The first message waits if it is a change of the kind.
LEMMA WaitingFirst ==
  ASSUME NEW ch \in Seq(Messages), ch # <<>>, NEW k
  PROVE  Cardinality(Waiting(k, 1, ch)) =
           Cardinality(Waiting(k, 2, ch)) + IF ch[1].kind = k /\ IsChange(ch[1]) THEN 1 ELSE 0
<1> DEFINE W == Waiting(k, 2, ch)
<1>1. Len(ch) \in Nat \ {0}
  OBVIOUS
<1>2. IsFiniteSet(W) /\ Cardinality(W) \in Nat
  BY <1>1, WaitingFinite
<1>3. 1 \notin W
  BY DEF Waiting
<1>4. CASE ch[1].kind = k /\ IsChange(ch[1])
  <2>1. Waiting(k, 1, ch) = W \cup {1}
    BY <1>1, <1>4 DEF Waiting
  <2>2. Cardinality(W \cup {1}) = Cardinality(W) + 1
    <3> HIDE DEF W
    <3> QED
      BY <1>2, <1>3, FS_AddElement
  <2> QED
    BY <1>2, <1>4, <2>1, <2>2
<1>5. CASE ~(ch[1].kind = k /\ IsChange(ch[1]))
  <2>1. Waiting(k, 1, ch) = W
    BY <1>1, <1>5 DEF Waiting
  <2> QED
    BY <1>2, <1>5, <2>1
<1> QED
  BY <1>4, <1>5

\* Nothing waits in an empty channel.
LEMMA NothingWaits == ASSUME NEW k PROVE Cardinality(Waiting(k, 1, <<>>)) = 0
<1>1. Waiting(k, 1, <<>>) = {}
  BY DEF Waiting
<1> QED
  BY <1>1, FS_EmptySet

(* The cache *)

\* What a change makes of a set of objects.
Made(a, m) == IF m.type = "upsert" THEN a \cup {m.object} ELSE a \ {m.object}

\* A watch event says what became of the one object that changed.
LEMMA ChangeMakes ==
  ASSUME KubeTypes, OneAtATime, NEW k \in Resources, NEW v \in 1..(Latest(k) - 1)
  PROVE  /\ Change(k, v) \in Messages /\ Change(k, v).kind = k /\ IsChange(Change(k, v))
         /\ Made(api[k][v], Change(k, v)) = api[k][v + 1]
<1> DEFINE a == api[k][v]
           b == api[k][v + 1]
           c == CHOOSE o \in Objects : o \in a <=> o \notin b
<1>1. PICK o \in Objects : b = Toggled(a, o)
  BY DEF OneAtATime
<1>2. o \in a <=> o \notin b
  BY <1>1 DEF Toggled
<1>3. c \in Objects /\ (c \in a <=> c \notin b)
  BY <1>2
<1>4. c = o
  BY <1>1, <1>3 DEF Toggled
<1>5. Change(k, v) = Event(k, IF c \in b THEN "upsert" ELSE "delete", c)
  BY DEF Change
<1> HIDE DEF c
<1>6. Change(k, v) = [kind |-> k, type |-> IF c \in b THEN "upsert" ELSE "delete", object |-> c]
  BY <1>5 DEF Event
<1>7. Change(k, v) \in Messages /\ Change(k, v).kind = k /\ IsChange(Change(k, v))
  BY <1>3, <1>6 DEF Messages, MessageTypes, IsChange
<1>8. Made(a, Change(k, v)) = IF c \in b THEN a \cup {c} ELSE a \ {c}
  BY <1>6 DEF Made
<1>9. Made(a, Change(k, v)) = b
  BY <1>1, <1>4, <1>8 DEF Toggled
<1> QED
  BY <1>7, <1>9

\* The object of a watch event is an object.
LEMMA ChangeObject ==
  ASSUME KubeTypes, OneAtATime, NEW k \in Resources, NEW v \in 1..(Latest(k) - 1)
  PROVE  Change(k, v).object \in Objects
<1> DEFINE a == api[k][v]
           b == api[k][v + 1]
           c == CHOOSE o \in Objects : o \in a <=> o \notin b
<1>1. PICK o \in Objects : b = Toggled(a, o)
  BY DEF OneAtATime
<1>2. o \in a <=> o \notin b
  BY <1>1 DEF Toggled
<1>3. c \in Objects
  BY <1>2
<1>4. Change(k, v).object = c
  BY DEF Change, Event
<1> QED
  BY <1>3, <1>4

\* Without a new version the events are the same.
LEMMA ChangeSame == ASSUME UNCHANGED api PROVE \A k, v : Change(k, v)' = Change(k, v)
<1>1. ASSUME NEW k, NEW v PROVE Change(k, v)' = Change(k, v)
  BY DEF Change
<1> QED
  BY <1>1

\* Steps that leave the loop, its cache and its channel alone keep the view.
LEMMA ViewFrame ==
  ASSUME ViewInv, UNCHANGED <<api, kept, loopVars, watchVars>>
  PROVE  ViewInv'
<1> USE DEF ViewInv, loopVars, watchVars
<1>1. KubeTypes' /\ OneAtATime'
  BY DEF KubeTypes, OneAtATime, Latest
<1>2. LoopInv'
  BY DEF LoopInv, Zero
<1>3. ChannelInv'
  BY ChangeSame DEF ChannelInv, Latest, SentAt
<1>4. CacheInv'
  BY DEF CacheInv, Latest, SentAt, Zero
<1> QED
  BY <1>1, <1>2, <1>3, <1>4

\* A change at the API server adds a version and leaves the earlier ones.
LEMMA ApiChangesKeeps ==
  ASSUME ViewInv, NEW k \in Resources, NEW o \in Objects, ApiChanges(k, o)
  PROVE  ViewInv'
<1> USE DEF ViewInv
<1> DEFINE s == api[k]
           next == Toggled(s[Latest(k)], o)
<1>1. /\ api' = [api EXCEPT ![k] = Append(s, next)]
      /\ UNCHANGED <<kept, stage, listed, has, cache, missed, resume, stream, channel>>
  BY DEF ApiChanges, Toggled, loopVars, watchVars
<1>2. s \in Seq(SUBSET Objects) /\ Latest(k) = Len(s) /\ Latest(k) \in Nat \ {0}
  BY DEF KubeTypes, Latest
<1>3. s[Latest(k)] \in SUBSET Objects
  BY <1>2
<1>4. next \in SUBSET Objects
  BY <1>3 DEF Toggled
<1> HIDE DEF next
<1>5. /\ Append(s, next) \in Seq(SUBSET Objects) /\ Len(Append(s, next)) = Latest(k) + 1
      /\ \A v \in 1..Latest(k) : Append(s, next)[v] = s[v]
      /\ Append(s, next)[Latest(k) + 1] = next
  BY <1>2, <1>4
<1>6. /\ api' \in [Resources -> Seq(SUBSET Objects)] /\ api'[k] = Append(s, next)
      /\ \A j \in Resources \ {k} : api'[j] = api[j]
  BY <1>1, <1>5 DEF KubeTypes
<1>7. \A j \in Resources : Latest(j) \in Nat /\ Latest(j)' \in Nat /\ Latest(j) <= Latest(j)'
  <2>1. \A j \in Resources : Latest(j) \in Nat
    BY DEF KubeTypes, Latest
  <2>2. Latest(k)' = Latest(k) + 1 /\ \A j \in Resources \ {k} : Latest(j)' = Latest(j)
    BY <1>5, <1>6 DEF Latest
  <2>3. ASSUME NEW j \in Resources PROVE Latest(j)' \in Nat /\ Latest(j) <= Latest(j)'
    BY <2>1, <2>2
  <2> QED
    BY <2>1, <2>3
<1>8. \A j \in Resources : \A v \in 1..Latest(j) : api'[j][v] = api[j][v]
  BY <1>5, <1>6
<1>9. Latest(k)' = Latest(k) + 1 /\ \A j \in Resources \ {k} : Latest(j)' = Latest(j)
  BY <1>5, <1>6 DEF Latest
<1>10. KubeTypes'
  <2>1. \A j \in Resources : /\ kept[j] \in 1..Latest(j)' /\ listed[j] <= Latest(j)'
                             /\ resume[j] <= Latest(j)' /\ stream[j] <= Latest(j)'
    BY <1>7 DEF KubeTypes
  <2> QED
    BY <1>1, <1>6, <2>1 DEF KubeTypes
<1>11. OneAtATime'
  <2>1. SUFFICES ASSUME NEW j \in Resources, NEW v \in 1..(Latest(j)' - 1)
                 PROVE  \E p \in Objects : api'[j][v + 1] = Toggled(api'[j][v], p)
    BY DEF OneAtATime
  <2>2. CASE v \in 1..(Latest(j) - 1)
    <3>1. v \in 1..Latest(j) /\ v + 1 \in 1..Latest(j)
      BY <1>7, <2>2
    <3>2. \E p \in Objects : api[j][v + 1] = Toggled(api[j][v], p)
      BY <2>2 DEF OneAtATime
    <3> QED
      BY <1>8, <3>1, <3>2
  <2>3. CASE v \notin 1..(Latest(j) - 1)
    <3>1. j = k /\ v = Latest(k)
      BY <1>2, <1>7, <1>9, <2>3
    <3>2. api'[k][Latest(k) + 1] = next /\ api'[k][Latest(k)] = s[Latest(k)]
      BY <1>2, <1>5, <1>6
    <3> QED
      BY <3>1, <3>2 DEF next
  <2> QED
    BY <2>2, <2>3
<1>12. LoopInv'
  <2>1. ASSUME stage = "publish", stream = Zero, missed = {}, NEW j \in Resources
        PROVE  cache[j] = api'[j][resume[j]]
    <3>1. resume[j] \in 1..Latest(j) /\ cache[j] = api[j][resume[j]]
      BY <1>7, <2>1 DEF LoopInv, KubeTypes
    <3> QED
      BY <1>8, <3>1
  <2> QED
    BY <1>1, <2>1 DEF LoopInv, Zero
<1>13. ChannelInv'
  <2>1. SUFFICES ASSUME NEW i \in DOMAIN channel, IsChange(channel[i]),
                        NEW j, j = channel[i].kind, NEW v, v = SentAt(j, i, channel, stream[j])
                 PROVE  v \in 1..(Latest(j)' - 1) /\ channel[i] = Change(j, v)'
    BY <1>1 DEF ChannelInv, SentAt
  <2>2. v \in 1..(Latest(j) - 1) /\ channel[i] = Change(j, v)
    BY <2>1 DEF ChannelInv
  <2>3. j \in Resources
    <3>1. channel[i] \in Messages
      BY DEF KubeTypes
    <3> QED
      BY <2>1, <3>1 DEF Messages
  <2>4. v \in 1..Latest(j) /\ v + 1 \in 1..Latest(j)
    BY <1>7, <2>2, <2>3
  <2>5. Change(j, v)' = Change(j, v)
    BY <1>8, <2>3, <2>4 DEF Change
  <2> QED
    BY <1>7, <2>2, <2>3, <2>5
<1>14. CacheInv'
  <2>1. SUFFICES ASSUME stream # Zero, NEW j \in Resources,
                        NEW v, v = SentAt(j, 1, channel, stream[j])
                 PROVE  v \in 1..Latest(j)' /\ (missed = {} => cache[j] = api'[j][v])
    BY <1>1 DEF CacheInv, SentAt, Zero
  <2>2. v \in 1..Latest(j) /\ (missed = {} => cache[j] = api[j][v])
    BY <2>1 DEF CacheInv
  <2> QED
    BY <1>7, <1>8, <2>2
<1> QED
  BY <1>10, <1>11, <1>12, <1>13, <1>14

\* What concerns neither the versions nor the channel concerns types and loop alone.
LEMMA ChannelFrame ==
  ASSUME ViewInv, UNCHANGED <<api, stream, channel>>
  PROVE  OneAtATime' /\ ChannelInv'
<1> USE DEF ViewInv
<1>1. OneAtATime'
  BY DEF OneAtATime, Latest
<1>2. ChannelInv'
  BY ChangeSame DEF ChannelInv, Latest, SentAt
<1> QED
  BY <1>1, <1>2

\* The API server forgets its history, not its state.
LEMMA ApiForgetsKeeps ==
  ASSUME ViewInv, NEW k \in Resources, ApiForgets(k)
  PROVE  ViewInv'
<1> USE DEF ViewInv
<1>1. /\ kept' = [kept EXCEPT ![k] = Latest(k)]
      /\ UNCHANGED <<api, stage, listed, has, cache, missed, resume, stream, channel>>
  BY DEF ApiForgets, loopVars, watchVars
<1>2. KubeTypes'
  <2>1. \A j \in Resources : Latest(j) \in Nat /\ Latest(j)' = Latest(j)
    BY <1>1 DEF Latest, KubeTypes
  <2>2. kept' \in [Resources -> Nat] /\ \A j \in Resources : kept'[j] \in 1..Latest(j)
    BY <1>1, <2>1 DEF KubeTypes
  <2> QED
    BY <1>1, <2>1, <2>2 DEF KubeTypes
<1>3. LoopInv'
  BY <1>1 DEF LoopInv, Zero
<1>4. CacheInv'
  BY <1>1 DEF CacheInv, Latest, SentAt, Zero
<1> QED
  BY <1>1, <1>2, <1>3, <1>4, ChannelFrame

\* Pausing and listing touch no cache until the lists are complete.
LEMMA ListKindKeeps ==
  ASSUME ViewInv, NEW k \in Resources, NEW v, ListKind(k, v)
  PROVE  ViewInv'
<1> USE DEF ViewInv
<1>1. /\ listed' = [listed EXCEPT ![k] = v] /\ v \in kept[k]..Latest(k)
      /\ UNCHANGED <<api, kept, stage, has, cache, missed, resume, stream, channel>>
  BY DEF ListKind, watchVars
<1>2. KubeTypes'
  <2>1. \A j \in Resources : Latest(j) \in Nat /\ Latest(j)' = Latest(j)
    BY <1>1 DEF Latest, KubeTypes
  <2>2. listed' \in [Resources -> Nat] /\ \A j \in Resources : listed'[j] <= Latest(j)
    BY <1>1, <2>1 DEF KubeTypes
  <2> QED
    BY <1>1, <2>1, <2>2 DEF KubeTypes
<1>3. LoopInv'
  BY <1>1 DEF LoopInv, Zero
<1>4. CacheInv'
  BY <1>1 DEF CacheInv, Latest, SentAt, Zero
<1> QED
  BY <1>1, <1>2, <1>3, <1>4, ChannelFrame

\* The pause ends with no list begun.
LEMMA PauseKeeps == ASSUME ViewInv, PauseEnds PROVE ViewInv'
<1> USE DEF ViewInv
<1>1. /\ stage = "pause" /\ stage' = "list" /\ listed' = Zero
      /\ UNCHANGED <<api, kept, has, cache, missed, resume, stream, channel>>
  BY DEF PauseEnds, watchVars
<1>2. KubeTypes'
  BY <1>1 DEF KubeTypes, Zero, Latest
<1>3. LoopInv'
  BY <1>1 DEF LoopInv, Zero
<1>4. CacheInv'
  BY <1>1 DEF CacheInv, Latest, SentAt, Zero
<1> QED
  BY <1>1, <1>2, <1>3, <1>4, ChannelFrame

\* After a failed list the loop goes on with an incomplete cache, or without one.
LEMMA ListFailsKeeps == ASSUME ViewInv, ListFails PROVE ViewInv'
<1> USE DEF ViewInv
<1>1. /\ stage = "list" /\ stage' = (IF has THEN "publish" ELSE "pause") /\ listed' = Zero
      /\ UNCHANGED <<api, kept, has, cache, missed, resume, stream, channel>>
  BY DEF ListFails, watchVars
<1>2. KubeTypes'
  BY <1>1 DEF KubeTypes, Zero, Latest
<1>3. LoopInv'
  BY <1>1 DEF LoopInv, Zero
<1>4. CacheInv'
  BY <1>1 DEF CacheInv, Latest, SentAt, Zero
<1> QED
  BY <1>1, <1>2, <1>3, <1>4, ChannelFrame

\* Complete lists make a cache of the versions the watchers will resume from.
LEMMA ListDoneKeeps == ASSUME ViewInv, NEW late, ListDone(late) PROVE ViewInv'
<1> USE DEF ViewInv
<1>1. /\ stage = "list" /\ \A k \in Resources : listed[k] # 0
      /\ has' = TRUE /\ missed' = {} /\ resume' = listed /\ stage' = "publish" /\ listed' = Zero
      /\ cache' = [k \in Resources |-> api[k][listed[k]]]
      /\ UNCHANGED <<api, kept, stream, channel>>
  BY DEF ListDone, watchVars
<1>2. \A k \in Resources : listed[k] \in 1..Latest(k) /\ api[k] \in Seq(SUBSET Objects)
                           /\ Latest(k) = Len(api[k]) /\ Latest(k) \in Nat
  BY <1>1 DEF KubeTypes, Latest
<1>3. \A k \in Resources : api[k][listed[k]] \in SUBSET Objects
  BY <1>2
<1>4. KubeTypes'
  <2>1. cache' \in [Resources -> SUBSET Objects]
    BY <1>1, <1>3
  <2>2. \A j \in Resources : Latest(j)' = Latest(j)
    BY <1>1 DEF Latest
  <2> QED
    BY <1>1, <1>2, <2>1, <2>2 DEF KubeTypes, Zero
<1>5. LoopInv'
  <2>1. stream = Zero /\ channel = <<>>
    BY <1>1 DEF LoopInv
  <2> QED
    BY <1>1, <1>2, <2>1 DEF LoopInv, Zero
<1>6. CacheInv'
  BY <1>1 DEF CacheInv, LoopInv, Zero
<1> QED
  BY <1>1, <1>4, <1>5, <1>6, ChannelFrame

\* A publication changes no cache; the first after a list starts the watchers at
\* the versions listed, with nothing in the channel.
LEMMA PublishedKeeps == ASSUME ViewInv, NEW outcome, Published(outcome) PROVE ViewInv'
<1> USE DEF ViewInv
<1>1. /\ stage = "publish" /\ stage' = "watch" /\ stream' = (IF stream # Zero THEN stream ELSE resume)
      /\ UNCHANGED <<api, kept, listed, has, cache, missed, resume, channel>>
  BY DEF Published, Resumed, Watching
<1>2. has /\ \A k \in Resources : resume[k] >= 1 /\ resume[k] \in Nat /\ resume[k] <= Latest(k)
                                  /\ Latest(k) \in Nat /\ Latest(k)' = Latest(k)
  BY <1>1 DEF LoopInv, KubeTypes, Latest
<1>3. KubeTypes'
  BY <1>1, <1>2 DEF KubeTypes
<1>4. OneAtATime'
  BY <1>1 DEF OneAtATime, Latest
<1>5. LoopInv'
  <2>1. \A k \in Resources : stream'[k] >= 1
    BY <1>1, <1>2 DEF LoopInv
  <2>2. stream' = Zero => channel' = <<>>
    BY <1>1 DEF LoopInv, Zero
  <2> QED
    BY <1>1, <1>2, <2>1, <2>2 DEF LoopInv, Zero
<1>6. CASE stream # Zero
  <2>1. UNCHANGED stream
    BY <1>1, <1>6
  <2>2. CacheInv'
    BY <1>1, <2>1 DEF CacheInv, Latest, SentAt, Zero
  <2> QED
    BY <1>1, <1>3, <1>5, <2>1, <2>2, ChannelFrame
<1>7. CASE stream = Zero
  <2>1. channel = <<>> /\ stream' = resume
    BY <1>1, <1>7 DEF LoopInv
  <2>2. ChannelInv'
    BY <1>1, <2>1 DEF ChannelInv
  <2>3. \A k \in Resources : SentAt(k, 1, channel', stream'[k]) = resume[k]
    BY <1>1, <1>2, <2>1, NothingWaits DEF SentAt
  <2>4. CacheInv'
    <3>1. SUFFICES ASSUME NEW k \in Resources
                   PROVE  resume[k] \in 1..Latest(k) /\ (missed = {} => cache[k] = api[k][resume[k]])
      BY <1>1, <1>2, <2>3 DEF CacheInv
    <3> QED
      BY <1>1, <1>2, <1>7 DEF LoopInv
  <2> QED
    BY <1>3, <1>4, <1>5, <2>2, <2>4
<1> QED
  BY <1>6, <1>7

\* A message that is no change of an object says nothing of versions.
LEMMA OtherSentKeeps ==
  ASSUME ViewInv, NEW m \in Messages, ~IsChange(m), stream # Zero, channel' = Append(channel, m),
         UNCHANGED <<api, kept, loopVars, stream>>
  PROVE  ViewInv'
<1> USE DEF ViewInv
<1>1. UNCHANGED <<api, kept, stage, listed, has, cache, missed, resume, stream>>
  BY DEF loopVars
<1>2. channel \in Seq(Messages) /\ Len(channel) \in Nat
  BY DEF KubeTypes
<1>3. /\ channel' \in Seq(Messages) /\ Len(channel') = Len(channel) + 1
      /\ channel'[Len(channel) + 1] = m /\ \A i \in 1..Len(channel) : channel'[i] = channel[i]
  BY <1>2
<1>4. \A k : \A i \in 1..(Len(channel) + 1) :
        SentAt(k, i, channel', stream[k]) = SentAt(k, i, channel, stream[k])
  <2>1. ASSUME NEW k, NEW i \in 1..(Len(channel) + 1)
        PROVE  Cardinality(Waiting(k, i, channel')) = Cardinality(Waiting(k, i, channel))
    BY <1>2, WaitingSent, WaitingFinite
  <2> QED
    BY <2>1 DEF SentAt
<1>5. KubeTypes' /\ OneAtATime'
  BY <1>1, <1>3 DEF KubeTypes, OneAtATime, Latest
<1>6. LoopInv'
  BY <1>1 DEF LoopInv, Zero
<1>7. ChannelInv'
  <2>1. SUFFICES ASSUME NEW i \in DOMAIN channel', IsChange(channel'[i]),
                        NEW k, k = channel'[i].kind, NEW v, v = SentAt(k, i, channel', stream[k])
                 PROVE  v \in 1..(Latest(k) - 1) /\ channel'[i] = Change(k, v)
    BY <1>1, ChangeSame DEF ChannelInv, Latest
  <2>2. i \in DOMAIN channel /\ channel'[i] = channel[i]
    BY <1>2, <1>3, <2>1
  <2>3. v = SentAt(k, i, channel, stream[k])
    BY <1>2, <1>4, <2>1, <2>2
  <2> QED
    BY <2>1, <2>2, <2>3 DEF ChannelInv
<1>8. CacheInv'
  <2>1. 1 \in 1..(Len(channel) + 1)
    BY <1>2
  <2> QED
    BY <1>1, <1>4, <2>1 DEF CacheInv, Latest, Zero
<1> QED
  BY <1>5, <1>6, <1>7, <1>8

\* A bookmark or a tick.
LEMMA ConfirmsKeeps ==
  ASSUME ViewInv, NEW k \in Resources, NEW type \in {"alive", "tick"}, WatchConfirms(k, type)
  PROVE  ViewInv'
<1> DEFINE m == Event(k, type, NoObject)
<1>1. m \in Messages /\ ~IsChange(m)
  BY DEF Event, Messages, MessageTypes, IsChange
<1> HIDE DEF m
<1>2. stream # Zero /\ channel' = Append(channel, m) /\ UNCHANGED <<api, kept, loopVars, stream>>
  BY DEF WatchConfirms, Sends, Watching, KeepsLoop, m
<1> QED
  BY <1>1, <1>2, OtherSentKeeps

\* A watch whose version is no longer known.
LEMMA ExpiresKeeps ==
  ASSUME ViewInv, NEW k \in Resources, WatchExpires(k)
  PROVE  ViewInv'
<1> DEFINE m == Event(k, "expired", NoObject)
<1>1. m \in Messages /\ ~IsChange(m)
  BY DEF Event, Messages, MessageTypes, IsChange
<1> HIDE DEF m
<1>2. stream # Zero /\ channel' = Append(channel, m) /\ UNCHANGED <<api, kept, loopVars, stream>>
  BY DEF WatchExpires, Sends, Watching, KeepsLoop, m
<1> QED
  BY <1>1, <1>2, OtherSentKeeps

\* A watch event is one more change that waits, of the version its watcher was at.
LEMMA EventKeeps ==
  ASSUME ViewInv, NEW k \in Resources, WatchEvent(k)
  PROVE  ViewInv'
<1> USE DEF ViewInv
<1> DEFINE m == Change(k, stream[k])
           n == Len(channel) + 1
<1>1. /\ stream[k] \in kept[k]..(Latest(k) - 1) /\ stream # Zero /\ channel' = Append(channel, m)
      /\ stream' = [stream EXCEPT ![k] = @ + 1]
      /\ UNCHANGED <<api, kept, stage, listed, has, cache, missed, resume>>
  BY DEF WatchEvent, Sends, Watching, KeepsLoop, loopVars
<1>2. channel \in Seq(Messages) /\ Len(channel) \in Nat /\ stream \in [Resources -> Nat]
  BY DEF KubeTypes
<1>3. /\ stream[k] \in 1..(Latest(k) - 1) /\ Latest(k) \in Nat
      /\ \A j \in Resources : Latest(j) \in Nat /\ Latest(j)' = Latest(j)
  BY <1>1 DEF KubeTypes, Latest
<1>4. m \in Messages /\ m.kind = k /\ IsChange(m)
  BY <1>3, ChangeMakes
<1>5. /\ channel' \in Seq(Messages) /\ Len(channel') = n
      /\ channel'[n] = m /\ \A i \in 1..Len(channel) : channel'[i] = channel[i]
  BY <1>1, <1>2, <1>4
<1>6. /\ stream' \in [Resources -> Nat] /\ stream'[k] = stream[k] + 1
      /\ \A j \in Resources \ {k} : stream'[j] = stream[j]
  BY <1>1, <1>2
<1>7. ASSUME NEW j \in Resources, NEW i \in 1..n
      PROVE  SentAt(j, i, channel', stream'[j]) = SentAt(j, i, channel, stream[j])
  <2>1. /\ Cardinality(Waiting(j, i, channel)) \in Nat
        /\ Cardinality(Waiting(j, i, channel')) =
             Cardinality(Waiting(j, i, channel)) + IF j = k THEN 1 ELSE 0
    <3> HIDE DEF m
    <3> QED
      BY <1>1, <1>2, <1>4, WaitingSent, WaitingFinite
  <2>2. stream[j] \in Nat /\ stream'[j] = stream[j] + IF j = k THEN 1 ELSE 0
    BY <1>2, <1>6
  <2> QED
    BY <2>1, <2>2 DEF SentAt
<1>8. KubeTypes' /\ OneAtATime'
  <2>1. \A j \in Resources : stream'[j] <= Latest(j)
    <3>1. stream'[k] <= Latest(k)
      BY <1>3, <1>6
    <3>2. ASSUME NEW j \in Resources \ {k} PROVE stream'[j] <= Latest(j)
      BY <1>6 DEF KubeTypes
    <3> QED
      BY <3>1, <3>2
  <2>2. KubeTypes'
    BY <1>1, <1>3, <1>5, <1>6, <2>1 DEF KubeTypes
  <2>3. OneAtATime'
    BY <1>1 DEF OneAtATime, Latest
  <2> QED
    BY <2>2, <2>3
<1>9. \A j \in Resources : stream[j] >= 1 /\ stream'[j] >= 1
  BY <1>1, <1>2, <1>6 DEF LoopInv
<1>10. stream' # Zero
  BY <1>9 DEF Zero
<1>11. LoopInv'
  BY <1>1, <1>9, <1>10 DEF LoopInv, Zero
<1>12. ChannelInv'
  <2>1. SUFFICES ASSUME NEW i \in DOMAIN channel', IsChange(channel'[i]),
                        NEW j, j = channel'[i].kind, NEW v, v = SentAt(j, i, channel', stream'[j])
                 PROVE  v \in 1..(Latest(j) - 1) /\ channel'[i] = Change(j, v)
    BY <1>1, ChangeSame DEF ChannelInv, Latest
  <2>2. i \in 1..n /\ channel'[i] \in Messages
    BY <1>5
  <2>3. j \in Resources
    BY <2>1, <2>2 DEF Messages
  <2>4. v = SentAt(j, i, channel, stream[j])
    BY <1>7, <2>1, <2>2, <2>3
  <2>5. CASE i \in 1..Len(channel)
    <3>1. i \in DOMAIN channel /\ channel'[i] = channel[i]
      BY <1>2, <1>5, <2>5
    <3> QED
      BY <2>1, <2>4, <3>1 DEF ChannelInv
  <2>6. CASE i = n
    <3>1. channel'[i] = m /\ j = k
      BY <1>4, <1>5, <2>1, <2>6
    <3>2. Waiting(k, n, channel) = {}
      BY <1>2 DEF Waiting
    <3>3. v = stream[k]
      <4>1. stream[k] \in Nat /\ v = stream[k] - Cardinality(Waiting(k, n, channel))
        BY <1>2, <2>4, <2>6, <3>1 DEF SentAt
      <4>2. Cardinality(Waiting(k, n, channel)) = 0
        BY <3>2, FS_EmptySet
      <4> QED
        BY <4>1, <4>2
    <3> QED
      BY <1>3, <3>1, <3>3
  <2> QED
    BY <1>2, <2>2, <2>5, <2>6
<1>13. CacheInv'
  <2>1. SUFFICES ASSUME NEW j \in Resources, NEW v, v = SentAt(j, 1, channel', stream'[j])
                 PROVE  v \in 1..Latest(j) /\ (missed = {} => cache[j] = api[j][v])
    BY <1>1 DEF CacheInv, Latest
  <2>2. v = SentAt(j, 1, channel, stream[j])
    BY <1>2, <1>7, <2>1
  <2> QED
    BY <1>1, <2>2 DEF CacheInv
<1> QED
  BY <1>8, <1>11, <1>12, <1>13

\* Taking the first message moves the others ahead, each still sent at its version.
LEMMA TakenMoves ==
  ASSUME ViewInv, channel # <<>>, Taken, UNCHANGED api
  PROVE  /\ channel' \in Seq(Messages) /\ ChannelInv'
         /\ Head(channel) \in Messages /\ stream # Zero
         /\ \A k \in Resources :
              SentAt(k, 1, channel', stream[k]) =
                SentAt(k, 1, channel, stream[k])
                  + IF Head(channel).kind = k /\ IsChange(Head(channel)) THEN 1 ELSE 0
<1> USE DEF ViewInv
<1>1. channel' = Tail(channel) /\ stream' = stream
  BY DEF Taken
<1>2. channel \in Seq(Messages) /\ Len(channel) \in Nat \ {0} /\ stream \in [Resources -> Nat]
  BY DEF KubeTypes
<1>3. /\ channel' \in Seq(Messages) /\ Len(channel') = Len(channel) - 1
      /\ \A i \in 1..(Len(channel) - 1) : channel'[i] = channel[i + 1]
      /\ Head(channel) \in Messages /\ Head(channel) = channel[1]
  BY <1>1, <1>2
<1>4. \A k : \A i \in 1..Len(channel) : SentAt(k, i, channel', stream[k]) = SentAt(k, i + 1, channel, stream[k])
  BY <1>1, <1>2, WaitingShifts DEF SentAt
<1>5. ASSUME NEW k \in Resources
      PROVE  SentAt(k, 1, channel', stream[k]) =
               SentAt(k, 1, channel, stream[k])
                 + IF Head(channel).kind = k /\ IsChange(Head(channel)) THEN 1 ELSE 0
  <2>1. SentAt(k, 1, channel', stream[k]) = SentAt(k, 2, channel, stream[k])
    BY <1>2, <1>4
  <2>2. /\ Cardinality(Waiting(k, 2, channel)) \in Nat /\ stream[k] \in Nat
        /\ Cardinality(Waiting(k, 1, channel)) = Cardinality(Waiting(k, 2, channel))
             + IF Head(channel).kind = k /\ IsChange(Head(channel)) THEN 1 ELSE 0
    BY <1>2, <1>3, WaitingFirst, WaitingFinite
  <2> QED
    BY <2>1, <2>2 DEF SentAt
<1>6. ChannelInv'
  <2>1. SUFFICES ASSUME NEW i \in DOMAIN channel', IsChange(channel'[i]),
                        NEW k, k = channel'[i].kind, NEW v, v = SentAt(k, i, channel', stream[k])
                 PROVE  v \in 1..(Latest(k) - 1) /\ channel'[i] = Change(k, v)
    BY <1>1, ChangeSame DEF ChannelInv, Latest
  <2>2. i \in 1..Len(channel) /\ i + 1 \in DOMAIN channel /\ channel'[i] = channel[i + 1]
    BY <1>2, <1>3
  <2>3. v = SentAt(k, i + 1, channel, stream[k])
    BY <1>4, <2>1, <2>2
  <2> QED
    BY <2>1, <2>2, <2>3 DEF ChannelInv
<1>7. stream # Zero
  BY DEF LoopInv
<1> QED
  BY <1>3, <1>5, <1>6, <1>7

\* A message that is no change leaves the cache where it is.
LEMMA OtherTakenKeeps ==
  ASSUME ViewInv, stage = "watch", channel # <<>>, ~IsChange(Head(channel)), Taken,
         stage' \in {"watch", "publish"},
         UNCHANGED <<api, kept, listed, has, cache, missed, resume>>
  PROVE  ViewInv'
<1> USE DEF ViewInv
<1>1. /\ channel' \in Seq(Messages) /\ ChannelInv' /\ stream # Zero /\ stream' = stream
      /\ \A k \in Resources :
           SentAt(k, 1, channel', stream[k]) = SentAt(k, 1, channel, stream[k]) + 0
  BY TakenMoves DEF Taken
<1>2. KubeTypes' /\ OneAtATime'
  BY <1>1 DEF KubeTypes, OneAtATime, Latest
<1>3. LoopInv'
  BY <1>1 DEF LoopInv, Zero
<1>4. CacheInv'
  <2>1. SUFFICES ASSUME NEW j \in Resources, NEW v, v = SentAt(j, 1, channel', stream[j])
                 PROVE  v \in 1..Latest(j) /\ (missed = {} => cache[j] = api[j][v])
    BY <1>1 DEF CacheInv, Latest
  <2>2. LET w == SentAt(j, 1, channel, stream[j])
        IN w \in 1..Latest(j) /\ (missed = {} => cache[j] = api[j][w]) /\ v = w + 0
    BY <1>1, <2>1 DEF CacheInv
  <2> QED
    BY <2>2
<1> QED
  BY <1>1, <1>2, <1>3, <1>4

\* A change that is admitted makes the next version of its kind, one that is not
\* leaves the cache incomplete.
LEMMA ChangeTakenKeeps ==
  ASSUME ViewInv, NEW type \in {"upsert", "delete"}, ReceiveChange(type)
  PROVE  ViewInv'
<1> USE DEF ViewInv
<1> DEFINE m == Head(channel)
           k == m.kind
           v == SentAt(k, 1, channel, stream[k])
<1>1. /\ stage = "watch" /\ channel # <<>> /\ m.type = type /\ Taken
      /\ UNCHANGED <<api, kept, listed, has, resume>>
  BY DEF ReceiveChange, Received
<1>2. \/ /\ cache' = [cache EXCEPT ![k] = IF type = "upsert" THEN @ \cup {m.object} ELSE @ \ {m.object}]
         /\ stage' = "publish" /\ missed' = missed
      \/ missed' # {} /\ cache' = cache /\ stage' = stage
  BY DEF ReceiveChange, Missed
<1>3. /\ channel' \in Seq(Messages) /\ ChannelInv' /\ m \in Messages /\ stream # Zero
      /\ stream' = stream
      /\ \A j \in Resources :
           SentAt(j, 1, channel', stream[j]) =
             SentAt(j, 1, channel, stream[j]) + IF m.kind = j /\ IsChange(m) THEN 1 ELSE 0
  BY <1>1, TakenMoves DEF Taken
<1>4. IsChange(m) /\ k \in Resources
  BY <1>1, <1>3 DEF IsChange, Messages
<1>5. v \in 1..(Latest(k) - 1) /\ m = Change(k, v)
  <2>1. channel \in Seq(Messages)
    BY DEF KubeTypes
  <2>2. 1 \in DOMAIN channel /\ channel[1] = m
    BY <1>1, <2>1
  <2> QED
    BY <1>4, <2>2 DEF ChannelInv
<1>6. Made(api[k][v], m) = api[k][v + 1]
  BY <1>4, <1>5, ChangeMakes
<1> HIDE DEF m, v
<1>7. cache' \in [Resources -> SUBSET Objects]
  <2>1. cache[k] \in SUBSET Objects /\ cache \in [Resources -> SUBSET Objects]
    BY <1>4 DEF KubeTypes
  <2>2. m.object \in Objects
    BY <1>4, <1>5, ChangeObject
  <2> QED
    BY <1>2, <2>1, <2>2
<1>8. KubeTypes' /\ OneAtATime'
  BY <1>1, <1>3, <1>7 DEF KubeTypes, OneAtATime, Latest
<1>9. LoopInv'
  BY <1>1, <1>2, <1>3 DEF LoopInv, Zero
<1>10. CacheInv'
  <2>1. SUFFICES ASSUME NEW j \in Resources, NEW w, w = SentAt(j, 1, channel', stream[j])
                 PROVE  w \in 1..Latest(j) /\ (missed' = {} => cache'[j] = api[j][w])
    BY <1>1, <1>3 DEF CacheInv, Latest
  <2>2. \A i \in Resources :
          LET x == SentAt(i, 1, channel, stream[i])
          IN x \in 1..Latest(i) /\ (missed = {} => cache[i] = api[i][x])
    BY <1>3 DEF CacheInv
  <2>3. CASE j = k
    <3>1. w = v + 1
      BY <1>3, <1>4, <2>1, <2>3 DEF v
    <3>2. w \in 1..Latest(k)
      <4>1. v \in 1..(Latest(k) - 1) /\ Latest(k) \in Nat
        BY <1>4, <1>5 DEF KubeTypes, Latest
      <4> QED
        BY <3>1, <4>1
    <3>3. ASSUME missed' = {} PROVE cache'[k] = api[k][w]
      <4>1. cache[k] = api[k][v]
        BY <1>2, <1>4, <2>2, <3>3 DEF v
      <4>2. cache'[k] = Made(cache[k], m)
        BY <1>1, <1>2, <1>4, <3>3 DEF Made, KubeTypes
      <4> QED
        BY <1>6, <3>1, <4>1, <4>2
    <3> QED
      BY <2>3, <3>2, <3>3
  <2>4. CASE j # k
    <3>1. w = SentAt(j, 1, channel, stream[j])
      BY <1>3, <2>1, <2>2, <2>4
    <3>2. missed' = {} => missed = {} /\ cache'[j] = cache[j]
      BY <1>2, <2>4 DEF KubeTypes
    <3> QED
      BY <2>2, <3>1, <3>2
  <2> QED
    BY <2>3, <2>4
<1> QED
  BY <1>3, <1>8, <1>9, <1>10

\* When the watchers are joined their channel is dropped with what was in it.
LEMMA JoinedKeeps ==
  ASSUME ViewInv, stage = "watch", WatchersJoined, has' => missed' # {},
         UNCHANGED <<api, kept, listed>>, cache' \in [Resources -> SUBSET Objects]
  PROVE  ViewInv'
<1> USE DEF ViewInv
<1>1. /\ stage' = "pause" /\ stream' = Zero /\ channel' = <<>>
      /\ resume' \in [Resources -> Nat]
      /\ \A k \in Resources : resume'[k] \in 1..Latest(k)
  <2>1. PICK ahead \in SUBSET Resources :
          /\ \A k \in ahead : stream[k] < Latest(k)
          /\ resume' = [k \in Resources |-> IF k \in ahead THEN stream[k] + 1 ELSE stream[k]]
    BY DEF WatchersJoined
  <2>2. \A k \in Resources : Latest(k) \in Nat /\ stream[k] \in 1..Latest(k)
    BY DEF KubeTypes, LoopInv, Latest
  <2>3. \A k \in Resources : resume'[k] \in 1..Latest(k)
    BY <2>1, <2>2
  <2> QED
    BY <2>1, <2>2, <2>3 DEF WatchersJoined
<1>2. KubeTypes'
  BY <1>1 DEF KubeTypes, Zero, Latest
<1>3. OneAtATime'
  BY DEF OneAtATime, Latest
<1>4. LoopInv'
  BY <1>1 DEF LoopInv, Zero
<1>5. ChannelInv' /\ CacheInv'
  BY <1>1 DEF ChannelInv, CacheInv, Zero
<1> QED
  BY <1>2, <1>3, <1>4, <1>5

(* The controller's word *)

\* assess reports its verdict, and leaves the runtime ready on it alone.
LEMMA AssessSays ==
  ASSUME NEW healthy \in BOOLEAN, NEW applied \in BOOLEAN, NEW readyNow \in BOOLEAN,
         reported \in BOOLEAN, readyNow => reported \/ applied, Assess(healthy, applied, readyNow)
  PROVE  reported' = healthy /\ ready' \in BOOLEAN /\ (ready' => reported')
<1>1. CASE healthy # reported \/ Reassert(applied, healthy)
  BY <1>1 DEF Assess, ReportedReady
<1>2. CASE ~(healthy # reported \/ Reassert(applied, healthy))
  <2>1. reported' = reported /\ ready' = readyNow /\ healthy = reported /\ ~(applied /\ ~healthy)
    BY <1>2 DEF Assess, Reassert
  <2> QED
    BY <2>1
<1> QED
  BY <1>1, <1>2

\* A verdict is positive only without a failure and for every kind fresh.
LEMMA SoundSays ==
  ASSUME NEW f, NEW b \in BOOLEAN, NEW i, NEW p
  PROVE  /\ Sound(f, b, i, p) \in BOOLEAN
         /\ Sound(f, b, i, p) => ~b /\ f = Resources
BY DEF Sound

\* Steps after which neither the loop waits for news nor anybody spoke.
LEMMA WordFrame ==
  ASSUME WordInv, UNCHANGED healthFlags, UNCHANGED ready,
         stage' = "watch" => stage = "watch" /\ UNCHANGED <<cache, published>>
  PROVE  WordInv'
BY DEF WordInv, healthFlags

\* A verdict between publications.
LEMMA AssessKeeps ==
  ASSUME WordInv, NEW f, NEW i, Assess(Sound(f, failed, i, published), FALSE, ready),
         UNCHANGED <<failed, published>>, stage' = "watch" => stage = "watch" /\ UNCHANGED cache
  PROVE  WordInv'
<1>1. failed \in BOOLEAN /\ reported \in BOOLEAN /\ ready \in BOOLEAN /\ (ready => reported)
  BY DEF WordInv
<1>2. /\ Sound(f, failed, i, published) \in BOOLEAN
      /\ Sound(f, failed, i, published) => ~failed
  BY <1>1, SoundSays
<1>3. /\ reported' = Sound(f, failed, i, published) /\ ready' \in BOOLEAN /\ (ready' => reported')
  BY <1>1, <1>2, AssessSays
<1> QED
  BY <1>1, <1>2, <1>3 DEF WordInv

\* A publication: what was not rejected is what the cache asks for.
LEMMA PublishedSpeaks ==
  ASSUME WordInv, NEW outcome \in {"unchanged", "rejected", "applied"}, Published(outcome)
  PROVE  WordInv'
<1> DEFINE healthy == Sound(fresh, failed', missed, published')
           applied == outcome = "applied"
<1>1. failed \in BOOLEAN /\ reported \in BOOLEAN /\ ready \in BOOLEAN /\ (ready => reported)
  BY DEF WordInv
<1>2. /\ failed' = (outcome = "rejected") /\ stage' = "watch" /\ cache' = cache
      /\ Assess(healthy, applied, ReadyAfter(outcome)) /\ Reconciled(outcome)
  BY DEF Published, Resumed
<1>3. failed' \in BOOLEAN /\ (~failed' => published' = cache)
  BY <1>2 DEF Reconciled
<1>4. healthy \in BOOLEAN /\ (healthy => ~failed')
  BY <1>3, SoundSays
<1>5. ReadyAfter(outcome) \in BOOLEAN /\ (ReadyAfter(outcome) => reported \/ applied)
  BY <1>1 DEF ReadyAfter
<1>6. applied \in BOOLEAN
  OBVIOUS
<1> HIDE DEF healthy, applied
<1>7. /\ reported' = healthy /\ ready' \in BOOLEAN /\ (ready' => reported')
  BY <1>1, <1>2, <1>4, <1>5, <1>6, AssessSays
<1> QED
  BY <1>2, <1>3, <1>4, <1>7 DEF WordInv

\* The invariant at first, and what every step makes of it.
LEMMA KubeStarts == KubernetesInit => KubeInv
<1> SUFFICES ASSUME KubernetesInit PROVE KubeInv
  OBVIOUS
<1> USE DEF KubernetesInit
<1>1. /\ api \in [Resources -> Seq(SUBSET Objects)] /\ \A k \in Resources : Latest(k) = 1
  BY DEF Latest
<1>2. KubeTypes
  BY <1>1 DEF KubeTypes, Zero, Nothing
<1>3. OneAtATime
  BY <1>1 DEF OneAtATime
<1>4. LoopInv
  BY DEF LoopInv
<1>5. ChannelInv /\ CacheInv
  BY DEF ChannelInv, CacheInv
<1>6. WordInv
  BY DEF WordInv
<1> QED
  BY <1>2, <1>3, <1>4, <1>5, <1>6 DEF KubeInv, ViewInv

\* Every step keeps the invariant.
LEMMA KubeStepKeeps == ASSUME KubeInv, KubernetesNext PROVE KubeInv'
<1>a. ViewInv /\ WordInv
  BY DEF KubeInv
<1>1. ASSUME NEW k \in Resources, NEW o \in Objects, ApiChanges(k, o) PROVE KubeInv'
  <2>1. WordInv'
    BY <1>a, <1>1, WordFrame DEF ApiChanges, loopVars
  <2> QED
    BY <1>a, <1>1, <2>1, ApiChangesKeeps DEF KubeInv
<1>2. ASSUME NEW k \in Resources, ApiForgets(k) PROVE KubeInv'
  <2>1. WordInv'
    BY <1>a, <1>2, WordFrame DEF ApiForgets, loopVars
  <2> QED
    BY <1>a, <1>2, <2>1, ApiForgetsKeeps DEF KubeInv
<1>3. ASSUME NEW k \in Resources, Silence(k) PROVE KubeInv'
  <2>1. WordInv'
    BY <1>a, <1>3, AssessKeeps DEF Silence, loopVars
  <2>2. ViewInv'
    BY <1>a, <1>3, ViewFrame DEF Silence
  <2> QED
    BY <2>1, <2>2 DEF KubeInv
<1>4. ASSUME NEW k \in Resources, NEW v, ListKind(k, v) PROVE KubeInv'
  <2>1. WordInv'
    BY <1>a, <1>4, WordFrame DEF ListKind
  <2> QED
    BY <1>a, <1>4, <2>1, ListKindKeeps DEF KubeInv
<1>5. ASSUME NEW k \in Resources, WatchEvent(k) PROVE KubeInv'
  <2>1. WordInv'
    BY <1>a, <1>5, WordFrame DEF WatchEvent, KeepsLoop, loopVars
  <2> QED
    BY <1>a, <1>5, <2>1, EventKeeps DEF KubeInv
<1>6. ASSUME NEW k \in Resources, WatchExpires(k) PROVE KubeInv'
  <2>1. WordInv'
    BY <1>a, <1>6, WordFrame DEF WatchExpires, KeepsLoop, loopVars
  <2> QED
    BY <1>a, <1>6, <2>1, ExpiresKeeps DEF KubeInv
<1>7. ASSUME NEW k \in Resources, NEW type \in {"alive", "tick"}, WatchConfirms(k, type) PROVE KubeInv'
  <2>1. WordInv'
    BY <1>a, <1>7, WordFrame DEF WatchConfirms, KeepsLoop, loopVars
  <2> QED
    BY <1>a, <1>7, <2>1, ConfirmsKeeps DEF KubeInv
<1>8. CASE PauseEnds
  <2>1. WordInv'
    BY <1>a, <1>8, AssessKeeps DEF PauseEnds
  <2> QED
    BY <1>a, <1>8, <2>1, PauseKeeps DEF KubeInv
<1>9. CASE ListFails
  <2>1. WordInv'
    BY <1>a, <1>9, WordFrame DEF ListFails
  <2> QED
    BY <1>a, <1>9, <2>1, ListFailsKeeps DEF KubeInv
<1>10. ASSUME NEW late, ListDone(late) PROVE KubeInv'
  <2>1. WordInv'
    BY <1>a, <1>10 DEF ListDone, WordInv
  <2> QED
    BY <1>a, <1>10, <2>1, ListDoneKeeps DEF KubeInv
<1>11. ASSUME NEW outcome \in {"unchanged", "rejected", "applied"}, Published(outcome) PROVE KubeInv'
  BY <1>a, <1>11, PublishedSpeaks, PublishedKeeps DEF KubeInv
<1>12. ASSUME NEW type \in {"upsert", "delete"}, ReceiveChange(type) PROVE KubeInv'
  <2>1. CASE Admitted(Head(channel))
    <3>1. stage' = "publish" /\ UNCHANGED <<failed, reported, published, ready>>
      BY <1>12, <2>1 DEF ReceiveChange
    <3>2. WordInv'
      BY <1>a, <3>1 DEF WordInv
    <3> QED
      BY <1>a, <1>12, <3>2, ChangeTakenKeeps DEF KubeInv
  <2>2. CASE ~Admitted(Head(channel))
    <3>1. /\ Assess(Sound(fresh \cup {Head(channel).kind}, failed, missed', published), FALSE, ready)
          /\ UNCHANGED <<cache, stage, failed, published>>
      BY <1>12, <2>2 DEF ReceiveChange
    <3>2. WordInv'
      BY <1>a, <3>1, AssessKeeps
    <3> QED
      BY <1>a, <1>12, <3>2, ChangeTakenKeeps DEF KubeInv
  <2> QED
    BY <2>1, <2>2
<1>13. CASE ReceiveAlive
  <2>1. /\ Assess(Sound(fresh', failed, missed, published), FALSE, ready) /\ Taken
        /\ stage = "watch" /\ channel # <<>> /\ Head(channel).type = "alive"
        /\ UNCHANGED <<api, kept, stage, listed, has, cache, missed, resume, failed, published>>
    BY <1>13 DEF ReceiveAlive, Received, loopVars
  <2>2. WordInv'
    BY <1>a, <2>1, AssessKeeps
  <2>3. ViewInv'
    BY <1>a, <2>1, OtherTakenKeeps DEF IsChange
  <2> QED
    BY <2>2, <2>3 DEF KubeInv
<1>14. CASE ReceiveTick
  <2>1. /\ Taken /\ stage = "watch" /\ channel # <<>> /\ Head(channel).type = "tick" /\ stage' = "publish"
        /\ UNCHANGED <<api, kept, listed, has, cache, missed, resume, failed, reported, published, ready>>
    BY <1>14 DEF ReceiveTick, Received
  <2>2. WordInv'
    BY <1>a, <2>1 DEF WordInv
  <2>3. ViewInv'
    BY <1>a, <2>1, OtherTakenKeeps DEF IsChange
  <2> QED
    BY <2>2, <2>3 DEF KubeInv
<1>15. CASE ReceiveExpired
  <2>1. /\ stage = "watch" /\ WatchersJoined /\ has' = FALSE /\ cache' = Nothing /\ stage' = "pause"
        /\ UNCHANGED <<api, kept, listed, healthFlags, published, ready>>
    BY <1>15 DEF ReceiveExpired, Received, WatchersJoined
  <2>2. WordInv'
    BY <1>a, <2>1, WordFrame
  <2>3. ViewInv'
    BY <1>a, <2>1, JoinedKeeps DEF Nothing
  <2> QED
    BY <2>2, <2>3 DEF KubeInv
<1>16. CASE Relist
  <2>1. /\ stage = "watch" /\ WatchersJoined /\ missed # {} /\ stage' = "pause"
        /\ UNCHANGED <<api, kept, listed, has, cache, missed, healthFlags, published, ready>>
    BY <1>16 DEF Relist, Recoverable, WatchersJoined
  <2>2. WordInv'
    BY <1>a, <2>1, WordFrame
  <2>3. cache' \in [Resources -> SUBSET Objects]
    BY <1>a, <2>1 DEF ViewInv, KubeTypes
  <2>4. ViewInv'
    BY <1>a, <2>1, <2>3, JoinedKeeps
  <2> QED
    BY <2>2, <2>4 DEF KubeInv
<1>17. CASE FreezeRuntime \/ ResumeRuntime
  <2>1. UNCHANGED <<api, kept, loopVars, watchVars, healthFlags, published, ready>>
    BY <1>17 DEF FreezeRuntime, ResumeRuntime
  <2>2. WordInv'
    BY <1>a, <2>1, WordFrame DEF loopVars
  <2>3. ViewInv'
    BY <1>a, <2>1, ViewFrame
  <2> QED
    BY <2>2, <2>3 DEF KubeInv
<1> QED
  BY <1>1, <1>2, <1>3, <1>4, <1>5, <1>6, <1>7, <1>8, <1>9, <1>10, <1>11, <1>12, <1>13, <1>14, <1>15,
     <1>16, <1>17 DEF KubernetesNext

\* So does no step.
LEMMA KubeStutters == ASSUME KubeInv, UNCHANGED kubeVars PROVE KubeInv'
<1>1. UNCHANGED <<api, kept, loopVars, watchVars, healthFlags, published, ready>>
  BY DEF kubeVars
<1>2. WordInv'
  BY <1>1, WordFrame DEF loopVars, KubeInv
<1>3. ViewInv'
  BY <1>1, ViewFrame DEF KubeInv
<1> QED
  BY <1>2, <1>3 DEF KubeInv

\* The invariant is more than the property.
LEMMA KubePromises == KubeInv => AuthorityTruthful
<1> SUFFICES ASSUME KubeInv PROVE AuthorityTruthful
  OBVIOUS
<1> USE DEF KubeInv, ViewInv
<1>1. \A k \in Resources : Applied(k) = SentAt(k, 1, channel, stream[k])
  <2>1. DOMAIN channel = 1..Len(channel)
    BY DEF KubeTypes
  <2>2. ASSUME NEW k \in Resources
        PROVE  {i \in DOMAIN channel : /\ channel[i].kind = k
                                       /\ channel[i].type \in {"upsert", "delete"}}
                 = Waiting(k, 1, channel)
    BY <2>1 DEF Waiting, IsChange
  <2> QED
    BY <2>2 DEF Applied, SentAt
<1>2. CacheExact
  BY <1>1 DEF CacheExact, CacheInv, Watching
<1>3. WordKept
  BY DEF WordKept, WordInv
<1> QED
  BY <1>2, <1>3 DEF AuthorityTruthful

\* The cache of a controller that knows of nothing missing is what the API server
\* held at one version, and the runtime is ready only on the controller's word, which
\* is that the published snapshot is what the cache asks for: for any kinds, objects
\* and room, and however lists, watches and handoffs overlap (kubernetes.rs
\* Controller::run).
THEOREM AuthorityTruthfulAlways == KubernetesSpec => []AuthorityTruthful
<1>1. KubeInv /\ [KubernetesNext]_kubeVars => KubeInv'
  BY KubeStepKeeps, KubeStutters
<1> QED
  BY <1>1, KubeStarts, KubePromises, PTL DEF KubernetesSpec
=============================================================================
