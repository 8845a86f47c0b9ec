-------------------------- MODULE MemberRetirement --------------------------
(***************************************************************************)
(* Admission gates of pool members across configuration publications       *)
(* (member_admission.rs, retired_members.rs, the gate construction of       *)
(* config.rs and balance.rs, and the connection path of tcp.rs).  A gate    *)
(* is one generation of one member: publishing a document keeps the gates   *)
(* of unchanged members, creates the others and retires what is no longer   *)
(* used.  Connections run against gates they selected from a snapshot that  *)
(* may already have been replaced.                                          *)
(***************************************************************************)
EXTENDS Integers, FiniteSets

CONSTANTS
  Members,     \* named members of the route
  Endpoints,   \* where a member may be
  Transports,  \* outbound and health settings of the route
  Conns,       \* client connections
  MaxGates,    \* gates ever created: the bound on publications
  Capacity     \* entries of the retired-member registry

ASSUME CapacityAssumption == Capacity \in Nat
ASSUME MaxGatesAssumption == MaxGates \in Nat
ASSUME ConnsAssumption == IsFiniteSet(Conns)
ASSUME TransportsAssumption == Transports # {}

VARIABLES
  doc,       \* the published document
  gate,      \* the gate of each of its members, 0 for an absent member
  cand,      \* the candidate snapshot under preparation, or NoCandidate
  phase,     \* "idle", "prepared", or "closing" inside Reservation::commit
  todo,      \* gates the commit has still to retire
  closing,   \* the gate just retired and not yet looked at (0: none)
  bit,       \* "unused", "open" or "retired" for each gate
  count,     \* leases held on each gate
  records,   \* the registry's entries
  pending,   \* reserved entries
  nextId,    \* the next retirement id
  conn       \* each connection: where it is and on which gate

memberVars == <<doc, gate, cand, phase, todo, closing, bit, count, records, pending, nextId, conn>>
registryVars == <<records, pending, nextId>>

Gates == 1..MaxGates
Absent == [state |-> "absent", address |-> "none"]
Member == [state : {"serving", "draining"}, address : Endpoints] \cup {Absent}
Document == [members : [Members -> Member], transport : Transports]
Empty == [members |-> [m \in Members |-> Absent], transport |-> CHOOSE t \in Transports : TRUE]
NoCandidate == [doc |-> Empty, gate |-> [m \in Members |-> 0], fresh |-> {}, slots |-> 0]
Idle == [at |-> "idle", gate |-> 0]

----------------------------------------------------------------------------
(* Preparation and publication; the caller holds `writes` *)

MembersInit ==
  /\ doc = Empty /\ gate = [m \in Members |-> 0] /\ cand = NoCandidate
  /\ phase = "idle" /\ todo = {} /\ closing = 0
  /\ bit = [g \in Gates |-> "unused"] /\ count = [g \in Gates |-> 0]
  /\ records = {} /\ pending = 0 /\ nextId = 1
  /\ conn = [c \in Conns |-> Idle]

\* A member keeps its gate when id, address, desired state and transport are
\* unchanged; a fresh attachment keeps none.
Reusable(d, m, attached) ==
  /\ attached /\ gate[m] # 0 /\ d.transport = doc.transport
  /\ d.members[m] = doc.members[m]

Live(rs) == {r \in rs : count[r.gate] > 0}

\* Registry::reserve: completed entries are pruned, live ones never evicted.
Room(slots) == slots <= Capacity - (Cardinality(Live(records)) + pending)

\* Snapshot::build and retirements_from: the candidate's gates, the plan of
\* what it retires and the reservation for it.
Prepare(d, attached) ==
  LET changed == {m \in Members : d.members[m] # Absent /\ ~Reusable(d, m, attached)}
  IN  /\ phase = "idle"
      /\ \E fresh \in [changed -> {g \in Gates : bit[g] = "unused"}] :
           LET next == [m \in Members |-> IF d.members[m] = Absent THEN 0
                                          ELSE IF m \in changed THEN fresh[m] ELSE gate[m]]
               plan == {gate[m] : m \in Members} \ ({next[m] : m \in Members} \cup {0})
               slots == Cardinality(plan)
           IN  /\ \A m, n \in changed : fresh[m] = fresh[n] => m = n
               /\ slots = 0 \/ Room(slots)
               /\ records' = IF slots = 0 THEN records ELSE Live(records)
               /\ pending' = pending + slots
               /\ cand' = [doc |-> d, gate |-> next, fresh |-> {fresh[m] : m \in changed},
                           slots |-> slots]
               /\ bit' = [g \in Gates |->
                            IF \E m \in changed : fresh[m] = g
                            THEN IF \E m \in changed : fresh[m] = g /\ d.members[m].state = "serving"
                                 THEN "open" ELSE "retired"
                            ELSE bit[g]]
  /\ phase' = "prepared"
  /\ UNCHANGED <<doc, gate, todo, closing, count, nextId, conn>>

\* The candidate loses its compare-and-swap, fails to persist, or its
\* listeners cannot bind: the reservation is returned, nothing was closed.
Abandon ==
  /\ phase = "prepared"
  /\ phase' = "idle" /\ cand' = NoCandidate
  /\ pending' = pending - cand.slots
  /\ bit' = [g \in Gates |-> IF g \in cand.fresh THEN "unused" ELSE bit[g]]
  /\ UNCHANGED <<doc, gate, todo, closing, count, records, nextId, conn>>

\* Reservation::commit returns its slots and starts closing gates.
CommitBegin ==
  /\ phase = "prepared" /\ phase' = "closing"
  /\ pending' = pending - cand.slots
  /\ todo' = {gate[m] : m \in Members} \ ({cand.gate[m] : m \in Members} \cup {0})
  /\ UNCHANGED <<doc, gate, cand, closing, bit, count, records, nextId, conn>>

\* The gate's closed bit is set first: from here no lease can be acquired.
Retire(g) ==
  /\ phase = "closing" /\ closing = 0 /\ g \in todo
  /\ bit' = [bit EXCEPT ![g] = "retired"]
  /\ closing' = g
  /\ UNCHANGED <<doc, gate, cand, phase, todo, count, registryVars, conn>>

\* A gate that still has leases is recorded under the next id.
RecordRetired ==
  /\ closing # 0
  /\ records' = IF count[closing] > 0 THEN records \cup {[id |-> nextId, gate |-> closing]}
                ELSE records
  /\ nextId' = nextId + 1
  /\ todo' = todo \ {closing} /\ closing' = 0
  /\ UNCHANGED <<doc, gate, cand, phase, bit, count, pending, conn>>

\* The closed plan precedes the snapshot becoming visible.
Publish ==
  /\ phase = "closing" /\ todo = {}
  /\ doc' = cand.doc /\ gate' = cand.gate
  /\ phase' = "idle" /\ cand' = NoCandidate
  /\ UNCHANGED <<todo, closing, bit, count, registryVars, conn>>

\* GET of the retired members prunes completed entries; so does a reservation
\* that is then refused for lack of room.
Observe ==
  /\ phase # "closing" /\ records # Live(records)
  /\ records' = Live(records)
  /\ UNCHANGED <<doc, gate, cand, phase, todo, closing, bit, count, pending, nextId, conn>>

----------------------------------------------------------------------------
(* Connections *)

\* A member of the snapshot just loaded whose gate is open.
Select(c) ==
  /\ conn[c] = Idle
  /\ \E m \in Members :
       /\ gate[m] # 0 /\ bit[gate[m]] = "open"
       /\ conn' = [conn EXCEPT ![c] = [at |-> "selected", gate |-> gate[m]]]
  /\ UNCHANGED <<doc, gate, cand, phase, todo, closing, bit, count, registryVars>>

\* Mutant: the lease checks nothing, trusting the selection.
LeaseUnchecked(c) ==
  /\ conn[c].at = "selected"
  /\ count' = [count EXCEPT ![conn[c].gate] = @ + 1]
  /\ conn' = [conn EXCEPT ![c].at = "dialing"]
  /\ UNCHANGED <<doc, gate, cand, phase, todo, closing, bit, registryVars>>

\* The lease: openness and the count share one atomic update; a gate closed
\* since the selection rejects the connection.
Lease(c) ==
  /\ conn[c].at = "selected"
  /\ IF bit[conn[c].gate] = "open"
     THEN /\ count' = [count EXCEPT ![conn[c].gate] = @ + 1]
          /\ conn' = [conn EXCEPT ![c].at = "dialing"]
     ELSE conn' = [conn EXCEPT ![c] = Idle] /\ UNCHANGED count
  /\ UNCHANGED <<doc, gate, cand, phase, todo, closing, bit, registryVars>>

Release(c) ==
  /\ count' = [count EXCEPT ![conn[c].gate] = @ - 1]
  /\ conn' = [conn EXCEPT ![c] = Idle]

\* The dial succeeded: the gate is looked at again before any byte leaves.
Dialed(c) ==
  /\ conn[c].at = "dialing"
  /\ IF bit[conn[c].gate] = "open"
     THEN conn' = [conn EXCEPT ![c].at = "forwarding"] /\ UNCHANGED count
     ELSE Release(c)
  /\ UNCHANGED <<doc, gate, cand, phase, todo, closing, bit, registryVars>>

\* The dial fails, is cancelled, or the stream ends.
Finish(c) ==
  /\ conn[c].at \in {"dialing", "forwarding"} /\ Release(c)
  /\ UNCHANGED <<doc, gate, cand, phase, todo, closing, bit, registryVars>>

MembersNext ==
  \/ \E d \in Document, attached \in BOOLEAN : Prepare(d, attached)
  \/ Abandon \/ CommitBegin \/ RecordRetired \/ Publish \/ Observe
  \/ \E g \in Gates : Retire(g)
  \/ \E c \in Conns : Select(c) \/ Lease(c) \/ Dialed(c) \/ Finish(c)

MembersSpec == MembersInit /\ [][MembersNext]_memberVars

----------------------------------------------------------------------------
(* Properties *)

TypeOK ==
  /\ doc \in Document /\ gate \in [Members -> Gates \cup {0}]
  /\ cand \in [doc : Document, gate : [Members -> Gates \cup {0}], fresh : SUBSET Gates, slots : Nat]
  /\ phase \in {"idle", "prepared", "closing"}
  /\ todo \subseteq Gates /\ closing \in Gates \cup {0}
  /\ bit \in [Gates -> {"unused", "open", "retired"}] /\ count \in [Gates -> Nat]
  /\ records \subseteq [id : Nat, gate : Gates] /\ pending \in Nat /\ nextId \in Nat
  /\ conn \in [Conns -> [at : {"idle", "selected", "dialing", "forwarding"},
                         gate : Gates \cup {0}]]

\* The count of a gate is exactly the connections that dial or forward on it:
\* no lease is lost or released twice by a rejected, cancelled or failed dial.
Holders(g) == {c \in Conns : conn[c].at \in {"dialing", "forwarding"} /\ conn[c].gate = g}
CountExact == \A g \in Gates : count[g] = Cardinality(Holders(g))

\* A retired gate with work left is always listed, so draining a member is
\* observable until its last connection ends.
Looked(g) == bit[g] = "retired" /\ g # closing
RetiredVisible == \A g \in Gates : Looked(g) /\ count[g] > 0 => \E r \in records : r.gate = g

\* The registry never outgrows what was promised: live entries and outstanding
\* reservations fit its capacity at every moment, the commit included.
WithinCapacity == Cardinality(Live(records)) + pending <= Capacity

\* Every reservation is consumed by its publication or returned.
NoReservationLeak == pending = IF phase = "prepared" THEN cand.slots ELSE 0

\* Draining is accounted for: every lease is counted, every drained member
\* with leases is listed, and the list keeps to its limit.
DrainAccounted == CountExact /\ RetiredVisible /\ WithinCapacity /\ NoReservationLeak

\* A member of the published document is admitted exactly when it should
\* serve: no stale plan closes a current gate and no draining member is open.
ServingIffOpen ==
  phase # "closing" =>
  \A m \in Members : doc.members[m] # Absent =>
     gate[m] # 0 /\ (bit[gate[m]] = "open" <=> doc.members[m].state = "serving")

\* A retired gate takes no new work: its leases only go away.
RetirementIsFinal ==
  \A g \in Gates : bit[g] = "retired" /\ bit'[g] # "unused" =>
    bit'[g] = "retired" /\ count'[g] <= count[g]

\* Members drain in the open, admit exactly while they serve, and a retired
\* one stays retired.
MembersExact == [](DrainAccounted /\ ServingIffOpen) /\ [][RetirementIsFinal]_memberVars
=============================================================================
