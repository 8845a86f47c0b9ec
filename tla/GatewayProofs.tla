----------------------------- MODULE GatewayProofs --------------------------
(***************************************************************************)
(* What a process does for streams and datagrams, for any number of         *)
(* clients, addresses and streams: datagram sessions and permits add up     *)
(* (RelaySound), listeners follow the published document through commits,   *)
(* handoff and shutdown (ListenersSound), a native stream ends with its     *)
(* permission and its identity (LeaseSound), and material read from files   *)
(* fits together (MaterialCoherent).                                        *)
(***************************************************************************)
EXTENDS UdpRelay, TcpListeners, AuthorityLease, MaterialReload, FiniteSetTheorems, FunctionTheorems,
        SequenceTheorems, TLAPS

-----------------------------------------------------------------------------
(* The datagram relay *)

Flows == 1..MaxFlows
FlowStates == {"unused", "live", "ended", "joined"}
FlowSessions == [client : Clients \cup {"none"}, state : FlowStates, queued : 0..MaxQueue, backend : Nat]

RelayTypeOK ==
  /\ flows \in [Clients -> 0..MaxFlows] /\ relay \in {"running", "binding", "ended"}
  /\ sequence \in 0..MaxFlows /\ roundRobin \in Nat
  /\ sessions \in [Flows -> FlowSessions]
  /\ capacity \in Nat /\ memory \in Nat

\* Sequences are given out in order, and only sessions that were created live.
SequenceInv ==
  \A q \in Flows : (q > sequence => sessions[q].state = "unused")
                   /\ (sessions[q].state = "live" => sessions[q].client \in Clients)

\* A live session is its client's flow; none is left when the listener ended.
LiveInv ==
  /\ relay # "ended" => \A q \in Flows : sessions[q].state = "live" => flows[sessions[q].client] = q
  /\ relay = "ended" => Live = {}

\* The client being bound has no flow yet, and there is room for it.
BindingInv == relay = "binding" => binding \in Clients /\ flows[binding] = 0 /\ FlowCount(flows) < MaxSessions

RelayInv ==
  /\ RelayTypeOK /\ SequenceInv /\ LiveInv /\ BindingInv
  /\ FlowCount(flows) <= MaxSessions
  /\ capacity + Held = MaxTotal
  /\ memory + Held + Buffered = MaxMemory

\* The bounds as the proofs use them.
LEMMA RelayConstants ==
  /\ Backends \in Nat /\ Backends > 0 /\ MaxSessions \in Nat /\ MaxSessions > 0 /\ MaxTotal \in Nat
  /\ MaxMemory \in Nat /\ MaxQueue \in Nat /\ MaxQueue > 0 /\ MaxFlows \in Nat /\ IsFiniteSet(Clients)
BY RelayAssumption

\* Live sessions, flows and queued datagrams are finitely many.
LEMMA RelayFinite ==
  /\ IsFiniteSet(Live) /\ Cardinality(Live) \in Nat
  /\ IsFiniteSet(Pending) /\ Buffered \in Nat
<1>1. IsFiniteSet(1..MaxFlows) /\ IsFiniteSet(1..MaxQueue)
  BY RelayConstants, FS_Interval
<1>2. IsFiniteSet((1..MaxFlows) \X (1..MaxQueue))
  BY <1>1, FS_Product
<1>3. IsFiniteSet(Live)
  BY <1>1, FS_Subset DEF Live
<1>4. IsFiniteSet(Pending)
  BY <1>2, FS_Subset DEF Pending
<1> QED BY <1>3, <1>4, FS_CardinalityType DEF Buffered

\* The number of flows of a table.
Entries(table) == {c \in Clients : table[c] # 0}

\* The flow table has finitely many entries.
LEMMA EntriesFinite ==
  ASSUME NEW table
  PROVE  IsFiniteSet(Entries(table)) /\ FlowCount(table) \in Nat /\ FlowCount(table) = Cardinality(Entries(table))
<1>1. IsFiniteSet(Entries(table))
  BY RelayConstants, FS_Subset DEF Entries
<1>2. FlowCount(table) = Cardinality(Entries(table))
  BY DEF FlowCount, Entries
<1> QED BY <1>1, <1>2, FS_CardinalityType

\* A table with fewer entries counts no more, one with a new entry one more.
LEMMA FlowCountLess ==
  ASSUME NEW old, NEW new, \A c \in Clients : new[c] # 0 => old[c] # 0
  PROVE  FlowCount(new) <= FlowCount(old)
<1>1. Entries(new) \subseteq Entries(old)
  BY DEF Entries
<1> QED BY <1>1, EntriesFinite, FS_Subset

\* Setting one entry adds at most one.
LEMMA FlowCountMore ==
  ASSUME NEW old, NEW new, NEW d \in Clients, \A c \in Clients : c # d => new[c] = old[c]
  PROVE  FlowCount(new) <= FlowCount(old) + 1
<1>1. Entries(new) \subseteq Entries(old) \cup {d}
  BY DEF Entries
<1>2. IsFiniteSet(Entries(old) \cup {d}) /\ Cardinality(Entries(old) \cup {d}) <= Cardinality(Entries(old)) + 1
  <2>1. IsFiniteSet(Entries(old)) /\ Cardinality(Entries(old)) \in Nat
    BY EntriesFinite
  <2> QED BY <2>1, FS_AddElement
<1>3. Cardinality(Entries(new)) <= Cardinality(Entries(old) \cup {d})
  BY <1>1, <1>2, FS_Subset
<1>4. Cardinality(Entries(old) \cup {d}) \in Nat
  BY <1>2, FS_CardinalityType
<1> QED BY <1>2, <1>3, <1>4, EntriesFinite

\* The datagrams queued for one session, and their number.
QueueOf(q) == {p \in (1..MaxFlows) \X (1..MaxQueue) : p[1] = q /\ p[2] <= sessions[q].queued}

\* A session has as many pending datagrams as its queue counts.
LEMMA QueueCounted ==
  ASSUME RelayTypeOK, NEW q \in Flows
  PROVE  IsFiniteSet(QueueOf(q)) /\ Cardinality(QueueOf(q)) = sessions[q].queued
<1> DEFINE n == sessions[q].queued
           f == [i \in 1..n |-> <<q, i>>]
<1>1. n \in 0..MaxQueue /\ n \in Nat
  BY RelayConstants DEF RelayTypeOK, FlowSessions
<1>2. IsFiniteSet(1..n) /\ Cardinality(1..n) = n
  <2> HIDE DEF n
  <2>1. IsFiniteSet(1..n) /\ Cardinality(1..n) = IF 1 > n THEN 0 ELSE n - 1 + 1
    BY <1>1, FS_Interval
  <2> QED BY <1>1, <2>1
<1>3. f \in Bijection(1..n, QueueOf(q))
  <2> HIDE DEF n
  <2>1. \A i \in 1..n : <<q, i>> \in QueueOf(q)
    BY <1>1, RelayConstants DEF QueueOf, Flows, n
  <2>2. \A p \in QueueOf(q) : p[2] \in 1..n /\ p = <<q, p[2]>>
    BY <1>1, RelayConstants DEF QueueOf, n
  <2>3. f \in [1..n -> QueueOf(q)]
    BY <2>1
  <2>4. \A i, j \in 1..n : f[i] = f[j] => i = j
    OBVIOUS
  <2>5. \A p \in QueueOf(q) : \E i \in 1..n : f[i] = p
    BY <2>2
  <2> HIDE DEF f
  <2>6. f \in Injection(1..n, QueueOf(q)) /\ f \in Surjection(1..n, QueueOf(q))
    BY <2>3, <2>4, <2>5, Fun_IsInj, Fun_IsSurj
  <2> QED BY <2>6 DEF Bijection
<1>4. ExistsBijection(1..n, QueueOf(q))
  BY <1>3 DEF ExistsBijection
<1> QED BY <1>2, <1>4, FS_Bijection

\* One session changes: what becomes of the live ones and of their datagrams.
LEMMA SessionFields ==
  ASSUME RelayTypeOK, NEW q \in Flows
  PROVE  /\ sessions[q] \in FlowSessions /\ sessions[q].queued \in Nat /\ sessions[q].queued <= MaxQueue
         /\ sessions[q].state \in FlowStates /\ q \in Nat
BY RelayConstants DEF RelayTypeOK, FlowSessions, Flows

\* A datagram more or less in the queue of a live session.
LEMMA QueueGrows ==
  ASSUME RelayInv, NEW q \in Flows, sessions[q].state = "live", sessions[q].queued < MaxQueue,
         sessions' = [sessions EXCEPT ![q].queued = @ + 1]
  PROVE  /\ sessions' \in [Flows -> FlowSessions] /\ Live' = Live /\ Buffered' = Buffered + 1
         /\ \A p \in Flows : sessions'[p].state = sessions[p].state /\ sessions'[p].client = sessions[p].client
<1> DEFINE n == sessions[q].queued + 1
<1>0. RelayTypeOK /\ sessions \in [Flows -> FlowSessions]
  BY DEF RelayInv, RelayTypeOK
<1>1. n \in 1..MaxQueue /\ sessions[q] \in FlowSessions /\ sessions[q].queued \in Nat /\ q \in Nat
  BY <1>0, SessionFields, RelayConstants
<1>2. sessions'[q] = [sessions[q] EXCEPT !.queued = n] /\ \A p \in Flows : p # q => sessions'[p] = sessions[p]
  BY <1>0
<1>3. /\ sessions'[q] \in FlowSessions /\ sessions'[q].queued = n
      /\ sessions'[q].state = sessions[q].state /\ sessions'[q].client = sessions[q].client
  <2>1. PICK u \in FlowSessions : u = sessions[q]
    BY <1>1
  <2>2. PICK m \in 0..MaxQueue : m = n
    BY <1>1
  <2>3. LET w == [u EXCEPT !.queued = m]
        IN  w \in FlowSessions /\ w.queued = m /\ w.state = u.state /\ w.client = u.client
    BY DEF FlowSessions
  <2> QED BY <1>2, <2>1, <2>2, <2>3
<1>4. \A p \in Flows : sessions'[p].state = sessions[p].state /\ sessions'[p].client = sessions[p].client
  BY <1>2, <1>3
<1>5. sessions' \in [Flows -> FlowSessions]
  <2>1. \A p \in Flows : sessions'[p] \in FlowSessions
    BY <1>0, <1>2, <1>3
  <2>2. sessions' = [p \in Flows |-> sessions'[p]]
    BY <1>0
  <2> QED BY <2>1, <2>2
<1>6. Live' = Live
  BY <1>4 DEF Live, Flows
<1>7. Pending' = Pending \cup {<<q, n>>} /\ <<q, n>> \notin Pending
  <2> HIDE DEF n
  <2>1. q \in Live /\ <<q, n>> \in (1..MaxFlows) \X (1..MaxQueue)
    BY <1>1 DEF Live, Flows
  <2>2. sessions[q].queued = n - 1 /\ n \in Nat /\ sessions'[q].queued = n
    BY <1>1, <1>3, RelayConstants DEF n
  <2>3. <<q, n>> \notin Pending
    BY <2>2 DEF Pending
  <2>4. ASSUME NEW p \in (1..MaxFlows) \X (1..MaxQueue) PROVE p \in Pending' <=> p \in Pending \/ p = <<q, n>>
    <3>1. CASE p[1] = q
      BY <1>6, <2>1, <2>2, <3>1, RelayConstants DEF Pending
    <3>2. CASE p[1] # q
      BY <1>2, <1>6, <3>2 DEF Pending, Flows
    <3> QED BY <3>1, <3>2
  <2> QED BY <2>1, <2>3, <2>4 DEF Pending
<1>8. Buffered' = Buffered + 1
  BY <1>7, RelayFinite, FS_AddElement DEF Buffered
<1> QED BY <1>4, <1>5, <1>6, <1>8

\* A datagram leaves the queue of a live session.
LEMMA QueueShrinks ==
  ASSUME RelayInv, NEW q \in Flows, sessions[q].state = "live", sessions[q].queued > 0,
         sessions' = [sessions EXCEPT ![q].queued = @ - 1]
  PROVE  /\ sessions' \in [Flows -> FlowSessions] /\ Live' = Live /\ Buffered' = Buffered - 1
         /\ \A p \in Flows : sessions'[p].state = sessions[p].state /\ sessions'[p].client = sessions[p].client
<1> DEFINE n == sessions[q].queued
<1>0. RelayTypeOK /\ sessions \in [Flows -> FlowSessions]
  BY DEF RelayInv, RelayTypeOK
<1>1. n \in 1..MaxQueue /\ sessions[q] \in FlowSessions /\ q \in Nat
  BY <1>0, SessionFields, RelayConstants
<1>2. sessions'[q] = [sessions[q] EXCEPT !.queued = n - 1] /\ \A p \in Flows : p # q => sessions'[p] = sessions[p]
  BY <1>0
<1>3. /\ sessions'[q] \in FlowSessions /\ sessions'[q].queued = n - 1
      /\ sessions'[q].state = sessions[q].state /\ sessions'[q].client = sessions[q].client
  <2>1. PICK u \in FlowSessions : u = sessions[q]
    BY <1>1
  <2>2. PICK m \in 0..MaxQueue : m = n - 1
    BY <1>1, RelayConstants
  <2>3. LET w == [u EXCEPT !.queued = m]
        IN  w \in FlowSessions /\ w.queued = m /\ w.state = u.state /\ w.client = u.client
    BY DEF FlowSessions
  <2> QED BY <1>2, <2>1, <2>2, <2>3
<1>4. \A p \in Flows : sessions'[p].state = sessions[p].state /\ sessions'[p].client = sessions[p].client
  BY <1>2, <1>3
<1>5. sessions' \in [Flows -> FlowSessions]
  <2>1. \A p \in Flows : sessions'[p] \in FlowSessions
    BY <1>0, <1>2, <1>3
  <2>2. sessions' = [p \in Flows |-> sessions'[p]]
    BY <1>0
  <2> QED BY <2>1, <2>2
<1>6. Live' = Live
  BY <1>4 DEF Live, Flows
<1>7. Pending' = Pending \ {<<q, n>>} /\ <<q, n>> \in Pending
  <2>1. q \in Live /\ <<q, n>> \in (1..MaxFlows) \X (1..MaxQueue) /\ n \in Nat
    BY <1>1, RelayConstants DEF Live, Flows
  <2>2. <<q, n>> \in Pending
    BY <2>1 DEF Pending
  <2>3. ASSUME NEW p \in (1..MaxFlows) \X (1..MaxQueue) PROVE p \in Pending' <=> p \in Pending /\ p # <<q, n>>
    <3>1. CASE p[1] = q
      BY <1>3, <1>6, <2>1, <3>1, RelayConstants DEF Pending
    <3>2. CASE p[1] # q
      BY <1>2, <1>6, <3>2 DEF Pending, Flows
    <3> QED BY <3>1, <3>2
  <2> QED BY <2>2, <2>3 DEF Pending
<1>8. Buffered' = Buffered - 1
  BY <1>7, RelayFinite, FS_RemoveElement DEF Buffered
<1> QED BY <1>4, <1>5, <1>6, <1>8

\* A session that ends takes its permit and its datagrams with it.
LEMMA SessionReleased ==
  ASSUME RelayInv, NEW q \in Flows, sessions[q].state = "live",
         sessions' = [sessions EXCEPT ![q].state = "ended", ![q].queued = 0]
  PROVE  /\ sessions' \in [Flows -> FlowSessions] /\ Live' = Live \ {q}
         /\ Cardinality(Live') = Cardinality(Live) - 1
         /\ Buffered' = Buffered - sessions[q].queued
         /\ sessions'[q].state = "ended"
         /\ \A p \in Flows : p # q => sessions'[p] = sessions[p]
<1>0. RelayTypeOK /\ sessions \in [Flows -> FlowSessions]
  BY DEF RelayInv, RelayTypeOK
<1>1. sessions[q] \in FlowSessions /\ q \in Nat
  BY <1>0, SessionFields
<1>2. /\ sessions'[q] = [sessions[q] EXCEPT !.state = "ended", !.queued = 0]
      /\ \A p \in Flows : p # q => sessions'[p] = sessions[p]
  BY <1>0
<1>3. sessions'[q] \in FlowSessions /\ sessions'[q].state = "ended"
  <2>1. PICK u \in FlowSessions : u = sessions[q]
    BY <1>1
  <2>2. PICK x \in FlowStates, m \in 0..MaxQueue : x = "ended" /\ m = 0
    BY RelayConstants DEF FlowStates
  <2>3. LET w == [u EXCEPT !.state = x, !.queued = m]
        IN  w \in FlowSessions /\ w.state = x
    BY DEF FlowSessions
  <2> QED BY <1>2, <2>1, <2>2, <2>3
<1>4. sessions' \in [Flows -> FlowSessions]
  <2>1. \A p \in Flows : sessions'[p] \in FlowSessions
    BY <1>0, <1>2, <1>3
  <2>2. sessions' = [p \in Flows |-> sessions'[p]]
    BY <1>0
  <2> QED BY <2>1, <2>2
<1>5. Live' = Live \ {q} /\ q \in Live
  BY <1>2, <1>3 DEF Live, Flows
<1>6. Cardinality(Live') = Cardinality(Live) - 1
  BY <1>5, RelayFinite, FS_RemoveElement
<1>7. Pending' = Pending \ QueueOf(q) /\ Pending \cap QueueOf(q) = QueueOf(q)
  <2>1. ASSUME NEW p \in (1..MaxFlows) \X (1..MaxQueue)
        PROVE  (p \in Pending' <=> p \in Pending /\ p \notin QueueOf(q)) /\ (p \in QueueOf(q) => p \in Pending)
    <3>1. CASE p[1] = q
      BY <1>5, <3>1 DEF Pending, QueueOf
    <3>2. CASE p[1] # q
      BY <1>2, <1>5, <3>2 DEF Pending, QueueOf, Flows
    <3> QED BY <3>1, <3>2
  <2> QED BY <2>1 DEF Pending, QueueOf
<1>8. Buffered' = Buffered - sessions[q].queued
  <2>1. Cardinality(Pending \ QueueOf(q)) = Cardinality(Pending) - Cardinality(Pending \cap QueueOf(q))
    BY RelayFinite, FS_Difference
  <2>2. Cardinality(QueueOf(q)) = sessions[q].queued
    BY <1>0, QueueCounted
  <2> QED BY <1>7, <2>1, <2>2 DEF Buffered
<1> QED BY <1>2, <1>3, <1>4, <1>5, <1>6, <1>8

\* A datagram enters or leaves the queue of a live session.
LEMMA ReceiveKnownKeeps ==
  ASSUME RelayInv, NEW c \in Clients, ReceiveKnown(c)
  PROVE  RelayInv'
<1> DEFINE q == flows[c]
<1>1. UNCHANGED <<flows, relay, binding, sequence, roundRobin, capacity>> /\ memory' = memory - 1
      /\ memory > 0 /\ memory \in Nat
  BY DEF ReceiveKnown, RelayInv, RelayTypeOK
<1>2. q \in Flows /\ sessions[q].state = "live" /\ sessions[q].queued < MaxQueue
      /\ sessions' = [sessions EXCEPT ![q].queued = @ + 1]
  BY RelayConstants DEF ReceiveKnown, SenderClosed, RelayInv, RelayTypeOK, Flows
<1> HIDE DEF q
<1>3. /\ sessions' \in [Flows -> FlowSessions] /\ Live' = Live /\ Buffered' = Buffered + 1
      /\ \A p \in Flows : sessions'[p].state = sessions[p].state /\ sessions'[p].client = sessions[p].client
  BY <1>2, QueueGrows
<1>4. RelayTypeOK' /\ SequenceInv' /\ LiveInv' /\ BindingInv'
  <2>1. RelayTypeOK'
    <3>1. memory' \in Nat
      BY <1>1
    <3> QED BY <1>1, <1>3, <3>1 DEF RelayInv, RelayTypeOK
  <2>2. SequenceInv'
    BY <1>1, <1>3 DEF RelayInv, SequenceInv
  <2>3. LiveInv'
    BY <1>1, <1>3 DEF RelayInv, LiveInv
  <2>4. BindingInv'
    BY <1>1 DEF RelayInv, BindingInv, FlowCount
  <2> QED BY <2>1, <2>2, <2>3, <2>4
<1>5. Held' = Held /\ Held \in Nat
  BY <1>1, <1>3, RelayFinite DEF Held
<1>6. FlowCount(flows)' = FlowCount(flows)
  BY <1>1 DEF FlowCount
<1> QED BY <1>1, <1>3, <1>4, <1>5, <1>6, RelayFinite, RelayConstants DEF RelayInv

\* A forwarded datagram gives its permit back.
LEMMA ForwardKeeps ==
  ASSUME RelayInv, NEW q \in Flows, Forward(q)
  PROVE  RelayInv'
<1>1. UNCHANGED <<flows, relay, binding, sequence, roundRobin, capacity>> /\ memory' = memory + 1
      /\ memory \in Nat /\ sessions[q].state = "live" /\ sessions[q].queued > 0
      /\ sessions' = [sessions EXCEPT ![q].queued = @ - 1]
  BY DEF Forward, Live, RelayInv, RelayTypeOK
<1>3. /\ sessions' \in [Flows -> FlowSessions] /\ Live' = Live /\ Buffered' = Buffered - 1
      /\ \A p \in Flows : sessions'[p].state = sessions[p].state /\ sessions'[p].client = sessions[p].client
  BY <1>1, QueueShrinks
<1>4. RelayTypeOK' /\ SequenceInv' /\ LiveInv' /\ BindingInv'
  BY <1>1, <1>3 DEF RelayInv, RelayTypeOK, SequenceInv, LiveInv, BindingInv, FlowCount, Flows
<1>5. Held' = Held /\ Held \in Nat
  BY <1>1, <1>3, RelayFinite DEF Held
<1>6. FlowCount(flows)' = FlowCount(flows)
  BY <1>1 DEF FlowCount
<1> QED BY <1>1, <1>3, <1>4, <1>5, <1>6, RelayFinite, RelayConstants DEF RelayInv

\* A session that ends gives back its permit, its buffer and its queue.
LEMMA SessionEndsKeeps ==
  ASSUME RelayInv, NEW q \in Flows, SessionEnds(q)
  PROVE  RelayInv'
<1>1. UNCHANGED <<flows, relay, binding, sequence, roundRobin>>
      /\ capacity' = capacity + 1 /\ memory' = memory + 1 + sessions[q].queued
      /\ sessions[q].state = "live" /\ q \in Live
      /\ sessions' = [sessions EXCEPT ![q].state = "ended", ![q].queued = 0]
      /\ capacity \in Nat /\ memory \in Nat
  BY DEF SessionEnds, Released, Live, RelayInv, RelayTypeOK
<1>2. /\ sessions' \in [Flows -> FlowSessions] /\ Live' = Live \ {q}
      /\ Cardinality(Live') = Cardinality(Live) - 1
      /\ Buffered' = Buffered - sessions[q].queued
      /\ sessions'[q].state = "ended"
      /\ \A p \in Flows : p # q => sessions'[p] = sessions[p]
  BY <1>1, SessionReleased
<1>3. sessions[q].queued \in Nat
  BY SessionFields DEF RelayInv
<1>4. RelayTypeOK'
  BY <1>1, <1>2, <1>3 DEF RelayInv, RelayTypeOK
<1>5. SequenceInv' /\ LiveInv' /\ BindingInv'
  <2>1. SequenceInv'
    <3>1. ~(q > sequence)
      BY <1>1 DEF RelayInv, SequenceInv
    <3> QED BY <1>1, <1>2, <3>1 DEF RelayInv, SequenceInv
  <2>2. LiveInv'
    BY <1>1, <1>2 DEF RelayInv, LiveInv, Live
  <2> QED BY <1>1, <2>1, <2>2 DEF RelayInv, BindingInv, FlowCount
<1>6. Held' = Held - 1 /\ Held \in Nat
  BY <1>1, <1>2, RelayFinite DEF Held
<1>7. FlowCount(flows)' = FlowCount(flows)
  BY <1>1 DEF FlowCount
<1> QED BY <1>1, <1>2, <1>3, <1>4, <1>5, <1>6, <1>7, RelayFinite, RelayConstants DEF RelayInv

\* A client without a working flow: its closed flow is forgotten and, within the
\* limits, permits for a session and a buffer are taken.
LEMMA ReceiveNewKeeps ==
  ASSUME RelayInv, NEW c \in Clients, ReceiveNew(c)
  PROVE  RelayInv'
<1> DEFINE kept == [flows EXCEPT ![c] = 0]
<1>1. UNCHANGED <<sequence, roundRobin, sessions>> /\ flows' = kept /\ relay = "running"
      /\ (flows[c] = 0 \/ SenderClosed(flows[c]))
      /\ flows \in [Clients -> 0..MaxFlows] /\ capacity \in Nat /\ memory \in Nat
  BY DEF ReceiveNew, RelayInv, RelayTypeOK
<1>2. flows'[c] = 0 /\ \A d \in Clients : d # c => flows'[d] = flows[d]
  BY <1>1
<1>3. flows' \in [Clients -> 0..MaxFlows]
  BY <1>1, RelayConstants
<1>4. FlowCount(flows') <= FlowCount(flows) /\ FlowCount(flows') \in Nat /\ FlowCount(flows) \in Nat
      /\ FlowCount(flows)' = FlowCount(flows')
  <2>1. \A d \in Clients : flows'[d] # 0 => flows[d] # 0
    BY <1>2
  <2> QED BY <2>1, FlowCountLess, EntriesFinite DEF FlowCount
<1>5. Live' = Live /\ Buffered' = Buffered /\ SequenceInv'
  BY <1>1 DEF Live, Buffered, Pending, RelayInv, SequenceInv
<1>6. \A q \in Flows : sessions[q].state = "live" => flows'[sessions[q].client] = q
  BY <1>1, <1>2 DEF RelayInv, LiveInv, SequenceInv, SenderClosed, Flows
<1>7. CASE FlowCount(kept) < MaxSessions /\ capacity > 0 /\ memory > 0
  <2>1. relay' = "binding" /\ binding' = c /\ capacity' = capacity - 1 /\ memory' = memory - 1
    BY <1>7 DEF ReceiveNew
  <2>2. RelayTypeOK' /\ LiveInv'
    BY <1>1, <1>3, <1>6, <1>7, <2>1 DEF RelayInv, RelayTypeOK, LiveInv
  <2>3. BindingInv'
    BY <1>1, <1>2, <1>4, <1>7, <2>1 DEF BindingInv
  <2>4. Held' = Held + 1 /\ Held \in Nat
    BY <1>1, <1>5, <2>1, RelayFinite DEF Held
  <2> QED BY <1>1, <1>4, <1>5, <1>7, <2>1, <2>2, <2>3, <2>4, RelayFinite, RelayConstants DEF RelayInv
<1>8. CASE ~(FlowCount(kept) < MaxSessions /\ capacity > 0 /\ memory > 0)
  <2>1. UNCHANGED <<relay, binding, capacity, memory>>
    BY <1>8 DEF ReceiveNew
  <2>2. RelayTypeOK' /\ LiveInv' /\ BindingInv'
    BY <1>1, <1>3, <1>6, <2>1 DEF RelayInv, RelayTypeOK, LiveInv, BindingInv
  <2>3. Held' = Held
    BY <1>5, <2>1 DEF Held
  <2> QED BY <1>4, <1>5, <2>1, <2>2, <2>3, RelayConstants DEF RelayInv
<1> QED BY <1>7, <1>8

\* An abandoned bind gives back both permits.
LEMMA BindAbandonedKeeps ==
  ASSUME RelayInv, BindAbandoned
  PROVE  RelayInv'
<1>1. UNCHANGED <<flows, sequence, roundRobin, sessions>> /\ relay = "binding" /\ relay' = "running"
      /\ capacity' = capacity + 1 /\ memory' = memory + 1 /\ capacity \in Nat /\ memory \in Nat
  BY DEF BindAbandoned, RelayInv, RelayTypeOK
<1>2. Live' = Live /\ Buffered' = Buffered /\ SequenceInv' /\ FlowCount(flows)' = FlowCount(flows)
  BY <1>1 DEF Live, Buffered, Pending, RelayInv, SequenceInv, FlowCount
<1>3. RelayTypeOK' /\ LiveInv' /\ BindingInv'
  BY <1>1 DEF RelayInv, RelayTypeOK, LiveInv, BindingInv
<1>4. Held' = Held - 1 /\ Held \in Nat
  BY <1>1, <1>2, RelayFinite DEF Held
<1> QED BY <1>1, <1>2, <1>3, <1>4, RelayFinite, RelayConstants DEF RelayInv

\* The new session is its client's only flow.
LEMMA BoundKeeps ==
  ASSUME RelayInv, Bound
  PROVE  RelayInv'
<1> DEFINE q == sequence + 1
           first == IF memory > 0 THEN 1 ELSE 0
           s == [client |-> binding, state |-> "live", queued |-> first, backend |-> roundRobin % Backends]
<1>1. /\ relay = "binding" /\ relay' = "running" /\ sequence < MaxFlows /\ sequence' = q
      /\ roundRobin' = roundRobin + 1 /\ capacity' = capacity
      /\ flows' = [flows EXCEPT ![binding] = q] /\ sessions' = [sessions EXCEPT ![q] = s]
      /\ memory' = memory - first
  <2>1. memory \in Nat
    BY DEF RelayInv, RelayTypeOK
  <2> QED BY <2>1 DEF Bound
<1>2. /\ q \in Flows /\ sessions[q].state = "unused" /\ binding \in Clients /\ flows[binding] = 0
      /\ FlowCount(flows) < MaxSessions /\ capacity \in Nat /\ memory \in Nat /\ sequence \in Nat /\ roundRobin \in Nat
      /\ sessions \in [Flows -> FlowSessions] /\ flows \in [Clients -> 0..MaxFlows]
  BY <1>1, RelayConstants DEF RelayInv, RelayTypeOK, SequenceInv, BindingInv, Flows
<1>3. s \in FlowSessions /\ s.state = "live" /\ s.client = binding /\ s.queued = first /\ first \in {0, 1}
  <2>1. roundRobin % Backends \in Nat
    BY <1>2, RelayConstants
  <2>2. first \in 0..MaxQueue /\ first \in {0, 1}
    BY RelayConstants
  <2> HIDE DEF first
  <2> QED BY <1>2, <2>1, <2>2 DEF FlowSessions, FlowStates
<1>4. memory' \in Nat
  BY <1>1, <1>2
<1> HIDE DEF s, first
<1>5. sessions'[q] = s /\ \A p \in Flows : p # q => sessions'[p] = sessions[p]
  BY <1>1, <1>2
<1>6. flows'[binding] = q /\ \A d \in Clients : d # binding => flows'[d] = flows[d]
  BY <1>1, <1>2
<1>7. RelayTypeOK'
  <2>1. sessions' \in [Flows -> FlowSessions]
    BY <1>1, <1>2, <1>3
  <2>2. flows' \in [Clients -> 0..MaxFlows]
    BY <1>1, <1>2, RelayConstants DEF Flows
  <2>3. sequence' \in 0..MaxFlows
    BY <1>1, <1>2, RelayConstants DEF Flows
  <2> QED BY <1>1, <1>2, <1>4, <2>1, <2>2, <2>3 DEF RelayTypeOK
<1>8. SequenceInv'
  <2> SUFFICES ASSUME NEW p \in Flows
               PROVE  /\ p > sequence' => sessions'[p].state = "unused"
                      /\ sessions'[p].state = "live" => sessions'[p].client \in Clients
    BY DEF SequenceInv
  <2>1. CASE p = q
    BY <1>1, <1>2, <1>3, <1>5, <2>1
  <2>2. CASE p # q
    <3>1. p > sequence' => p > sequence
      BY <1>1, <1>2 DEF Flows
    <3> QED BY <1>5, <2>2, <3>1 DEF RelayInv, SequenceInv
  <2> QED BY <2>1, <2>2
<1>9. LiveInv' /\ BindingInv'
  <2>1. \A p \in Flows : sessions'[p].state = "live" => flows'[sessions'[p].client] = p
    <3> SUFFICES ASSUME NEW p \in Flows, sessions'[p].state = "live" PROVE flows'[sessions'[p].client] = p
      OBVIOUS
    <3>1. CASE p = q
      BY <1>3, <1>5, <1>6, <3>1
    <3>2. CASE p # q
      <4>1. sessions'[p] = sessions[p] /\ sessions[p].client \in Clients /\ flows[sessions[p].client] = p
        BY <1>1, <1>5, <3>2 DEF RelayInv, SequenceInv, LiveInv
      <4>2. sessions[p].client # binding
        BY <1>2, <4>1, RelayConstants DEF Flows
      <4> QED BY <1>6, <4>1, <4>2
    <3> QED BY <3>1, <3>2
  <2> QED BY <1>1, <2>1 DEF LiveInv, BindingInv
<1>10. FlowCount(flows)' <= MaxSessions
  <2>1. FlowCount(flows') <= FlowCount(flows) + 1
    BY <1>2, <1>6, FlowCountMore
  <2>2. FlowCount(flows)' = FlowCount(flows')
    BY DEF FlowCount
  <2> QED BY <1>2, <2>1, <2>2, EntriesFinite, RelayConstants
<1>11. Live' = Live \cup {q} /\ q \notin Live
  BY <1>2, <1>3, <1>5 DEF Live, Flows
<1>12. Held' = Held /\ Held \in Nat
  <2>1. Cardinality(Live') = Cardinality(Live) + 1
    BY <1>11, RelayFinite, FS_AddElement
  <2> QED BY <1>1, <2>1, RelayFinite DEF Held
<1>13. Buffered' = Buffered + first
  <2>1. \A p \in (1..MaxFlows) \X (1..MaxQueue) : p \in Pending' <=> p \in Pending \/ (p[1] = q /\ p[2] <= first)
    <3> SUFFICES ASSUME NEW p \in (1..MaxFlows) \X (1..MaxQueue)
                 PROVE  p \in Pending' <=> p \in Pending \/ (p[1] = q /\ p[2] <= first)
      OBVIOUS
    <3>1. CASE p[1] = q
      BY <1>3, <1>5, <1>11, <3>1 DEF Pending
    <3>2. CASE p[1] # q
      BY <1>5, <1>11, <3>2 DEF Pending, Flows
    <3> QED BY <3>1, <3>2
  <2>2. CASE first = 0
    <3>1. Pending' = Pending
      BY <2>1, <2>2 DEF Pending
    <3> QED BY <2>2, <3>1, RelayFinite DEF Buffered
  <2>3. CASE first = 1
    <3>1. <<q, 1>> \in (1..MaxFlows) \X (1..MaxQueue)
      BY <1>2, RelayConstants DEF Flows
    <3>2. <<q, 1>> \notin Pending
      BY <1>11 DEF Pending
    <3>3. \A p \in (1..MaxFlows) \X (1..MaxQueue) : p[1] = q /\ p[2] <= 1 <=> p = <<q, 1>>
      BY <1>2, RelayConstants DEF Flows
    <3>4. Pending' = Pending \cup {<<q, 1>>}
      BY <2>1, <2>3, <3>1, <3>3 DEF Pending
    <3> QED BY <2>3, <3>2, <3>4, RelayFinite, FS_AddElement DEF Buffered
  <2> QED BY <1>3, <2>2, <2>3
<1> QED BY <1>1, <1>2, <1>3, <1>7, <1>8, <1>9, <1>10, <1>12, <1>13, RelayFinite, RelayConstants DEF RelayInv

\* A late join removes only flows whose session is over.
LEMMA JoinKeeps ==
  ASSUME RelayInv, NEW q \in Flows, Join(q)
  PROVE  RelayInv'
<1>1. UNCHANGED <<relay, binding, sequence, roundRobin, capacity, memory>> /\ relay = "running"
      /\ sessions[q].state = "ended" /\ flows' = JoinedFlows(q)
      /\ sessions' = [sessions EXCEPT ![q].state = "joined"]
      /\ sessions \in [Flows -> FlowSessions] /\ flows \in [Clients -> 0..MaxFlows]
  BY DEF Join, RelayInv, RelayTypeOK
<1>2. \A p \in Flows : p # q => sessions'[p] = sessions[p]
  BY <1>1
<1>3. sessions'[q] \in FlowSessions /\ sessions'[q].state = "joined"
  <2>1. PICK u \in FlowSessions : u = sessions[q]
    BY <1>1
  <2>2. LET w == [u EXCEPT !.state = "joined"] IN w \in FlowSessions /\ w.state = "joined"
    BY DEF FlowSessions, FlowStates
  <2> QED BY <1>1, <2>1, <2>2
<1>4. sessions' \in [Flows -> FlowSessions]
  <2>1. \A p \in Flows : sessions'[p] \in FlowSessions
    BY <1>1, <1>2, <1>3
  <2>2. sessions' = [p \in Flows |-> sessions'[p]]
    BY <1>1
  <2> QED BY <2>1, <2>2
<1>5. Live' = Live /\ q \notin Live
  BY <1>1, <1>2, <1>3 DEF Live, Flows
<1>6. Pending' = Pending
  <2>1. \A p \in (1..MaxFlows) \X (1..MaxQueue) : p \in Pending' <=> p \in Pending
    BY <1>2, <1>5 DEF Pending, Flows
  <2> QED BY <2>1 DEF Pending
<1>7. \A c \in Clients : flows'[c] = flows[c] \/ (flows'[c] = 0 /\ (flows[c] = q \/ SenderClosed(flows[c])))
  BY <1>1 DEF JoinedFlows
<1>8. flows' \in [Clients -> 0..MaxFlows]
  BY <1>1, RelayConstants DEF JoinedFlows
<1>9. RelayTypeOK'
  BY <1>1, <1>4, <1>8 DEF RelayInv, RelayTypeOK
<1>10. SequenceInv' /\ BindingInv'
  <2>1. ~(q > sequence)
    BY <1>1 DEF RelayInv, SequenceInv
  <2> QED BY <1>1, <1>2, <1>3, <2>1 DEF RelayInv, SequenceInv, BindingInv
<1>11. LiveInv'
  <2>1. \A p \in Flows : sessions'[p].state = "live" => flows'[sessions'[p].client] = p
    <3> SUFFICES ASSUME NEW p \in Flows, sessions'[p].state = "live" PROVE flows'[sessions'[p].client] = p
      OBVIOUS
    <3>1. p # q /\ sessions'[p] = sessions[p]
      BY <1>2, <1>3
    <3>2. sessions[p].client \in Clients /\ flows[sessions[p].client] = p /\ sessions[p].state = "live"
      BY <1>1, <3>1 DEF RelayInv, SequenceInv, LiveInv
    <3> QED BY <1>7, <3>1, <3>2 DEF SenderClosed
  <2> QED BY <1>1, <2>1 DEF LiveInv
<1>12. FlowCount(flows)' <= MaxSessions
  <2>1. \A c \in Clients : flows'[c] # 0 => flows[c] # 0
    BY <1>7
  <2>2. FlowCount(flows') <= FlowCount(flows) /\ FlowCount(flows)' = FlowCount(flows')
    BY <2>1, FlowCountLess DEF FlowCount
  <2> QED BY <2>2, EntriesFinite, RelayConstants DEF RelayInv
<1>13. Held' = Held /\ Buffered' = Buffered
  BY <1>1, <1>5, <1>6 DEF Held, Buffered
<1> QED BY <1>1, <1>9, <1>10, <1>11, <1>12, <1>13 DEF RelayInv

\* The listener ends with all its sessions, and every permit is back.
LEMMA ListenerEndsKeeps ==
  ASSUME RelayInv, ListenerEnds
  PROVE  RelayInv'
<1>1. UNCHANGED <<flows, binding, sequence, roundRobin>> /\ relay = "running" /\ relay' = "ended"
      /\ capacity' = capacity + Cardinality(Live) /\ memory' = memory + Cardinality(Live) + Buffered
      /\ sessions' = [q \in Flows |-> IF q \in Live THEN [sessions[q] EXCEPT !.state = "joined", !.queued = 0]
                                      ELSE sessions[q]]
      /\ sessions \in [Flows -> FlowSessions] /\ capacity \in Nat /\ memory \in Nat
  BY DEF ListenerEnds, RelayInv, RelayTypeOK, Flows
<1>2. \A q \in Flows : /\ sessions'[q] \in FlowSessions /\ sessions'[q].state # "live"
                       /\ sessions'[q].state = "unused" <=> sessions[q].state = "unused"
  <2> SUFFICES ASSUME NEW q \in Flows
               PROVE  /\ sessions'[q] \in FlowSessions /\ sessions'[q].state # "live"
                      /\ sessions'[q].state = "unused" <=> sessions[q].state = "unused"
    OBVIOUS
  <2>1. PICK u \in FlowSessions : u = sessions[q]
    BY <1>1
  <2>2. PICK x \in FlowStates, m \in 0..MaxQueue : x = "joined" /\ m = 0
    BY RelayConstants DEF FlowStates
  <2>3. LET w == [u EXCEPT !.state = x, !.queued = m]
        IN  w \in FlowSessions /\ w.state = x
    BY DEF FlowSessions
  <2>4. CASE q \in Live
    <3>1. sessions'[q] = [u EXCEPT !.state = x, !.queued = m] /\ sessions[q].state = "live"
      BY <1>1, <2>1, <2>2, <2>4 DEF Live
    <3> QED BY <2>2, <2>3, <3>1
  <2>5. CASE q \notin Live
    BY <1>1, <2>1, <2>5 DEF Live, Flows
  <2> QED BY <2>4, <2>5
<1>3. sessions' \in [Flows -> FlowSessions]
  <2>1. sessions' = [q \in Flows |-> sessions'[q]]
    BY <1>1
  <2> QED BY <1>2, <2>1
<1>4. Live' = {} /\ Pending' = {}
  BY <1>2 DEF Live, Pending, Flows
<1>5. Cardinality(Live') = 0 /\ Buffered' = 0
  BY <1>4, FS_EmptySet DEF Buffered
<1>6. Held = Cardinality(Live) /\ Cardinality(Live) \in Nat
  <2>1. relay = "running" /\ Cardinality(Live) \in Nat
    BY <1>1, RelayFinite
  <2> QED BY <2>1 DEF Held
<1>7. Held' = 0
  <2>1. relay' = "ended" /\ Cardinality(Live') = 0
    BY <1>1, <1>5
  <2> QED BY <2>1 DEF Held
<1>8. capacity' = MaxTotal /\ memory' = MaxMemory
  BY <1>1, <1>6, RelayFinite, RelayConstants DEF RelayInv
<1>9. RelayTypeOK'
  BY <1>1, <1>3, <1>8, RelayConstants DEF RelayInv, RelayTypeOK
<1>10. SequenceInv'
  BY <1>1, <1>2 DEF RelayInv, SequenceInv
<1>11. LiveInv' /\ BindingInv'
  BY <1>1, <1>4 DEF LiveInv, BindingInv
<1>12. FlowCount(flows)' = FlowCount(flows)
  BY <1>1 DEF FlowCount
<1>13. capacity' + Held' = MaxTotal /\ memory' + Held' + Buffered' = MaxMemory
  BY <1>5, <1>7, <1>8, RelayConstants
<1> QED BY <1>9, <1>10, <1>11, <1>12, <1>13 DEF RelayInv

\* The gate and the token are read by the steps above; changing them frees nothing.
LEMMA ControlKeeps ==
  ASSUME RelayInv,
         UNCHANGED <<flows, relay, binding, sequence, roundRobin, sessions, capacity, memory>>
  PROVE  RelayInv'
<1>1. RelayTypeOK' /\ SequenceInv' /\ LiveInv' /\ BindingInv'
  BY DEF RelayInv, RelayTypeOK, SequenceInv, LiveInv, BindingInv, Live, FlowCount
<1>2. FlowCount(flows)' = FlowCount(flows) /\ Held' = Held /\ Buffered' = Buffered
  BY DEF FlowCount, Held, Buffered, Pending, Live
<1> QED BY <1>1, <1>2 DEF RelayInv

\* The listener starts with no flows and every permit.
LEMMA RelayInvInit == RelayInit => RelayInv
<1> SUFFICES ASSUME RelayInit PROVE RelayInv
  OBVIOUS
<1>1. Unused \in FlowSessions /\ Unused.state = "unused"
  BY RelayConstants DEF Unused, FlowSessions, FlowStates
<1>2. \A q \in Flows : sessions[q] = Unused
  BY DEF RelayInit, Flows
<1>3. Live = {} /\ Pending = {}
  BY <1>1, <1>2 DEF Live, Pending, Flows
<1>4. Cardinality(Live) = 0 /\ Buffered = 0
  BY <1>3, FS_EmptySet DEF Buffered
<1>5. Held = 0
  BY <1>4 DEF Held, RelayInit
<1>6. RelayTypeOK
  <2>1. sessions \in [Flows -> FlowSessions]
    BY <1>1 DEF RelayInit, Flows
  <2> QED BY <2>1, RelayConstants DEF RelayInit, RelayTypeOK
<1>7. SequenceInv /\ LiveInv /\ BindingInv
  BY <1>1, <1>2, <1>3 DEF RelayInit, SequenceInv, LiveInv, BindingInv
<1>8. FlowCount(flows) <= MaxSessions
  <2>1. Entries(flows) = {}
    BY DEF Entries, RelayInit
  <2> QED BY <2>1, EntriesFinite, FS_EmptySet, RelayConstants
<1> QED BY <1>4, <1>5, <1>6, <1>7, <1>8, RelayConstants DEF RelayInv, RelayInit

\* While the listener runs a live session is its client's flow, the table stays
\* within max_sessions, and the two semaphores lend exactly what sessions, the
\* socket being bound and queued datagrams hold.
THEOREM RelaySoundAlways == RelaySpec => []RelaySound
<1>1. RelayInv /\ [RelayNext]_relayVars => RelayInv'
  <2> SUFFICES ASSUME RelayInv, [RelayNext]_relayVars PROVE RelayInv'
    OBVIOUS
  <2>1. CASE \E c \in Clients : ReceiveKnown(c) \/ ReceiveNew(c)
    BY <2>1, ReceiveKnownKeeps, ReceiveNewKeeps
  <2>2. CASE Bound \/ BindAbandoned \/ ListenerEnds
    BY <2>2, BoundKeeps, BindAbandonedKeeps, ListenerEndsKeeps
  <2>3. CASE CancelListener \/ \E open \in BOOLEAN : SetGate(open)
    BY <2>3, ControlKeeps DEF CancelListener, SetGate
  <2>4. CASE \E q \in 1..MaxFlows : Join(q) \/ Forward(q) \/ SessionEnds(q)
    BY <2>4, JoinKeeps, ForwardKeeps, SessionEndsKeeps DEF Flows
  <2>5. CASE UNCHANGED relayVars
    BY <2>5, ControlKeeps DEF relayVars
  <2> QED BY <2>1, <2>2, <2>3, <2>4, <2>5 DEF RelayNext
<1>2. RelayInv => RelaySound
  <2> SUFFICES ASSUME RelayInv PROVE RelaySound
    OBVIOUS
  <2>1. relay # "ended" => \A q \in Live : flows[sessions[q].client] = q
    BY DEF RelayInv, LiveInv, Live, Flows
  <2>2. relay = "ended" => capacity = MaxTotal /\ memory = MaxMemory
    <3> SUFFICES ASSUME relay = "ended" PROVE capacity = MaxTotal /\ memory = MaxMemory
      OBVIOUS
    <3>1. Live = {} /\ Pending = {}
      BY DEF RelayInv, LiveInv, Pending
    <3>2. Cardinality(Live) = 0 /\ Buffered = 0
      BY <3>1, FS_EmptySet DEF Buffered
    <3>3. Held = 0
      BY <3>2 DEF Held
    <3> QED BY <3>2, <3>3 DEF RelayInv, RelayTypeOK
  <2> QED BY <2>1, <2>2 DEF RelayInv, RelaySound
<1> QED BY <1>1, <1>2, RelayInvInit, PTL DEF RelaySpec

-----------------------------------------------------------------------------
(* Listeners *)

Plans ==
  {NoPlan} \cup [stage : {"prepared", "published"}, config : Documents, added : SUBSET Addrs,
                 udp : [routes : SUBSET {"udp"}, epoch : Nat]]
           \cup [stage : {"reaping"}, stopped : SUBSET Addrs]

ListenersTypes ==
  /\ published \in Documents /\ listenLock \in BOOLEAN
  /\ listeners \subseteq Addrs /\ loop \in [Addrs -> {"none", "waiting", "holding"}]
  /\ cancelled \in [Addrs -> BOOLEAN] /\ bornAs \in [Addrs -> Roles \cup {"none"}]
  /\ plan \in Plans /\ handler \in BOOLEAN
  /\ stopStage \in {"no", "udp", "tcp", "drained"}
  /\ udpEpoch \in Nat /\ udpRunning \subseteq {"udp"} /\ streams \in Nat

\* A running loop's address has the role it was started for, or none any more.
LoopsKeepRole ==
  \A a \in Addrs : loop[a] # "none" => published.role[a] \in {bornAs[a], "none"}

\* The installed listeners are the running loops nobody cancelled.
LoopsInstalled ==
  \A a \in Addrs : a \in listeners <=> loop[a] # "none" /\ ~cancelled[a]

\* What the preparation found still holds when it is committed.
PlanCurrent ==
  /\ listenLock <=> plan.stage = "published"
  /\ (plan.stage = "prepared" /\ stopStage = "no") =>
       /\ PreparationAccepted(plan.config)
       /\ plan.added = DesiredListens(plan.config) \ listeners
  /\ plan.stage = "published" =>
       /\ stopStage \in {"no", "udp"} /\ udpEpoch > 0
       /\ published = plan.config
       /\ plan.added = DesiredListens(published) \ listeners
       /\ \A a \in plan.added : loop[a] = "none"

StopsInOrder ==
  /\ udpEpoch = 0 => stopStage = "no" /\ listeners = {} /\ \A a \in Addrs : loop[a] = "none"
  /\ stopStage # "no" => udpRunning = {}
  /\ stopStage \in {"tcp", "drained"} => listeners = {}
  /\ stopStage = "drained" => streams = 0 /\ \A a \in Addrs : loop[a] = "none"

ListenersFollow ==
  (~listenLock /\ udpEpoch > 0 /\ stopStage \in {"no", "udp"})
     => listeners = DesiredListens(published)

ExportedAll == exported # NoExport => exported.addrs = DesiredListens(exported.config)

ServedInRole == \A s \in servedAs : s[1] = s[2]

ListenersInv ==
  /\ ListenersTypes /\ LoopsKeepRole /\ LoopsInstalled /\ PlanCurrent /\ StopsInOrder
  /\ ListenersFollow /\ ExportedAll /\ ServedInRole

USE DEF LoopsKeepRole, LoopsInstalled, PlanCurrent, StopsInOrder, ListenersFollow, ExportedAll,
        ServedInRole

\* The initial state satisfies the invariant (TcpManager::new).
LEMMA ListenersInitially == ListenersInit => ListenersInv
<1>1. SUFFICES ASSUME ListenersInit PROVE ListenersInv OBVIOUS
<1>2. ListenersTypes
  BY <1>1 DEF ListenersInit, ListenersTypes, Plans, NoPlan
<1>3. plan.stage = "none" BY <1>1 DEF ListenersInit, NoPlan
<1> QED BY <1>1, <1>2, <1>3 DEF ListenersInit, ListenersInv

\* The fields of the plan under way.
LEMMA PlanFields ==
  ASSUME plan \in Plans, plan.stage \in {"prepared", "published"}
  PROVE  /\ plan = [stage |-> plan.stage, config |-> plan.config, added |-> plan.added,
                    udp |-> plan.udp]
         /\ plan.config \in Documents /\ plan.added \subseteq Addrs
         /\ plan.udp.routes \subseteq {"udp"} /\ plan.udp.epoch \in Nat
BY DEF Plans, NoPlan

\* A preparation leaves a plan whose findings are those of this moment.
LEMMA PrepareKeeps ==
  ASSUME ListenersInv, NEW config \in Documents, Prepare(config)
  PROVE  ListenersInv'
<1> USE DEF ListenersInv
<1>1. /\ plan'.stage = "prepared" /\ plan'.config = config
      /\ plan'.added = DesiredListens(config) \ listeners
  BY DEF Prepare
<1>2. plan' \in Plans
  BY DEF Prepare, UdpPrepare, Plans, ListenersTypes, DesiredListens, Documents
<1>3. ListenersTypes' BY <1>2 DEF Prepare, ListenersTypes
<1>4. PlanCurrent' BY <1>1 DEF Prepare, PreparationAccepted, DesiredListens, ListenerRole
<1> QED BY <1>3, <1>4 DEF Prepare, DesiredListens, NoExport

\* So does one that takes its predecessor's sockets.
LEMMA PrepareWithInheritedKeeps ==
  ASSUME ListenersInv, NEW inherited \in SUBSET Addrs, PrepareWithInherited(inherited)
  PROVE  ListenersInv'
<1> USE DEF ListenersInv
<1>1. /\ plan'.stage = "prepared" /\ plan'.config = published
      /\ plan'.added = DesiredListens(published) \ listeners
  BY DEF PrepareWithInherited
<1>2. plan' \in Plans
  BY DEF PrepareWithInherited, UdpPrepare, Plans, ListenersTypes
<1>3. ListenersTypes' BY <1>2 DEF PrepareWithInherited, ListenersTypes
<1>4. PlanCurrent'
  BY <1>1 DEF PrepareWithInherited, PreparationAccepted, DesiredListens, ListenerRole
<1> QED BY <1>3, <1>4 DEF PrepareWithInherited, DesiredListens

\* Publishing the snapshot before the loops are exchanged: no running loop
\* finds its address in another role.
LEMMA CommitPublishKeeps ==
  ASSUME ListenersInv, CommitPublish
  PROVE  ListenersInv'
<1> USE DEF ListenersInv
<1>0. plan \in Plans /\ plan.stage = "prepared" /\ stopStage = "no"
  BY DEF CommitPublish, UdpCommittable, ListenersTypes
<1>1. /\ plan'.stage = "published" /\ plan'.config = plan.config /\ plan'.added = plan.added
      /\ plan' \in Plans
  <2>1. plan' = [stage |-> "published", config |-> plan.config, added |-> plan.added,
                 udp |-> plan.udp]
    BY <1>0, PlanFields DEF CommitPublish
  <2>2. plan.udp \in [routes : SUBSET {"udp"}, epoch : Nat]
    BY <1>0 DEF Plans, NoPlan
  <2> QED BY <2>1, <2>2, <1>0, PlanFields DEF Plans
<1>2. PreparationAccepted(plan.config) /\ plan.added = DesiredListens(plan.config) \ listeners
  BY <1>0
<1>3. LoopsKeepRole'
  <2>1. SUFFICES ASSUME NEW a \in Addrs, loop[a] # "none", plan.config.role[a] # "none"
                 PROVE  plan.config.role[a] = bornAs[a]
    BY DEF CommitPublish
  <2>2. a \in DesiredListens(plan.config) BY <2>1 DEF DesiredListens
  <2>3. a \in listeners BY <2>1, <2>2, <1>2 DEF PreparationAccepted
  <2>4. published.role[a] = plan.config.role[a]
    BY <2>2, <2>3, <1>2 DEF PreparationAccepted, ListenerRole
  <2> QED BY <2>1, <2>4
<1>4. ListenersTypes'
  BY <1>0, <1>1, PlanFields DEF CommitPublish, UdpCommit, ListenersTypes
<1>5. PlanCurrent'
  BY <1>0, <1>1, <1>2 DEF CommitPublish, UdpCommit, PreparationAccepted, DesiredListens,
     ListenersTypes
<1>6. StopsInOrder' BY <1>0 DEF CommitPublish, UdpCommit, ListenersTypes
<1> QED BY <1>3, <1>4, <1>5, <1>6 DEF CommitPublish, DesiredListens

\* A refused candidate leaves nothing.
LEMMA CommitRefusedKeeps ==
  ASSUME ListenersInv, CommitRefused
  PROVE  ListenersInv'
<1>1. plan'.stage = "none" /\ plan' \in Plans BY DEF CommitRefused, NoPlan, Plans
<1> QED BY <1>1 DEF CommitRefused, ListenersInv, ListenersTypes, DesiredListens

\* The loops start and are cancelled so that the published document's
\* listeners are the installed ones.
LEMMA CommitInstallKeeps ==
  ASSUME ListenersInv, CommitInstall
  PROVE  ListenersInv'
<1> USE DEF ListenersInv
<1> DEFINE added == plan.added \ listeners
           removed == listeners \ DesiredListens(plan.config)
<1>0. plan \in Plans /\ plan.stage = "published" /\ listenLock
  BY DEF CommitInstall, ListenersTypes
<1>1. /\ stopStage \in {"no", "udp"} /\ udpEpoch > 0 /\ published = plan.config
      /\ plan.added = DesiredListens(published) \ listeners
      /\ \A a \in plan.added : loop[a] = "none"
  BY <1>0
<1>2. /\ loop' = [a \in Addrs |-> IF a \in added THEN "waiting" ELSE loop[a]]
      /\ bornAs' = [a \in Addrs |-> IF a \in added THEN published.role[a] ELSE bornAs[a]]
      /\ cancelled' = [a \in Addrs |-> IF a \in added THEN FALSE
                                       ELSE cancelled[a] \/ a \in removed]
      /\ listeners' = (listeners \cup added) \ removed
      /\ plan' = [stage |-> "reaping", stopped |-> removed] /\ listenLock' = FALSE
      /\ UNCHANGED <<published, handler, stopStage, udpEpoch, udpRunning, streams, exported,
                     servedAs>>
  BY DEF CommitInstall, ListenerRole
<1>3. added \subseteq Addrs /\ removed \subseteq Addrs
  BY <1>1 DEF ListenersTypes, DesiredListens
<1>4. \A a \in Addrs : published.role[a] \in Roles \cup {"none"}
  BY DEF ListenersTypes, Documents
<1>5. plan' \in Plans /\ plan'.stage = "reaping" BY <1>2, <1>3 DEF Plans
<1>6. ListenersTypes'
  <2>1. loop' \in [Addrs -> {"none", "waiting", "holding"}]
    BY <1>2 DEF ListenersTypes
  <2>2. bornAs' \in [Addrs -> Roles \cup {"none"}] BY <1>2, <1>4 DEF ListenersTypes
  <2>3. cancelled' \in [Addrs -> BOOLEAN] BY <1>2 DEF ListenersTypes
  <2>4. listeners' \subseteq Addrs BY <1>2, <1>3 DEF ListenersTypes
  <2>5. handler' \in BOOLEAN /\ listenLock' \in BOOLEAN BY <1>2 DEF ListenersTypes
  <2>6. /\ published' \in Documents /\ stopStage' \in {"no", "udp", "tcp", "drained"}
        /\ udpEpoch' \in Nat /\ udpRunning' \subseteq {"udp"} /\ streams' \in Nat
    BY <1>2 DEF ListenersTypes
  <2> QED BY <1>5, <2>1, <2>2, <2>3, <2>4, <2>5, <2>6 DEF ListenersTypes
<1>7. listeners' = DesiredListens(published)
  BY <1>1, <1>2
<1>8. LoopsKeepRole' BY <1>1, <1>2
<1>9. LoopsInstalled'
  <2>1. SUFFICES ASSUME NEW a \in Addrs
                 PROVE  a \in listeners' <=> loop'[a] # "none" /\ ~cancelled'[a]
    OBVIOUS
  <2>2. CASE a \in added
    BY <2>1, <2>2, <1>1, <1>2
  <2>3. CASE a \notin added
    BY <2>1, <2>3, <1>1, <1>2
  <2> QED BY <2>2, <2>3
<1>10. PlanCurrent' BY <1>2, <1>5
<1>11. StopsInOrder' BY <1>1, <1>2 DEF ListenersTypes
<1>12. ListenersFollow' BY <1>7, <1>2 DEF DesiredListens
<1>13. ExportedAll' /\ ServedInRole' BY <1>2 DEF DesiredListens
<1> QED BY <1>6, <1>8, <1>9, <1>10, <1>11, <1>12, <1>13

\* The publication returns once the cancelled loops are gone.
LEMMA CommitReapedKeeps ==
  ASSUME ListenersInv, CommitReaped
  PROVE  ListenersInv'
<1>1. plan'.stage = "none" /\ plan' \in Plans BY DEF CommitReaped, NoPlan, Plans
<1> QED BY <1>1 DEF CommitReaped, ListenersInv, ListenersTypes, DesiredListens

\* The handler, the gate and the export touch no listener.
LEMMA GateKeeps ==
  ASSUME ListenersInv, SetWorkloadHttp \/ OpenGate \/ ExportListeners
  PROVE  ListenersInv'
<1> USE DEF ListenersInv
<1>1. UNCHANGED <<published, listenLock, listeners, loop, cancelled, bornAs, plan, stopStage,
                  udpEpoch, udpRunning, streams, servedAs>>
  BY DEF SetWorkloadHttp, OpenGate, ExportListeners
<1>2. handler' \in BOOLEAN BY DEF SetWorkloadHttp, OpenGate, ExportListeners, ListenersTypes
<1>3. ExportedAll'
  <2>1. CASE UNCHANGED exported BY <2>1 DEF DesiredListens
  <2>2. CASE ExportListeners
    <3>1. listeners = DesiredListens(published) BY <2>2 DEF ExportListeners
    <3>2. exported'.addrs = listeners /\ exported'.config = published
      BY <2>2 DEF ExportListeners
    <3> QED BY <3>1, <3>2 DEF DesiredListens
  <2> QED BY <2>1, <2>2 DEF SetWorkloadHttp, OpenGate
<1>4. ListenersTypes' BY <1>1, <1>2 DEF ListenersTypes
<1> QED BY <1>1, <1>3, <1>4 DEF PreparationAccepted, DesiredListens, ListenerRole

\* A shutdown: the datagram manager first, then the listeners under the lock,
\* then the wait for loops and streams.
LEMMA UdpShutdownKeeps ==
  ASSUME ListenersInv, UdpShutdown
  PROVE  ListenersInv'
BY DEF UdpShutdown, ListenersInv, ListenersTypes, DesiredListens

\* stop_accepting waits for the lock: no publication is between its halves.
LEMMA StopAcceptingKeeps ==
  ASSUME ListenersInv, StopAccepting
  PROVE  ListenersInv'
<1> USE DEF ListenersInv
<1>1. /\ stopStage' = "tcp" /\ listeners' = {} /\ ~listenLock
      /\ cancelled' = [a \in Addrs |-> cancelled[a] \/ a \in listeners]
      /\ UNCHANGED <<published, listenLock, loop, bornAs, plan, handler, udpEpoch, udpRunning,
                     streams, exported, servedAs>>
  BY DEF StopAccepting
<1>2. ListenersTypes' BY <1>1 DEF ListenersTypes
<1>3. LoopsInstalled' BY <1>1
<1>4. stopStage = "udp" BY DEF StopAccepting
<1> QED BY <1>1, <1>2, <1>3, <1>4 DEF DesiredListens

\* Every loop was cancelled, so the wait for the cancelled ones is for all.
LEMMA ShutdownDrainedKeeps ==
  ASSUME ListenersInv, ShutdownDrained
  PROVE  ListenersInv'
<1> USE DEF ListenersInv
<1>1. \A a \in Addrs : loop[a] = "none"
  BY DEF ShutdownDrained, ListenersTypes
<1> QED BY <1>1 DEF ShutdownDrained, ListenersTypes, DesiredListens

\* Steps of one accept loop that serve nothing.
LEMMA LoopKeeps ==
  ASSUME ListenersInv, NEW a \in Addrs, Accept(a) \/ LoopEnds(a)
  PROVE  ListenersInv'
<1> USE DEF ListenersInv
<1>1. /\ UNCHANGED <<published, listenLock, listeners, cancelled, bornAs, plan, handler,
                     stopStage, udpEpoch, udpRunning, streams, exported, servedAs>>
      /\ loop[a] # "none"
  BY DEF Accept, LoopEnds
<1>2. /\ loop' \in [Addrs -> {"none", "waiting", "holding"}]
      /\ \A b \in Addrs \ {a} : loop'[b] = loop[b]
      /\ loop'[a] # "none" <=> ~cancelled[a]
  <2>1. CASE Accept(a) BY <2>1 DEF Accept, ListenersTypes
  <2>2. CASE LoopEnds(a) BY <2>2 DEF LoopEnds, ListenersTypes
  <2> QED BY <2>1, <2>2
<1>3. ListenersTypes' BY <1>1, <1>2 DEF ListenersTypes
<1>4. LoopsKeepRole' BY <1>1, <1>2
<1>5. LoopsInstalled' BY <1>1, <1>2
<1>6. \A b \in Addrs : loop[b] = "none" => loop'[b] = "none" BY <1>1, <1>2
<1>7. PlanCurrent'
  BY <1>1, <1>6, PlanFields DEF PreparationAccepted, DesiredListens, ListenerRole, ListenersTypes
<1>8. StopsInOrder' BY <1>1, <1>6
<1> QED BY <1>1, <1>3, <1>4, <1>5, <1>7, <1>8 DEF DesiredListens

\* The connection is served in the role its listener was started for.
LEMMA RouteKeeps ==
  ASSUME ListenersInv, NEW a \in Addrs, NEW denied \in BOOLEAN, Route(a, denied)
  PROVE  ListenersInv'
<1> USE DEF ListenersInv
<1>1. /\ UNCHANGED <<published, listenLock, listeners, cancelled, bornAs, plan, handler,
                     stopStage, udpEpoch, udpRunning, exported>>
      /\ loop[a] = "holding" /\ loop' = [loop EXCEPT ![a] = "waiting"]
  BY DEF Route
<1>2. /\ loop' \in [Addrs -> {"none", "waiting", "holding"}] /\ loop'[a] = "waiting"
      /\ \A b \in Addrs \ {a} : loop'[b] = loop[b]
  BY <1>1 DEF ListenersTypes
<1>3. streams' \in Nat BY DEF Route, ListenersTypes
<1>4. Dispatch(a, denied) \in Roles => Dispatch(a, denied) = bornAs[a]
  <2>1. published.role[a] \in {bornAs[a], "none"} BY <1>1
  <2>2. Dispatch(a, denied) \in {published.role[a], "no_route", "ip_denied", "rejected"}
    BY DEF Dispatch, ListenerRole
  <2>3. published.role[a] = "none" => Dispatch(a, denied) = "no_route"
    BY DEF Dispatch, ListenerRole
  <2> QED BY <2>1, <2>2, <2>3, ListenersAssumption
<1>5. ServedInRole'
  <2>1. CASE UNCHANGED servedAs BY <2>1
  <2>2. CASE /\ Dispatch(a, denied) \in Roles
             /\ servedAs' = servedAs \cup {<<bornAs[a], Dispatch(a, denied)>>}
    BY <2>2, <1>4
  <2> QED BY <2>1, <2>2 DEF Route
<1>6. ListenersTypes' BY <1>1, <1>2, <1>3 DEF ListenersTypes
<1>7. LoopsKeepRole' BY <1>1, <1>2
<1>8. LoopsInstalled' BY <1>1, <1>2
<1>9. \A b \in Addrs : loop[b] = "none" <=> loop'[b] = "none" BY <1>1, <1>2
<1>10. PlanCurrent'
  BY <1>1, <1>9, PlanFields DEF PreparationAccepted, DesiredListens, ListenerRole, ListenersTypes
<1>11. StopsInOrder' BY <1>1, <1>9
<1> QED BY <1>1, <1>5, <1>6, <1>7, <1>8, <1>10, <1>11 DEF DesiredListens

\* A stream ends and gives its permit back.
LEMMA StreamEndsKeeps ==
  ASSUME ListenersInv, StreamEnds
  PROVE  ListenersInv'
<1> USE DEF ListenersInv
<1>1. streams' \in Nat /\ stopStage # "drained" BY DEF StreamEnds, ListenersTypes
<1> QED
  BY <1>1 DEF StreamEnds, ListenersTypes, PreparationAccepted, DesiredListens, ListenerRole

\* Every step keeps the invariant.
LEMMA ListenersInductive == ListenersInv /\ [ListenersNext]_listenVars => ListenersInv'
<1>1. SUFFICES ASSUME ListenersInv, [ListenersNext]_listenVars PROVE ListenersInv' OBVIOUS
<1>2. CASE UNCHANGED listenVars
  BY <1>1, <1>2 DEF listenVars, ListenersInv, ListenersTypes, PreparationAccepted,
     DesiredListens, ListenerRole
<1>3. CASE ListenersNext
  BY <1>1, <1>3, PrepareKeeps, PrepareWithInheritedKeeps, CommitPublishKeeps,
     CommitRefusedKeeps, CommitInstallKeeps, CommitReapedKeeps, GateKeeps, UdpShutdownKeeps,
     StopAcceptingKeeps, ShutdownDrainedKeeps, LoopKeeps, RouteKeeps, StreamEndsKeeps
     DEF ListenersNext
<1> QED BY <1>1, <1>2, <1>3

\* Listeners follow the published document through every publication, export
\* and shutdown, for any addresses, roles and bounds (ListenersSound; prepare,
\* commit_with_publication, spawn_accept_loop, export_listeners, shutdown).
THEOREM ListenersSoundAlways == ListenersSpec => []ListenersSound
<1>1. ListenersInv => ListenersSound BY DEF ListenersInv, ListenersSound
<1> QED BY <1>1, ListenersInitially, ListenersInductive, PTL DEF ListenersSpec

-----------------------------------------------------------------------------
(* Leases of native streams *)

StreamStates ==
  [at : {"new", "closed"}]
  \cup [at : {"asking"}, asks : SUBSET Permissions, began : Nat, replies : Seq(Nat)]
  \cup [at : {"open"}, asks : SUBSET Permissions, rev : Nat, seen : Nat]
ProbeStates ==
  {NoExchange} \cup [at : {"sent"}, began : Nat] \cup [at : {"answered"}, began : Nat, rev : Nat]
RenewalStates ==
  {NoRenewal} \cup [state : {"resting", "verifying", "confirmed", "ended"}, expires : Nat,
                    failed : BOOLEAN, began : Nat]

LeaseTypes ==
  /\ leaseClock \in 0..MaxLeaseClock
  /\ grants \in Seq(SUBSET Permissions) /\ granted \in Seq(Nat) /\ Len(granted) = Len(grants)
  /\ known \in 1..Len(grants) /\ confirmed \in Nat
  /\ runtime \in [started : BOOLEAN, healthy : BOOLEAN, last : Nat]
  /\ leaseProbe \in ProbeStates
  /\ leaseStreams \in [LeaseStreams -> StreamStates]
  /\ renewals \in [LeaseStreams -> RenewalStates]

\* Revisions are published one after the other, none in the future.
GrantsOrdered ==
  \A i, j \in 1..Len(granted) : i <= j => granted[i] <= granted[j] /\ granted[j] <= leaseClock

\* The revision r was the latest one at some moment from began to now.
Latest(r, began) ==
  /\ r \in 1..Len(grants) /\ began <= leaseClock
  /\ r < Len(grants) => began <= granted[r + 1]

ProbeDated ==
  /\ leaseProbe.at = "sent" => leaseProbe.began <= leaseClock
  /\ leaseProbe.at = "answered" => Latest(leaseProbe.rev, leaseProbe.began)

\* The last success was no later than a deadline after the greatest known
\* revision stopped being the latest.
SuccessDated ==
  /\ runtime.last <= leaseClock + 1
  /\ runtime.last > 0 => Deadline > 0
  /\ (runtime.last > 0 /\ known < Len(grants)) => runtime.last <= granted[known + 1] + Deadline

RepliesDated(q) ==
  q.at = "asking" =>
    /\ q.began <= leaseClock /\ q.asks # {}
    /\ \A i \in 1..Len(q.replies) : Latest(q.replies[i], q.began) /\ q.replies[i] <= known

OpenGranted(q) ==
  q.at = "open" =>
    /\ Deadline > 0 /\ q.rev \in 1..Len(grants) /\ q.asks \subseteq grants[q.rev]
    /\ q.seen <= leaseClock
    /\ q.rev < Len(grants) => q.seen < granted[q.rev + 1] + LeaseAge + Deadline

RenewalDated(n) ==
  n # NoRenewal =>
    /\ n.began <= leaseClock
    /\ ~n.failed => n.expires <= leaseClock + EvidenceTtl /\ n.expires <= confirmed + EvidenceTtl
    /\ n.state = "confirmed" => n.began <= confirmed

RenewedInTime(q, n) ==
  /\ q.at \in {"new", "asking"} => n = NoRenewal
  /\ (q.at = "open" /\ n # NoRenewal /\ ~n.failed) => q.seen < confirmed + EvidenceTtl

StreamsDated ==
  \A s \in LeaseStreams :
    /\ RepliesDated(leaseStreams[s]) /\ OpenGranted(leaseStreams[s])
    /\ RenewalDated(renewals[s]) /\ RenewedInTime(leaseStreams[s], renewals[s])

LeaseInv == LeaseTypes /\ GrantsOrdered /\ ProbeDated /\ SuccessDated /\ StreamsDated

\* The initial state satisfies the invariant (AuthorityRuntime::prepare).
LEMMA LeaseInitially == LeaseInit => LeaseInv
<1>1. SUFFICES ASSUME LeaseInit PROVE LeaseInv OBVIOUS
<1>2. PICK p \in SUBSET Permissions : grants = <<p>> BY <1>1 DEF LeaseInit
<1>3. /\ grants \in Seq(SUBSET Permissions) /\ granted \in Seq(Nat) /\ Len(grants) = 1
      /\ Len(granted) = 1 /\ granted[1] = 0
  BY <1>1, <1>2 DEF LeaseInit
<1>4. LeaseTypes
  BY <1>1, <1>3, LeaseConstants DEF LeaseInit, LeaseTypes, StreamStates, ProbeStates,
     RenewalStates, Unrevoked
<1>5. GrantsOrdered BY <1>1, <1>3 DEF LeaseInit, GrantsOrdered
<1>6. ProbeDated /\ SuccessDated BY <1>1 DEF LeaseInit, ProbeDated, SuccessDated, NoExchange
<1>7. StreamsDated
  BY <1>1 DEF LeaseInit, StreamsDated, RepliesDated, OpenGranted, RenewalDated, RenewedInTime,
     NoRenewal
<1> QED BY <1>4, <1>5, <1>6, <1>7 DEF LeaseInv

\* What a record of each kind consists of.
LEMMA StreamFields ==
  ASSUME NEW q \in StreamStates
  PROVE  /\ q.at \in {"new", "closed", "asking", "open"}
         /\ q.at = "asking" => /\ q = [at |-> "asking", asks |-> q.asks, began |-> q.began,
                                       replies |-> q.replies]
                               /\ q.asks \subseteq Permissions /\ q.began \in Nat
                               /\ q.replies \in Seq(Nat)
         /\ q.at = "open" => /\ q = [at |-> "open", asks |-> q.asks, rev |-> q.rev,
                                     seen |-> q.seen]
                             /\ q.asks \subseteq Permissions /\ q.rev \in Nat /\ q.seen \in Nat
BY DEF StreamStates

\* What a renewal consists of.
LEMMA RenewalFields ==
  ASSUME NEW n \in RenewalStates, n # NoRenewal
  PROVE  /\ n = [state |-> n.state, expires |-> n.expires, failed |-> n.failed,
                 began |-> n.began]
         /\ n.state \in {"resting", "verifying", "confirmed", "ended"} /\ n.expires \in Nat
         /\ n.failed \in BOOLEAN /\ n.began \in Nat
BY DEF RenewalStates

\* Time passes: every bound on the past still holds.
LEMMA LeaseTickKeeps ==
  ASSUME LeaseInv, LeaseTick
  PROVE  LeaseInv'
<1> USE DEF LeaseInv
<1>1. /\ leaseClock \in Nat /\ leaseClock' = leaseClock + 1 /\ leaseClock' \in 0..MaxLeaseClock
      /\ UNCHANGED <<grants, granted, known, runtime, leaseProbe, leaseStreams, confirmed,
                     renewals>>
  BY LeaseConstants DEF LeaseTick, LeaseTypes
<1>2. LeaseTypes' BY <1>1 DEF LeaseTypes
<1>3. GrantsOrdered' BY <1>1, ElementOfSeq DEF GrantsOrdered, LeaseTypes
<1>4. \A r, b \in Nat : Latest(r, b) => Latest(r, b)' BY <1>1 DEF Latest
<1>5. ProbeDated' BY <1>1, <1>4 DEF ProbeDated, ProbeStates, LeaseTypes, NoExchange
<1>6. SuccessDated' BY <1>1 DEF SuccessDated, LeaseTypes
<1>7. StreamsDated'
  <2>1. SUFFICES ASSUME NEW s \in LeaseStreams
                 PROVE  /\ RepliesDated(leaseStreams[s])' /\ OpenGranted(leaseStreams[s])'
                        /\ RenewalDated(renewals[s])'
                        /\ RenewedInTime(leaseStreams[s], renewals[s])'
    BY DEF StreamsDated
  <2>2. leaseStreams[s] \in StreamStates /\ renewals[s] \in RenewalStates
    BY DEF LeaseTypes
  <2>3. RepliesDated(leaseStreams[s])'
    <3>1. SUFFICES ASSUME leaseStreams[s].at = "asking" PROVE RepliesDated(leaseStreams[s])'
      BY <1>1 DEF RepliesDated
    <3>2. /\ leaseStreams[s].began \in Nat
          /\ \A i \in 1..Len(leaseStreams[s].replies) : leaseStreams[s].replies[i] \in Nat
      BY <2>2, <3>1, StreamFields, ElementOfSeq
    <3>3. RepliesDated(leaseStreams[s]) BY DEF StreamsDated
    <3> QED BY <1>1, <1>4, <3>1, <3>2, <3>3 DEF RepliesDated
  <2>4. OpenGranted(leaseStreams[s])'
    BY <1>1, <2>2, StreamFields DEF StreamsDated, OpenGranted
  <2>5. RenewalDated(renewals[s])'
    BY <1>1, <2>2, RenewalFields, LeaseConstants DEF StreamsDated, RenewalDated
  <2> QED BY <1>1, <2>3, <2>4, <2>5 DEF StreamsDated, RenewedInTime
<1> QED BY <1>2, <1>3, <1>5, <1>6, <1>7

\* A new revision is published: the old one was the latest until now.
LEMMA ChangeGrantsKeeps ==
  ASSUME LeaseInv, ChangeGrants
  PROVE  LeaseInv'
<1> USE DEF LeaseInv
<1>1. PICK p \in SUBSET Permissions :
        grants' = Append(grants, p) /\ granted' = Append(granted, leaseClock)
  BY DEF ChangeGrants
<1>2. UNCHANGED <<leaseClock, known, runtime, leaseProbe, leaseStreams, confirmed, renewals>>
  BY DEF ChangeGrants
<1> DEFINE n == Len(grants)
<1>3. /\ n \in Nat /\ leaseClock \in Nat /\ Len(granted) = n
      /\ grants \in Seq(SUBSET Permissions) /\ granted \in Seq(Nat)
      /\ \A i \in 1..n : granted[i] \in Nat
  BY LenProperties, ElementOfSeq, LeaseConstants DEF LeaseTypes
<1>4. /\ grants' \in Seq(SUBSET Permissions) /\ Len(grants') = n + 1
      /\ \A i \in 1..n : grants'[i] = grants[i]
  BY <1>1, <1>3, AppendProperties
<1>5. /\ granted' \in Seq(Nat) /\ Len(granted') = n + 1
      /\ \A i \in 1..n : granted'[i] = granted[i]
      /\ granted'[n + 1] = leaseClock
  BY <1>1, <1>3, AppendProperties
<1> HIDE DEF n
<1>n. n = Len(grants) BY DEF n
<1>6. LeaseTypes' BY <1>2, <1>3, <1>4, <1>5, <1>n DEF LeaseTypes
<1>7. GrantsOrdered'
  <2>1. SUFFICES ASSUME NEW i \in 1..(n + 1), NEW j \in 1..(n + 1), i <= j
                 PROVE  granted'[i] <= granted'[j] /\ granted'[j] <= leaseClock
    BY <1>2, <1>5 DEF GrantsOrdered
  <2>2. CASE j \in 1..n
    <3>1. i \in 1..n BY <2>1, <2>2, <1>3
    <3>2. granted[i] <= granted[j] /\ granted[j] <= leaseClock
      BY <2>1, <2>2, <3>1, <1>3 DEF GrantsOrdered
    <3> QED BY <2>2, <3>1, <3>2, <1>5
  <2>3. CASE j = n + 1 /\ i \in 1..n
    <3>1. granted[i] <= leaseClock BY <2>3, <1>3 DEF GrantsOrdered
    <3> QED BY <3>1, <2>3, <1>3, <1>5
  <2>4. CASE j = n + 1 /\ i = n + 1 BY <2>4, <1>3, <1>5
  <2> QED BY <2>1, <2>2, <2>3, <2>4, <1>3
<1>8. \A r, b \in Nat : Latest(r, b) => Latest(r, b)'
  <2>1. SUFFICES ASSUME NEW r \in Nat, NEW b \in Nat, r \in 1..n, b <= leaseClock,
                        r < n => b <= granted[r + 1]
                 PROVE  b <= granted'[r + 1]
    BY <1>2, <1>3, <1>4, <1>n DEF Latest
  <2>2. CASE r = n BY <2>1, <2>2, <1>5
  <2>3. CASE r < n
    <3>1. r + 1 \in 1..n BY <2>1, <2>3, <1>3
    <3> QED BY <3>1, <2>1, <2>3, <1>5
  <2> QED BY <2>1, <2>2, <2>3, <1>3
<1>9. ProbeDated' BY <1>2, <1>8 DEF ProbeDated, ProbeStates, LeaseTypes, NoExchange
<1>10. SuccessDated'
  <2>1. known \in 1..n /\ runtime.last \in Nat BY <1>n DEF LeaseTypes
  <2>2. CASE known = n
    <3>1. granted'[known + 1] = leaseClock BY <2>2, <1>5
    <3>2. runtime.last <= leaseClock + 1 /\ (runtime.last > 0 => Deadline > 0)
      BY DEF SuccessDated
    <3>3. runtime.last > 0 => runtime.last <= leaseClock + Deadline
      BY <3>2, <2>1, <1>3, LeaseConstants
    <3> QED BY <3>1, <3>2, <3>3, <1>2 DEF SuccessDated
  <2>3. CASE known < n
    <3>1. known + 1 \in 1..n BY <2>1, <2>3, <1>3
    <3> QED BY <1>2, <1>3, <1>4, <1>5, <1>n, <2>1, <2>3, <3>1 DEF SuccessDated
  <2> QED BY <2>1, <2>2, <2>3, <1>3
<1>11. StreamsDated'
  <2>1. SUFFICES ASSUME NEW s \in LeaseStreams
                 PROVE  /\ RepliesDated(leaseStreams[s])' /\ OpenGranted(leaseStreams[s])'
                        /\ RenewalDated(renewals[s])'
                        /\ RenewedInTime(leaseStreams[s], renewals[s])'
    BY DEF StreamsDated
  <2> DEFINE q == leaseStreams[s]
  <2>2. q \in StreamStates BY DEF LeaseTypes
  <2>3. RepliesDated(q) /\ OpenGranted(q) BY DEF StreamsDated
  <2>4. RepliesDated(leaseStreams[s])'
    BY <1>2, <1>8, <2>2, <2>3, StreamFields, ElementOfSeq DEF RepliesDated
  <2>5. OpenGranted(leaseStreams[s])'
    <3>1. SUFFICES ASSUME q.at = "open" PROVE OpenGranted(leaseStreams[s])'
      BY <1>2 DEF OpenGranted
    <3>2. /\ Deadline > 0 /\ q.rev \in 1..n /\ q.asks \subseteq grants[q.rev]
          /\ q.seen <= leaseClock /\ q.seen \in Nat
          /\ q.rev < n => q.seen < granted[q.rev + 1] + LeaseAge + Deadline
      BY <3>1, <2>2, <2>3, <1>n, StreamFields DEF OpenGranted
    <3>3. q.seen < granted'[q.rev + 1] + LeaseAge + Deadline
      <4>1. CASE q.rev = n BY <4>1, <3>2, <1>3, <1>5, LeaseConstants
      <4>2. CASE q.rev < n
        <5>1. q.rev + 1 \in 1..n BY <4>2, <3>2, <1>3
        <5> QED BY <5>1, <4>2, <3>2, <1>5
      <4> QED BY <4>1, <4>2, <3>2, <1>3
    <3>4. q.rev \in 1..(n + 1) /\ grants'[q.rev] = grants[q.rev] BY <3>2, <1>3, <1>4
    <3> QED BY <3>2, <3>3, <3>4, <1>2, <1>4 DEF OpenGranted
  <2> QED BY <1>2, <2>4, <2>5 DEF StreamsDated, RenewalDated, RenewedInTime
<1> QED BY <1>6, <1>7, <1>9, <1>10, <1>11

\* The identity is revoked now: what was confirmed was confirmed before.
LEMMA RevokeEvidenceKeeps ==
  ASSUME LeaseInv, RevokeEvidence
  PROVE  LeaseInv'
<1> USE DEF LeaseInv
<1>1. /\ leaseClock \in Nat /\ confirmed' = leaseClock
      /\ UNCHANGED <<leaseClock, grants, granted, known, runtime, leaseProbe, leaseStreams,
                     renewals>>
  BY LeaseConstants DEF RevokeEvidence, LeaseTypes
<1>2. LeaseTypes' BY <1>1 DEF LeaseTypes
<1>3. GrantsOrdered' /\ ProbeDated' /\ SuccessDated'
  BY <1>1 DEF GrantsOrdered, ProbeDated, SuccessDated, Latest
<1>4. StreamsDated'
  <2>1. SUFFICES ASSUME NEW s \in LeaseStreams
                 PROVE  /\ RepliesDated(leaseStreams[s])' /\ OpenGranted(leaseStreams[s])'
                        /\ RenewalDated(renewals[s])'
                        /\ RenewedInTime(leaseStreams[s], renewals[s])'
    BY DEF StreamsDated
  <2>2. leaseStreams[s] \in StreamStates /\ renewals[s] \in RenewalStates
    BY DEF LeaseTypes
  <2>3. RepliesDated(leaseStreams[s])' /\ OpenGranted(leaseStreams[s])'
    BY <1>1 DEF StreamsDated, RepliesDated, OpenGranted, Latest
  <2>4. RenewalDated(renewals[s])'
    BY <1>1, <2>2, RenewalFields, LeaseConstants DEF StreamsDated, RenewalDated
  <2>5. RenewedInTime(leaseStreams[s], renewals[s])'
    BY <1>1, <2>2, StreamFields, LeaseConstants DEF StreamsDated, OpenGranted, RenewedInTime
  <2> QED BY <2>3, <2>4, <2>5
<1> QED BY <1>2, <1>3, <1>4

(* Exchanges with the permission authority. *)

\* Steps that touch one stream: the others keep what is known of them.
LEMMA OneStream ==
  ASSUME LeaseInv, NEW s \in LeaseStreams,
         UNCHANGED <<leaseClock, grants, granted, confirmed>>,
         known' \in 1..Len(grants), known <= known',
         leaseStreams' = [leaseStreams EXCEPT ![s] = leaseStreams'[s]],
         renewals' = [renewals EXCEPT ![s] = renewals'[s]],
         leaseStreams'[s] \in StreamStates, renewals'[s] \in RenewalStates,
         RepliesDated(leaseStreams[s])', OpenGranted(leaseStreams[s])',
         RenewalDated(renewals[s])', RenewedInTime(leaseStreams[s], renewals[s])'
  PROVE  /\ leaseStreams' \in [LeaseStreams -> StreamStates]
         /\ renewals' \in [LeaseStreams -> RenewalStates]
         /\ StreamsDated'
<1> USE DEF LeaseInv
<1>1. /\ leaseStreams' \in [LeaseStreams -> StreamStates]
      /\ renewals' \in [LeaseStreams -> RenewalStates]
  BY DEF LeaseTypes
<1>2. SUFFICES ASSUME NEW t \in LeaseStreams \ {s}
               PROVE  /\ RepliesDated(leaseStreams[t])' /\ OpenGranted(leaseStreams[t])'
                      /\ RenewalDated(renewals[t])'
                      /\ RenewedInTime(leaseStreams[t], renewals[t])'
  BY <1>1 DEF StreamsDated
<1>3. leaseStreams'[t] = leaseStreams[t] /\ renewals'[t] = renewals[t]
  BY DEF LeaseTypes
<1>4. leaseStreams[t] \in StreamStates BY DEF LeaseTypes
<1>5. RepliesDated(leaseStreams[t])'
  <2>1. SUFFICES ASSUME leaseStreams[t].at = "asking" PROVE RepliesDated(leaseStreams[t])'
    BY <1>3 DEF RepliesDated
  <2>2. \A i \in 1..Len(leaseStreams[t].replies) : leaseStreams[t].replies[i] \in Nat
    BY <1>4, <2>1, StreamFields, ElementOfSeq
  <2> QED BY <1>3, <2>1, <2>2 DEF StreamsDated, RepliesDated, Latest, LeaseTypes
<1> QED BY <1>3, <1>5 DEF StreamsDated, OpenGranted, RenewalDated, RenewedInTime

\* A request is new or over: nothing is claimed of it.
LEMMA Quiet ==
  ASSUME NEW q, q.at \in {"new", "closed"}
  PROVE  RepliesDated(q) /\ OpenGranted(q)
BY DEF RepliesDated, OpenGranted

\* authorize starts an exchange.
LEMMA AskForKeeps ==
  ASSUME LeaseInv, NEW s \in LeaseStreams, NEW asks \in SUBSET Permissions, asks # {},
         AskFor(s, asks)
  PROVE  LeaseInv'
<1> USE DEF LeaseInv
<1>0. /\ leaseStreams[s].at = "new" /\ leaseClock \in Nat
      /\ UNCHANGED <<leaseClock, grants, granted, known, leaseProbe, confirmed, renewals>>
      /\ runtime' = [runtime EXCEPT !.started = TRUE]
  BY LeaseConstants DEF AskFor, LeaseTypes
<1>1. leaseStreams' = [leaseStreams EXCEPT ![s] =
        [at |-> "asking", asks |-> asks, began |-> leaseClock, replies |-> <<>>]]
  BY DEF AskFor
<1>2. leaseStreams'[s] = [at |-> "asking", asks |-> asks, began |-> leaseClock,
                          replies |-> <<>>]
  BY <1>1 DEF LeaseTypes
<1>3. leaseStreams'[s] \in StreamStates
  <2>1. << >> \in Seq(Nat) BY EmptySeq
  <2> QED BY <1>0, <1>2, <2>1 DEF StreamStates
<1>4. RepliesDated(leaseStreams[s])' /\ OpenGranted(leaseStreams[s])'
  <2>1. Len(<< >>) = 0 BY EmptySeq
  <2> QED BY <1>0, <1>2, <2>1 DEF RepliesDated, OpenGranted
<1>5. renewals[s] = NoRenewal BY <1>0 DEF StreamsDated, RenewedInTime
<1>6. RenewalDated(renewals[s])' /\ RenewedInTime(leaseStreams[s], renewals[s])'
  BY <1>0, <1>5 DEF RenewalDated, RenewedInTime
<1>7. renewals' = [renewals EXCEPT ![s] = renewals'[s]] /\ renewals'[s] \in RenewalStates
  BY <1>0 DEF LeaseTypes
<1>8. leaseStreams' = [leaseStreams EXCEPT ![s] = leaseStreams'[s]] BY <1>1, <1>2
<1>9. known' \in 1..Len(grants) /\ known <= known' BY <1>0 DEF LeaseTypes
<1>10. /\ leaseStreams' \in [LeaseStreams -> StreamStates]
       /\ renewals' \in [LeaseStreams -> RenewalStates]
       /\ StreamsDated'
  BY <1>0, <1>3, <1>4, <1>6, <1>7, <1>8, <1>9, OneStream
<1>11. runtime' \in [started : BOOLEAN, healthy : BOOLEAN, last : Nat]
       /\ runtime'.last = runtime.last
  BY <1>0 DEF LeaseTypes
<1>12. LeaseTypes' BY <1>0, <1>10, <1>11 DEF LeaseTypes
<1> QED BY <1>0, <1>10, <1>11, <1>12 DEF GrantsOrdered, ProbeDated, SuccessDated, Latest

\* The greatest known revision rises to the latest: the last success is
\* dated by nothing any more.
LEMMA BatchReplyKeeps ==
  ASSUME LeaseInv, NEW s \in LeaseStreams, BatchReply(s)
  PROVE  LeaseInv'
<1> USE DEF LeaseInv
<1> DEFINE q == leaseStreams[s]
           n == Len(grants)
<1>0. /\ q.at = "asking" /\ leaseClock \in Nat /\ n \in Nat
      /\ UNCHANGED <<leaseClock, grants, granted, runtime, leaseProbe, confirmed, renewals>>
      /\ leaseStreams' = [leaseStreams EXCEPT ![s].replies = Append(@, n)]
  BY LeaseConstants, LenProperties DEF BatchReply, LeaseTypes, Top
<1>1. known' = n /\ known \in 1..n BY <1>0 DEF BatchReply, Raise, Top, LeaseTypes
<1>2. /\ q \in StreamStates /\ q.asks \subseteq Permissions /\ q.began \in Nat
      /\ q.replies \in Seq(Nat)
      /\ q = [at |-> "asking", asks |-> q.asks, began |-> q.began, replies |-> q.replies]
  BY <1>0, StreamFields DEF LeaseTypes
<1>3. leaseStreams'[s] = [at |-> "asking", asks |-> q.asks, began |-> q.began,
                          replies |-> Append(q.replies, n)]
  BY <1>0, <1>2 DEF LeaseTypes
<1>4. /\ Append(q.replies, n) \in Seq(Nat) /\ Len(Append(q.replies, n)) = Len(q.replies) + 1
      /\ \A i \in 1..Len(q.replies) : Append(q.replies, n)[i] = q.replies[i]
      /\ Append(q.replies, n)[Len(q.replies) + 1] = n /\ Len(q.replies) \in Nat
  BY <1>0, <1>2, AppendProperties, LenProperties
<1>5. leaseStreams'[s] \in StreamStates BY <1>2, <1>3, <1>4 DEF StreamStates
<1>6. RepliesDated(leaseStreams[s])'
  <2>1. RepliesDated(q) BY DEF StreamsDated
  <2>2. SUFFICES ASSUME NEW i \in 1..(Len(q.replies) + 1)
                 PROVE  /\ Latest(Append(q.replies, n)[i], q.began)
                        /\ Append(q.replies, n)[i] <= n
    BY <1>0, <1>1, <1>3, <1>4, <2>1 DEF RepliesDated, Latest
  <2>3. CASE i \in 1..Len(q.replies)
    <3>1. Latest(q.replies[i], q.began) BY <1>0, <2>1, <2>3 DEF RepliesDated
    <3> QED BY <1>0, <1>4, <2>3, <3>1 DEF Latest
  <2>4. CASE i = Len(q.replies) + 1
    BY <1>0, <1>1, <1>4, <2>1, <2>4 DEF RepliesDated, Latest
  <2>5. i \in 1..Len(q.replies) \/ i = Len(q.replies) + 1
    <3> HIDE DEF q
    <3> QED BY <2>2, <1>4
  <2> QED BY <2>3, <2>4, <2>5
<1>7. OpenGranted(leaseStreams[s])' BY <1>3 DEF OpenGranted
<1>8. RenewalDated(renewals[s])' /\ RenewedInTime(leaseStreams[s], renewals[s])'
  <2>1. renewals[s] = NoRenewal BY <1>0 DEF StreamsDated, RenewedInTime
  <2> QED BY <1>0, <2>1 DEF RenewalDated, RenewedInTime
<1>9. /\ leaseStreams' = [leaseStreams EXCEPT ![s] = leaseStreams'[s]]
      /\ renewals' = [renewals EXCEPT ![s] = renewals'[s]] /\ renewals'[s] \in RenewalStates
  BY <1>0 DEF LeaseTypes
<1>10. /\ leaseStreams' \in [LeaseStreams -> StreamStates]
       /\ renewals' \in [LeaseStreams -> RenewalStates]
       /\ StreamsDated'
  <2>1. known' \in 1..Len(grants) /\ known <= known' BY <1>1, <1>0
  <2> QED BY <1>0, <1>5, <1>6, <1>7, <1>8, <1>9, <2>1, OneStream
<1>11. LeaseTypes' BY <1>0, <1>1, <1>10 DEF LeaseTypes
<1>12. SuccessDated' BY <1>0, <1>1 DEF SuccessDated
<1> QED BY <1>0, <1>10, <1>11, <1>12 DEF GrantsOrdered, ProbeDated, Latest

\* A complete batch of distinct grants covers every permission asked for.
LEMMA AllGrantedCovers ==
  ASSUME LeaseTypes, NEW asks \in SUBSET Permissions, NEW replies \in Seq(Nat), NEW r \in Nat,
         Len(replies) = Cardinality(asks), AllGranted(asks, replies),
         \A i \in 1..Len(replies) : replies[i] = r
  PROVE  asks \subseteq grants[r]
<1>1. DOMAIN replies = 1..Len(replies) /\ Len(replies) \in Nat BY LenProperties
<1>2. PICK order \in [1..Len(replies) -> asks] :
        /\ \A i, j \in 1..Len(replies) : order[i] = order[j] => i = j
        /\ \A i \in 1..Len(replies) : order[i] \in grants[replies[i]]
  BY <1>1 DEF AllGranted
<1>3. IsFiniteSet(asks) BY FS_Subset, LeaseConstants
<1>4. order \in Injection(1..Len(replies), asks) BY <1>2, Fun_IsInj
<1>5. Cardinality(1..Len(replies)) = Len(replies) BY <1>1, FS_Interval
<1>6. order \in Surjection(1..Len(replies), asks) BY <1>3, <1>4, <1>5, FS_Injection
<1>7. \A p \in asks : \E i \in 1..Len(replies) : order[i] = p
  BY <1>6, Fun_SurjectionProperties
<1> QED BY <1>2, <1>7

\* success stores the time and the health.
LEMMA HeardRecord ==
  ASSUME LeaseTypes
  PROVE  Heard \in [started : BOOLEAN, healthy : BOOLEAN, last : Nat]
         /\ Heard.last = leaseClock + 1
<1> DEFINE well == [runtime EXCEPT !.healthy = TRUE]
<1>1. well \in [started : BOOLEAN, healthy : BOOLEAN, last : Nat] BY DEF LeaseTypes
<1>2. leaseClock + 1 \in Nat BY LeaseConstants DEF LeaseTypes
<1>3. Heard = [well EXCEPT !.last = leaseClock + 1] BY DEF Heard
<1> HIDE DEF well
<1> QED BY <1>1, <1>2, <1>3

\* authorize opens the stream, or not.
LEMMA ConcludeKeeps ==
  ASSUME LeaseInv, NEW s \in LeaseStreams, Conclude(s)
  PROVE  LeaseInv'
<1> USE DEF LeaseInv
<1> DEFINE q == leaseStreams[s]
           n == Len(grants)
           r == q.replies[1]
<1>0. /\ q.at = "asking" /\ leaseClock \in Nat /\ n \in Nat
      /\ Len(q.replies) = Cardinality(q.asks) /\ leaseClock < q.began + Deadline
      /\ UNCHANGED <<leaseClock, grants, granted, known, leaseProbe, confirmed, renewals>>
      /\ runtime' = IF OneRevision(q.replies) THEN Heard ELSE runtime
  BY LeaseConstants, LenProperties DEF Conclude, LeaseTypes
<1>1. leaseStreams' = [leaseStreams EXCEPT ![s] =
              IF OneRevision(q.replies) /\ AllGranted(q.asks, q.replies)
              THEN [at |-> "open", asks |-> q.asks, rev |-> r, seen |-> leaseClock]
              ELSE [at |-> "closed"]]
  BY DEF Conclude
<1>2. /\ q \in StreamStates /\ q.asks \in SUBSET Permissions /\ q.began \in Nat
      /\ q.replies \in Seq(Nat)
  BY <1>0, StreamFields DEF LeaseTypes
<1>3. /\ q.began <= leaseClock /\ q.asks # {}
      /\ \A i \in 1..Len(q.replies) : Latest(q.replies[i], q.began) /\ q.replies[i] <= known
  BY <1>0 DEF StreamsDated, RepliesDated
<1>4. Len(q.replies) \in Nat \ {0} /\ 1 \in 1..Len(q.replies)
  <2>1. IsFiniteSet(q.asks) BY <1>2, FS_Subset, LeaseConstants
  <2>2. Cardinality(q.asks) # 0 BY <1>3, <2>1, FS_EmptySet
  <2>3. Cardinality(q.asks) \in Nat BY <2>1, FS_CardinalityType
  <2> QED BY <1>0, <2>2, <2>3
<1>5. Latest(r, q.began) /\ r <= known /\ r \in 1..n BY <1>3, <1>4 DEF Latest
<1>6. Deadline > 0 BY <1>0, <1>2, <1>3, LeaseConstants
<1>g. r < n => granted[r + 1] \in Nat
  <2>1. n \in Nat /\ r \in 1..n BY <1>0, <1>5
  <2>2. Len(granted) = n /\ granted \in Seq(Nat) BY DEF LeaseTypes
  <2> HIDE DEF LeaseInv, q, n, r
  <2>3. r < n => r + 1 \in 1..Len(granted) BY <2>1, <2>2
  <2> QED BY <2>2, <2>3, ElementOfSeq
<1>7. r < n => leaseClock < granted[r + 1] + Deadline
  <2>1. r < n => q.began <= granted[r + 1] BY <1>5 DEF Latest
  <2>2. leaseClock \in Nat /\ q.began \in Nat /\ leaseClock < q.began + Deadline
    BY <1>0, <1>2
  <2> HIDE DEF q, n, r
  <2> QED BY <1>g, <2>1, <2>2, LeaseConstants
<1>8. OneRevision(q.replies) => r = known
  BY <1>5 DEF OneRevision, LeaseTypes
<1>9. SuccessDated' /\ runtime' \in [started : BOOLEAN, healthy : BOOLEAN, last : Nat]
  <2>1. CASE OneRevision(q.replies)
    <3>1. /\ runtime' \in [started : BOOLEAN, healthy : BOOLEAN, last : Nat]
          /\ runtime'.last = leaseClock + 1
      BY <1>0, <2>1, HeardRecord
    <3>2. known < n => known + 1 \in 1..Len(granted) BY <1>0 DEF LeaseTypes
    <3>3. known < n => granted[known + 1] \in Nat BY <3>2, ElementOfSeq DEF LeaseTypes
    <3>4. known < n => leaseClock + 1 <= granted[known + 1] + Deadline
      BY <1>0, <1>7, <1>8, <2>1, <3>3, LeaseConstants
    <3> QED BY <1>0, <1>6, <3>1, <3>4 DEF SuccessDated
  <2>2. CASE ~OneRevision(q.replies)
    BY <1>0, <2>2 DEF SuccessDated, LeaseTypes
  <2> QED BY <2>1, <2>2
<1>10. /\ leaseStreams'[s] \in StreamStates
       /\ RepliesDated(leaseStreams[s])' /\ OpenGranted(leaseStreams[s])'
  <2>1. CASE OneRevision(q.replies) /\ AllGranted(q.asks, q.replies)
    <3>1. leaseStreams'[s] = [at |-> "open", asks |-> q.asks, rev |-> r, seen |-> leaseClock]
      BY <1>1, <2>1 DEF LeaseTypes
    <3>2. \A i \in 1..Len(q.replies) : q.replies[i] = r
      BY <1>2, <2>1, LenProperties DEF OneRevision
    <3>3. q.asks \subseteq grants[r]
      <4>1. /\ LeaseTypes /\ q.asks \in SUBSET Permissions /\ q.replies \in Seq(Nat)
            /\ r \in Nat
        BY <1>0, <1>2, <1>5
      <4>2. Len(q.replies) = Cardinality(q.asks) /\ AllGranted(q.asks, q.replies)
        BY <1>0, <2>1
      <4> HIDE DEF LeaseInv, q, n, r
      <4> QED BY <3>2, <4>1, <4>2, AllGrantedCovers
    <3>4. leaseStreams'[s] \in StreamStates BY <1>0, <1>2, <1>5, <3>1 DEF StreamStates
    <3>5. r < n => leaseClock < granted[r + 1] + LeaseAge + Deadline
      <4>1. r < n => granted[r + 1] \in Nat BY <1>g
      <4>2. leaseClock \in Nat /\ (r < n => leaseClock < granted[r + 1] + Deadline)
        BY <1>0, <1>7
      <4> HIDE DEF LeaseInv, q, n, r
      <4> QED BY <4>1, <4>2, LeaseConstants
    <3> QED BY <1>0, <1>5, <1>6, <3>1, <3>3, <3>4, <3>5 DEF RepliesDated, OpenGranted
  <2>2. CASE ~(OneRevision(q.replies) /\ AllGranted(q.asks, q.replies))
    <3>1. leaseStreams'[s] = [at |-> "closed"] BY <1>1, <2>2 DEF LeaseTypes
    <3> QED BY <3>1 DEF StreamStates, RepliesDated, OpenGranted
  <2> QED BY <2>1, <2>2
<1>11. RenewalDated(renewals[s])' /\ RenewedInTime(leaseStreams[s], renewals[s])'
  <2>1. renewals[s] = NoRenewal BY <1>0 DEF StreamsDated, RenewedInTime
  <2> QED BY <1>0, <2>1 DEF RenewalDated, RenewedInTime
<1>12. /\ leaseStreams' = [leaseStreams EXCEPT ![s] = leaseStreams'[s]]
       /\ renewals' = [renewals EXCEPT ![s] = renewals'[s]] /\ renewals'[s] \in RenewalStates
  BY <1>0, <1>1 DEF LeaseTypes
<1>13. /\ leaseStreams' \in [LeaseStreams -> StreamStates]
       /\ renewals' \in [LeaseStreams -> RenewalStates]
       /\ StreamsDated'
  <2>1. known' \in 1..Len(grants) /\ known <= known' BY <1>0 DEF LeaseTypes
  <2> QED BY <1>0, <1>10, <1>11, <1>12, <2>1, OneStream
<1>14. LeaseTypes' BY <1>0, <1>9, <1>13 DEF LeaseTypes
<1> QED BY <1>0, <1>9, <1>13, <1>14 DEF GrantsOrdered, ProbeDated, Latest

\* An exchange fails: the request is refused.
LEMMA AuthorizeFailsKeeps ==
  ASSUME LeaseInv, NEW s \in LeaseStreams, AuthorizeFails(s)
  PROVE  LeaseInv'
<1> USE DEF LeaseInv
<1>0. /\ leaseStreams[s].at = "asking"
      /\ leaseStreams' = [leaseStreams EXCEPT ![s] = [at |-> "closed"]]
      /\ UNCHANGED <<leaseClock, grants, granted, known, runtime, leaseProbe, confirmed, renewals>>
  BY DEF AuthorizeFails
<1>1. leaseStreams'[s] = [at |-> "closed"] BY <1>0 DEF LeaseTypes
<1>2. /\ leaseStreams'[s] \in StreamStates
      /\ RepliesDated(leaseStreams[s])' /\ OpenGranted(leaseStreams[s])'
  BY <1>1 DEF StreamStates, RepliesDated, OpenGranted
<1>3. RenewalDated(renewals[s])' /\ RenewedInTime(leaseStreams[s], renewals[s])'
  BY <1>0, <1>1 DEF StreamsDated, RenewalDated, RenewedInTime
<1>4. /\ leaseStreams' = [leaseStreams EXCEPT ![s] = leaseStreams'[s]]
      /\ renewals' = [renewals EXCEPT ![s] = renewals'[s]] /\ renewals'[s] \in RenewalStates
  BY <1>0 DEF LeaseTypes
<1>5. /\ leaseStreams' \in [LeaseStreams -> StreamStates]
      /\ renewals' \in [LeaseStreams -> RenewalStates]
      /\ StreamsDated'
  <2>1. known' \in 1..Len(grants) /\ known <= known' BY <1>0 DEF LeaseTypes
  <2> QED BY <1>0, <1>2, <1>3, <1>4, <2>1, OneStream
<1>6. LeaseTypes' BY <1>0, <1>5 DEF LeaseTypes
<1> QED BY <1>0, <1>5, <1>6 DEF GrantsOrdered, ProbeDated, SuccessDated, Latest

(* The watch. *)

\* Steps of the watch touch no stream.
LEMMA StreamsApart ==
  ASSUME LeaseInv, known' \in 1..Len(grants), known <= known',
         UNCHANGED <<leaseClock, grants, granted, confirmed, leaseStreams, renewals>>
  PROVE  StreamsDated'
<1> USE DEF LeaseInv
<1>1. SUFFICES ASSUME NEW s \in LeaseStreams
               PROVE  /\ RepliesDated(leaseStreams[s])' /\ OpenGranted(leaseStreams[s])'
                      /\ RenewalDated(renewals[s])'
                      /\ RenewedInTime(leaseStreams[s], renewals[s])'
  BY DEF StreamsDated
<1>2. leaseStreams[s] \in StreamStates BY DEF LeaseTypes
<1>3. RepliesDated(leaseStreams[s])'
  <2>1. SUFFICES ASSUME leaseStreams[s].at = "asking" PROVE RepliesDated(leaseStreams[s])'
    BY DEF RepliesDated
  <2>2. \A i \in 1..Len(leaseStreams[s].replies) : leaseStreams[s].replies[i] \in Nat
    BY <1>2, <2>1, StreamFields, ElementOfSeq
  <2> QED BY <2>1, <2>2 DEF StreamsDated, RepliesDated, Latest, LeaseTypes
<1> QED BY <1>3 DEF StreamsDated, OpenGranted, RenewalDated, RenewedInTime

\* A probe is sent, or its answer is the latest revision of that moment.
LEMMA ProbeStepKeeps ==
  ASSUME LeaseInv, SendProbe \/ AnswerProbe
  PROVE  LeaseInv'
<1> USE DEF LeaseInv
<1>0. /\ UNCHANGED <<leaseClock, grants, granted, known, runtime, leaseStreams, confirmed,
                     renewals>>
      /\ leaseClock \in Nat /\ Len(grants) \in Nat /\ known \in 1..Len(grants)
  BY LeaseConstants, LenProperties DEF SendProbe, AnswerProbe, LeaseTypes
<1>1. ProbeDated' /\ leaseProbe' \in ProbeStates
  <2>1. CASE SendProbe
    <3>1. leaseProbe' = [at |-> "sent", began |-> leaseClock] BY <2>1 DEF SendProbe
    <3> QED BY <1>0, <3>1 DEF ProbeDated, ProbeStates
  <2>2. CASE AnswerProbe
    <3>1. leaseProbe' = [at |-> "answered", began |-> leaseProbe.began, rev |-> Len(grants)]
      BY <2>2 DEF AnswerProbe, Top
    <3>2. leaseProbe.began \in Nat /\ leaseProbe.began <= leaseClock
      BY <2>2 DEF AnswerProbe, ProbeDated, LeaseTypes, ProbeStates, NoExchange
    <3>3. Len(grants) \in 1..Len(grants) BY <1>0
    <3> QED BY <1>0, <3>1, <3>2, <3>3 DEF ProbeDated, ProbeStates, Latest
  <2> QED BY <2>1, <2>2
<1>2. StreamsDated' BY <1>0, StreamsApart DEF LeaseTypes
<1>3. LeaseTypes' BY <1>0, <1>1 DEF LeaseTypes
<1> QED BY <1>0, <1>1, <1>2, <1>3 DEF GrantsOrdered, SuccessDated

\* The watch's probe succeeds within its deadline.
LEMMA ProbeSucceedsKeeps ==
  ASSUME LeaseInv, ProbeSucceeds
  PROVE  LeaseInv'
<1> USE DEF LeaseInv
<1> DEFINE r == leaseProbe.rev
           b == leaseProbe.began
           n == Len(grants)
<1>0. /\ leaseProbe.at = "answered" /\ leaseClock < b + Deadline /\ r >= known
      /\ leaseProbe' = NoExchange /\ runtime' = Heard
      /\ UNCHANGED <<leaseClock, grants, granted, leaseStreams, confirmed, renewals>>
      /\ leaseClock \in Nat /\ n \in Nat /\ known \in 1..n
  BY LeaseConstants, LenProperties DEF ProbeSucceeds, LeaseTypes
<1>1. b \in Nat /\ r \in 1..n /\ b <= leaseClock /\ (r < n => b <= granted[r + 1])
  BY <1>0 DEF ProbeDated, LeaseTypes, ProbeStates, NoExchange, Latest
<1>2. known' = r BY <1>0, <1>1 DEF ProbeSucceeds, Raise
<1>3. r < n => granted[r + 1] \in Nat
  <2>1. r < n => r + 1 \in 1..Len(granted) BY <1>0, <1>1 DEF LeaseTypes
  <2> QED BY <2>1, ElementOfSeq DEF LeaseTypes
<1>4. runtime' \in [started : BOOLEAN, healthy : BOOLEAN, last : Nat]
      /\ runtime'.last = leaseClock + 1
  BY <1>0, HeardRecord
<1>5. Deadline > 0 /\ (r < n => leaseClock + 1 <= granted[r + 1] + Deadline)
  <2> HIDE DEF r, b, n
  <2> QED BY <1>0, <1>1, <1>3, LeaseConstants
<1>6. SuccessDated' BY <1>0, <1>2, <1>4, <1>5 DEF SuccessDated
<1>7. ProbeDated' /\ leaseProbe' \in ProbeStates
  BY <1>0 DEF ProbeDated, ProbeStates, NoExchange
<1>8. known' \in 1..Len(grants) /\ known <= known' BY <1>0, <1>1, <1>2
<1>9. StreamsDated' BY <1>0, <1>8, StreamsApart
<1>10. LeaseTypes' BY <1>0, <1>4, <1>7, <1>8 DEF LeaseTypes
<1> QED BY <1>0, <1>6, <1>7, <1>9, <1>10 DEF GrantsOrdered

\* A failed probe only marks the authority unhealthy.
LEMMA ProbeFailsKeeps ==
  ASSUME LeaseInv, ProbeFails
  PROVE  LeaseInv'
<1> USE DEF LeaseInv
<1>0. /\ leaseProbe' = NoExchange /\ runtime' = [runtime EXCEPT !.healthy = FALSE]
      /\ UNCHANGED <<leaseClock, grants, granted, known, leaseStreams, confirmed, renewals>>
      /\ known \in 1..Len(grants) /\ Len(grants) \in Nat
  BY LenProperties DEF ProbeFails, LeaseTypes
<1>1. runtime' \in [started : BOOLEAN, healthy : BOOLEAN, last : Nat]
      /\ runtime'.last = runtime.last
  BY <1>0 DEF LeaseTypes
<1>2. ProbeDated' /\ leaseProbe' \in ProbeStates
  BY <1>0 DEF ProbeDated, ProbeStates, NoExchange
<1>3. StreamsDated' BY <1>0, StreamsApart
<1>4. LeaseTypes' BY <1>0, <1>1, <1>2 DEF LeaseTypes
<1> QED BY <1>0, <1>1, <1>2, <1>3, <1>4 DEF GrantsOrdered, SuccessDated

(* Renewal and retirement. *)

\* Steps that change one stream's state and renewal, and nothing else.
LEMMA RenewalStep ==
  ASSUME LeaseInv, NEW s \in LeaseStreams,
         UNCHANGED <<leaseClock, grants, granted, known, runtime, leaseProbe, confirmed>>,
         leaseStreams' = [leaseStreams EXCEPT ![s] = leaseStreams'[s]],
         renewals' = [renewals EXCEPT ![s] = renewals'[s]],
         leaseStreams'[s] \in StreamStates, renewals'[s] \in RenewalStates,
         RepliesDated(leaseStreams[s])', OpenGranted(leaseStreams[s])',
         RenewalDated(renewals[s])', RenewedInTime(leaseStreams[s], renewals[s])'
  PROVE  LeaseInv'
<1> USE DEF LeaseInv
<1>1. /\ leaseStreams' \in [LeaseStreams -> StreamStates]
      /\ renewals' \in [LeaseStreams -> RenewalStates]
      /\ StreamsDated'
  <2>1. known' \in 1..Len(grants) /\ known <= known' BY DEF LeaseTypes
  <2> QED BY <2>1, OneStream
<1>2. LeaseTypes' BY <1>1 DEF LeaseTypes
<1> QED BY <1>1, <1>2 DEF GrantsOrdered, ProbeDated, SuccessDated, Latest

\* Steps that change one renewal only.
LEMMA RenewalOnly ==
  ASSUME LeaseInv, NEW s \in LeaseStreams,
         UNCHANGED <<leaseClock, grants, granted, known, runtime, leaseProbe, leaseStreams,
                     confirmed>>,
         renewals' = [renewals EXCEPT ![s] = renewals'[s]], renewals'[s] \in RenewalStates,
         RenewalDated(renewals[s])', RenewedInTime(leaseStreams[s], renewals[s])'
  PROVE  LeaseInv'
<1>1. leaseStreams' = [leaseStreams EXCEPT ![s] = leaseStreams'[s]]
      /\ leaseStreams'[s] \in StreamStates
  BY DEF LeaseInv, LeaseTypes
<1>2. RepliesDated(leaseStreams[s])' /\ OpenGranted(leaseStreams[s])'
  BY DEF LeaseInv, StreamsDated, RepliesDated, OpenGranted, Latest
<1> QED BY <1>1, <1>2, RenewalStep

\* The identity is confirmed now: its evidence lasts a ttl from now.
LEMMA StartRenewalKeeps ==
  ASSUME LeaseInv, NEW s \in LeaseStreams, StartRenewal(s)
  PROVE  LeaseInv'
<1> USE DEF LeaseInv
<1>0. /\ leaseStreams[s].at = "open" /\ confirmed = Unrevoked
      /\ renewals' = [renewals EXCEPT ![s] = RestingRenewal(leaseClock)]
      /\ UNCHANGED <<leaseClock, grants, granted, known, runtime, leaseProbe, leaseStreams,
                     confirmed>>
      /\ leaseClock \in 0..MaxLeaseClock /\ MaxLeaseClock \in Nat
  BY LeaseConstants DEF StartRenewal, LeaseTypes
<1>1. renewals'[s] = [state |-> "resting", expires |-> leaseClock + EvidenceTtl,
                      failed |-> FALSE, began |-> 0]
  BY <1>0 DEF LeaseTypes, RestingRenewal, EvidenceExpiry
<1>2. renewals' = [renewals EXCEPT ![s] = renewals'[s]] /\ renewals'[s] \in RenewalStates
  <2>1. leaseClock + EvidenceTtl \in Nat BY <1>0, LeaseConstants
  <2>2. renewals'[s] \in RenewalStates BY <1>1, <2>1 DEF RenewalStates
  <2>3. renewals' = [renewals EXCEPT ![s] = renewals'[s]] BY <1>0 DEF LeaseTypes
  <2> QED BY <2>2, <2>3
<1>3. leaseClock < confirmed BY <1>0, LeaseConstants DEF Unrevoked
<1>4. leaseStreams[s].seen <= leaseClock /\ leaseStreams[s].seen \in Nat
  BY <1>0, StreamFields DEF StreamsDated, OpenGranted, LeaseTypes
<1>5. confirmed \in Nat BY DEF LeaseTypes
<1>6. RenewalDated(renewals[s])'
  BY <1>0, <1>1, <1>3, <1>5, LeaseConstants DEF RenewalDated
<1>7. leaseStreams[s].seen < confirmed + EvidenceTtl
  BY <1>0, <1>3, <1>4, <1>5, LeaseConstants
<1>8. RenewedInTime(leaseStreams[s], renewals[s])' BY <1>0, <1>7 DEF RenewedInTime
<1> QED BY <1>0, <1>2, <1>6, <1>8, RenewalOnly

\* An ended renewal claims nothing.
LEMMA EndedHarmless ==
  /\ EndedRenewal \in RenewalStates /\ EndedRenewal # NoRenewal /\ EndedRenewal.failed
  /\ EndedRenewal.began = 0 /\ EndedRenewal.state = "ended"
BY DEF EndedRenewal, RenewalStates, NoRenewal

\* The same evidence is verified again while the lease still holds.
LEMMA AskRenewalKeeps ==
  ASSUME LeaseInv, NEW s \in LeaseStreams, AskRenewal(s)
  PROVE  LeaseInv'
<1> USE DEF LeaseInv
<1> DEFINE m == renewals[s]
<1>0. /\ m.state = "resting" /\ leaseClock \in Nat /\ m \in RenewalStates
      /\ UNCHANGED <<leaseClock, grants, granted, known, runtime, leaseProbe, leaseStreams,
                     confirmed>>
  BY LeaseConstants DEF AskRenewal, LeaseTypes
<1>1. /\ m # NoRenewal /\ m = [state |-> m.state, expires |-> m.expires, failed |-> m.failed,
                               began |-> m.began]
      /\ m.expires \in Nat /\ m.failed \in BOOLEAN
  <2>1. m # NoRenewal BY <1>0 DEF NoRenewal
  <2> QED BY <1>0, <2>1, RenewalFields
<1>2. renewals' = [renewals EXCEPT ![s] =
          IF RenewalCurrent(s) THEN [m EXCEPT !.state = "verifying", !.began = leaseClock]
          ELSE EndedRenewal]
  BY DEF AskRenewal
<1>3. renewals' = [renewals EXCEPT ![s] = renewals'[s]] BY <1>2 DEF LeaseTypes
<1>4. RenewalDated(m) /\ RenewedInTime(leaseStreams[s], m) BY DEF StreamsDated
<1>5. CASE RenewalCurrent(s)
  <2>1. renewals'[s] = [state |-> "verifying", expires |-> m.expires, failed |-> m.failed,
                        began |-> leaseClock]
    BY <1>1, <1>2, <1>5 DEF LeaseTypes
  <2>2. renewals'[s] \in RenewalStates BY <1>0, <1>1, <2>1 DEF RenewalStates
  <2>3. RenewalDated(renewals[s])' BY <1>0, <1>1, <1>4, <2>1 DEF RenewalDated
  <2>4. RenewedInTime(leaseStreams[s], renewals[s])'
    BY <1>0, <1>1, <1>4, <2>1 DEF RenewedInTime
  <2> QED BY <1>0, <1>3, <2>2, <2>3, <2>4, RenewalOnly
<1>6. CASE ~RenewalCurrent(s)
  <2>1. renewals'[s] = EndedRenewal BY <1>2, <1>6 DEF LeaseTypes
  <2>2. RenewalDated(renewals[s])' BY <1>0, <2>1, EndedHarmless DEF RenewalDated
  <2>3. RenewedInTime(leaseStreams[s], renewals[s])'
    BY <1>0, <1>1, <1>4, <2>1, EndedHarmless DEF RenewedInTime
  <2> QED BY <1>0, <1>3, <2>1, <2>2, <2>3, EndedHarmless, RenewalOnly
<1> QED BY <1>5, <1>6

\* The identity authority confirms: the identity was not revoked before began.
LEMMA ConfirmRenewalKeeps ==
  ASSUME LeaseInv, NEW s \in LeaseStreams, ConfirmRenewal(s)
  PROVE  LeaseInv'
<1> USE DEF LeaseInv
<1> DEFINE m == renewals[s]
<1>0. /\ m.state = "verifying" /\ leaseClock \in 0..MaxLeaseClock /\ m \in RenewalStates
      /\ confirmed = Unrevoked /\ MaxLeaseClock \in Nat
      /\ renewals' = [renewals EXCEPT ![s].state = "confirmed"]
      /\ UNCHANGED <<leaseClock, grants, granted, known, runtime, leaseProbe, leaseStreams,
                     confirmed>>
  BY LeaseConstants DEF ConfirmRenewal, LeaseTypes
<1>1. /\ m # NoRenewal /\ m = [state |-> m.state, expires |-> m.expires, failed |-> m.failed,
                               began |-> m.began]
      /\ m.expires \in Nat /\ m.failed \in BOOLEAN /\ m.began \in Nat
  <2>1. m # NoRenewal BY <1>0 DEF NoRenewal
  <2> QED BY <1>0, <2>1, RenewalFields
<1>2. renewals'[s] = [state |-> "confirmed", expires |-> m.expires, failed |-> m.failed,
                      began |-> m.began]
  BY <1>0, <1>1 DEF LeaseTypes
<1>3. renewals' = [renewals EXCEPT ![s] = renewals'[s]] BY <1>0 DEF LeaseTypes
<1>4. RenewalDated(m) /\ RenewedInTime(leaseStreams[s], m) BY DEF StreamsDated
<1>5. m.began <= confirmed BY <1>0, <1>1, <1>4, LeaseConstants DEF RenewalDated, Unrevoked
<1>6. renewals'[s] \in RenewalStates BY <1>1, <1>2 DEF RenewalStates
<1>7. RenewalDated(renewals[s])' BY <1>0, <1>1, <1>2, <1>4, <1>5 DEF RenewalDated
<1>8. RenewedInTime(leaseStreams[s], renewals[s])'
  BY <1>0, <1>1, <1>2, <1>4 DEF RenewedInTime
<1> QED BY <1>0, <1>3, <1>6, <1>7, <1>8, RenewalOnly

\* The confirmation counts from when it was asked for.
LEMMA TakeRenewalKeeps ==
  ASSUME LeaseInv, NEW s \in LeaseStreams, TakeRenewal(s)
  PROVE  LeaseInv'
<1> USE DEF LeaseInv
<1> DEFINE m == renewals[s]
           kept == /\ m.state = "confirmed" /\ RenewalCurrent(s)
                   /\ leaseClock < EvidenceExpiry(m.began)
<1>0. /\ m.state \in {"verifying", "confirmed"} /\ leaseClock \in Nat /\ m \in RenewalStates
      /\ confirmed \in Nat
      /\ renewals' = [renewals EXCEPT ![s] = IF kept THEN RestingRenewal(m.began)
                                            ELSE EndedRenewal]
      /\ UNCHANGED <<leaseClock, grants, granted, known, runtime, leaseProbe, leaseStreams,
                     confirmed>>
  BY LeaseConstants DEF TakeRenewal, LeaseTypes
<1>1. /\ m # NoRenewal /\ m.failed \in BOOLEAN /\ m.began \in Nat
  <2>1. m # NoRenewal BY <1>0 DEF NoRenewal
  <2> QED BY <1>0, <2>1, RenewalFields
<1>3. renewals' = [renewals EXCEPT ![s] = renewals'[s]] BY <1>0 DEF LeaseTypes
<1>4. RenewalDated(m) /\ RenewedInTime(leaseStreams[s], m) BY DEF StreamsDated
<1>5. CASE kept
  <2>1. renewals'[s] = [state |-> "resting", expires |-> m.began + EvidenceTtl,
                        failed |-> FALSE, began |-> 0]
    BY <1>0, <1>5 DEF LeaseTypes, RestingRenewal, EvidenceExpiry
  <2>2. m.began + EvidenceTtl \in Nat BY <1>1, LeaseConstants
  <2>3. renewals'[s] \in RenewalStates BY <2>1, <2>2 DEF RenewalStates
  <2>4. m.began <= leaseClock /\ m.began <= confirmed /\ ~m.failed
    BY <1>1, <1>4, <1>5 DEF RenewalDated, RenewalCurrent
  <2>5. RenewalDated(renewals[s])'
    BY <1>0, <1>1, <2>1, <2>4, LeaseConstants DEF RenewalDated
  <2>6. RenewedInTime(leaseStreams[s], renewals[s])'
    BY <1>0, <1>1, <1>4, <2>1, <2>4 DEF RenewedInTime
  <2> QED BY <1>0, <1>3, <2>3, <2>5, <2>6, RenewalOnly
<1>6. CASE ~kept
  <2>1. renewals'[s] = EndedRenewal BY <1>0, <1>6 DEF LeaseTypes
  <2>2. RenewalDated(renewals[s])' BY <1>0, <2>1, EndedHarmless DEF RenewalDated
  <2>3. RenewedInTime(leaseStreams[s], renewals[s])'
    BY <1>0, <1>1, <1>4, <2>1, EndedHarmless DEF RenewedInTime
  <2> QED BY <1>0, <1>3, <2>1, <2>2, <2>3, EndedHarmless, RenewalOnly
<1> QED BY <1>5, <1>6

\* A stream that is over, with its renewal dropped.
LEMMA RetireKeeps ==
  ASSUME LeaseInv, NEW s \in LeaseStreams,
         leaseStreams' = [leaseStreams EXCEPT ![s] = [at |-> "closed"]],
         renewals' = [renewals EXCEPT ![s] = NoRenewal],
         UNCHANGED <<leaseClock, grants, granted, known, runtime, leaseProbe, confirmed>>
  PROVE  LeaseInv'
<1>1. leaseStreams'[s] = [at |-> "closed"] /\ renewals'[s] = NoRenewal
  BY DEF LeaseInv, LeaseTypes
<1>2. /\ leaseStreams'[s] \in StreamStates /\ renewals'[s] \in RenewalStates
      /\ RepliesDated(leaseStreams[s])' /\ OpenGranted(leaseStreams[s])'
      /\ RenewalDated(renewals[s])' /\ RenewedInTime(leaseStreams[s], renewals[s])'
  BY <1>1 DEF StreamStates, RenewalStates, RepliesDated, OpenGranted, RenewalDated,
     RenewedInTime
<1>3. /\ leaseStreams' = [leaseStreams EXCEPT ![s] = leaseStreams'[s]]
      /\ renewals' = [renewals EXCEPT ![s] = renewals'[s]]
  BY <1>1
<1> QED BY <1>2, <1>3, RenewalStep

\* The stream goes on: both of its leases were current at this moment.
LEMMA PollStreamKeeps ==
  ASSUME LeaseInv, NEW s \in LeaseStreams, PollStream(s)
  PROVE  LeaseInv'
<1> USE DEF LeaseInv
<1> DEFINE q == leaseStreams[s]
           m == renewals[s]
           n == Len(grants)
           goes == LeaseHolds(q.rev) /\ (m # NoRenewal => RenewalCurrent(s))
<1>0. /\ q.at = "open" /\ leaseClock \in Nat /\ confirmed \in Nat /\ n \in Nat
      /\ leaseStreams' = [leaseStreams EXCEPT ![s] =
              IF goes THEN [q EXCEPT !.seen = leaseClock] ELSE [at |-> "closed"]]
      /\ renewals' = [renewals EXCEPT ![s] = IF goes THEN m ELSE NoRenewal]
      /\ UNCHANGED <<leaseClock, grants, granted, known, runtime, leaseProbe, confirmed>>
  BY LeaseConstants, LenProperties DEF PollStream, LeaseTypes
<1>1. CASE ~goes
  <2>1. /\ leaseStreams' = [leaseStreams EXCEPT ![s] = [at |-> "closed"]]
        /\ renewals' = [renewals EXCEPT ![s] = NoRenewal]
    BY <1>0, <1>1
  <2> QED BY <1>0, <2>1, RetireKeeps
<1>2. CASE goes
  <2>1. /\ q = [at |-> "open", asks |-> q.asks, rev |-> q.rev, seen |-> q.seen]
        /\ q.asks \subseteq Permissions /\ q.rev \in Nat
    BY <1>0, StreamFields DEF LeaseTypes
  <2>2. leaseStreams'[s] = [at |-> "open", asks |-> q.asks, rev |-> q.rev,
                            seen |-> leaseClock]
    BY <1>0, <1>2, <2>1 DEF LeaseTypes
  <2>3. renewals'[s] = m BY <1>0, <1>2 DEF LeaseTypes
  <2>4. leaseStreams'[s] \in StreamStates BY <1>0, <2>1, <2>2 DEF StreamStates
  <2>5. /\ leaseStreams' = [leaseStreams EXCEPT ![s] = leaseStreams'[s]]
        /\ renewals' = [renewals EXCEPT ![s] = renewals'[s]] /\ renewals'[s] \in RenewalStates
    <3>1. m \in RenewalStates BY DEF LeaseTypes
    <3>2. leaseStreams' = [leaseStreams EXCEPT ![s] = leaseStreams'[s]] BY <1>0 DEF LeaseTypes
    <3>3. renewals' = [renewals EXCEPT ![s] = renewals'[s]] BY <1>0 DEF LeaseTypes
    <3> QED BY <2>3, <3>1, <3>2, <3>3
  <2>6. RepliesDated(leaseStreams[s])' BY <2>2 DEF RepliesDated
  <2>7. q.rev = known /\ runtime.last > 0 /\ leaseClock + 1 - runtime.last <= LeaseAge
        /\ runtime.last \in Nat /\ known \in 1..n
    BY <1>2 DEF LeaseHolds, LeaseTypes
  <2>8. Deadline > 0 /\ (known < n => runtime.last <= granted[known + 1] + Deadline)
    BY <2>7 DEF SuccessDated
  <2>9. known < n => leaseClock < granted[known + 1] + LeaseAge + Deadline
    <3>1. known < n => known + 1 \in 1..Len(granted) BY <1>0, <2>7 DEF LeaseTypes
    <3>2. known < n => granted[known + 1] \in Nat BY <3>1, ElementOfSeq DEF LeaseTypes
    <3> HIDE DEF n
    <3> QED BY <1>0, <2>7, <2>8, <3>2, LeaseConstants
  <2>10. OpenGranted(leaseStreams[s])'
    <3>1. q.asks \subseteq grants[q.rev] BY <1>0 DEF StreamsDated, OpenGranted
    <3> QED BY <1>0, <2>2, <2>7, <2>8, <2>9, <3>1 DEF OpenGranted
  <2>11. RenewalDated(renewals[s])' BY <1>0, <2>3 DEF StreamsDated, RenewalDated
  <2>12. RenewedInTime(leaseStreams[s], renewals[s])'
    <3>1. SUFFICES ASSUME m # NoRenewal, ~m.failed PROVE leaseClock < confirmed + EvidenceTtl
      BY <1>0, <2>2, <2>3 DEF RenewedInTime
    <3>2. m.expires \in Nat BY <3>1, RenewalFields DEF LeaseTypes
    <3>3. leaseClock < m.expires BY <1>2, <3>1 DEF RenewalCurrent
    <3>4. m.expires <= confirmed + EvidenceTtl BY <3>1 DEF StreamsDated, RenewalDated
    <3> QED BY <1>0, <3>2, <3>3, <3>4, LeaseConstants
  <2> QED BY <1>0, <2>4, <2>5, <2>6, <2>10, <2>11, <2>12, RenewalStep
<1> QED BY <1>1, <1>2

\* Every step keeps the invariant.
LEMMA LeaseInductive == LeaseInv /\ [LeaseNext]_leaseVars => LeaseInv'
<1>1. SUFFICES ASSUME LeaseInv, [LeaseNext]_leaseVars PROVE LeaseInv' OBVIOUS
<1>2. CASE UNCHANGED leaseVars
  BY <1>1, <1>2 DEF leaseVars, LeaseInv, LeaseTypes, GrantsOrdered, ProbeDated, SuccessDated,
     StreamsDated, RepliesDated, OpenGranted, RenewalDated, RenewedInTime, Latest
<1>3. ASSUME NEW s \in LeaseStreams,
             AuthorizeRoute(s) \/ \E p \in Permissions : AuthorizeResource(s, p)
      PROVE  LeaseInv'
  <2>1. \E asks \in SUBSET Permissions : asks # {} /\ AskFor(s, asks)
    BY <1>3, LeaseConstants DEF AuthorizeRoute, AuthorizeResource
  <2> QED BY <1>1, <2>1, AskForKeeps
<1>4. ASSUME NEW s \in LeaseStreams, EndStream(s) PROVE LeaseInv'
  BY <1>1, <1>4, RetireKeeps DEF EndStream
<1>5. CASE LeaseNext
  BY <1>1, <1>3, <1>4, <1>5, LeaseTickKeeps, ChangeGrantsKeeps, RevokeEvidenceKeeps,
     ProbeStepKeeps, ProbeSucceedsKeeps, ProbeFailsKeeps, BatchReplyKeeps, ConcludeKeeps,
     AuthorizeFailsKeeps, StartRenewalKeeps, AskRenewalKeeps, ConfirmRenewalKeeps,
     TakeRenewalKeeps, PollStreamKeeps DEF LeaseNext
<1> QED BY <1>1, <1>2, <1>5

\* No stream outlives its permission or its identity by more than the ages the
\* code allows, for any permissions, streams, ages and deadlines (LeaseSound;
\* decide_batch, start_watch, lease_current, Renewal::start).
THEOREM LeaseSoundAlways == LeaseSpec => []LeaseSound
<1>1. LeaseInv => LeaseSound
  BY DEF LeaseInv, LeaseSound, StreamsDated, OpenGranted, RenewedInTime, Top
<1> QED BY <1>1, LeaseInitially, LeaseInductive, PTL DEF LeaseSpec

-----------------------------------------------------------------------------
(* Material from files *)

Looks ==
  [at : {"rest", "cert", "key", "judge"}, slot : Nat, stamp : Nat, cert : Nat, key : Nat]

MaterialTypes ==
  /\ kind \in {"pair", "set", "public", "workload"}
  /\ certFile \in Versions /\ keyFile \in Versions /\ stamp \in Nat
  /\ target \in 1..MaxTargets /\ held \in [1..MaxTargets -> Nat]
  /\ look \in Looks
  /\ observed \subseteq Nat \X Nat /\ attempted \subseteq Nat \X Nat \X Nat
  /\ unread \in BOOLEAN /\ (kind = "pair" => target = 1)

\* A pass works on a slot that was current, and what it has read under a stamp
\* that still stands is what the files hold.
PassCurrent ==
  /\ look.at = "rest" => look = Rest
  /\ look.at # "rest" => look.slot \in 1..target /\ look.stamp <= stamp
  /\ look.at \in {"key", "judge"} /\ look.stamp = stamp => look.cert = certFile
  /\ look.at = "judge" /\ look.stamp = stamp => look.key = keyFile

\* Observations and attempts are of slots and metadata up to now.
MemoryDated ==
  /\ \A o \in observed : o[1] <= target /\ o[2] <= stamp
  /\ \A d \in attempted : d[1] <= target

\* The files agree only on versions that were complete.
CompleteKnown == certFile = keyFile => certFile \in complete

\* Slots of the watchers that keep what they have always hold usable material.
KeptUsable == kind # "workload" => \A t \in 1..target : held[t] \in Usable

\* A set is remembered as attempted only when it was installed, if it could be,
\* and an observation that still stands was attempted.
SetInv ==
  kind \in SetKinds =>
    /\ \A d \in attempted : d[1] = target /\ Validates(d[2], d[3]) => held[target] = d[2]
    /\ look.at # "rest" => observed = {<<look.slot, look.stamp>>}
    /\ (look.at = "rest" /\ observed = {<<target, stamp>>} /\ ~unread) =>
         attempted = {<<target, certFile, keyFile>>}

\* Workload material is what was verified, or withdrawn.
WorkloadInv ==
  kind = "workload" =>
    /\ held[target] \in complete \cup {0}
    /\ observed = {<<target, stamp>>} => held[target] = certFile /\ Validates(certFile, keyFile)
    /\ observed = {} => held[target] = Empty

MaterialInv ==
  /\ MaterialTypes /\ PassCurrent /\ MemoryDated /\ CompleteKnown /\ KeptUsable
  /\ SetInv /\ WorkloadInv

\* The start: one usable pair, in the slot of every watcher but a workload's.
LEMMA MaterialStarts == MaterialInit => MaterialInv
<1> SUFFICES ASSUME MaterialInit PROVE MaterialInv
  OBVIOUS
<1>1. certFile \in Usable /\ certFile \in Nat /\ certFile \in Versions /\ keyFile = certFile
  BY MaterialReloadAssumption DEF MaterialInit, Versions
<1>2. kind \in {"pair", "set", "public", "workload"} /\ 1 \in 1..MaxTargets
  BY MaterialReloadAssumption DEF MaterialInit
<1>3. look = Rest /\ Rest \in Looks /\ Rest.at = "rest"
  BY DEF MaterialInit, Rest, Looks
<1>4. Opened(certFile) \in Nat /\ (kind # "workload" => Opened(certFile) = certFile)
  BY <1>1 DEF Opened, Empty
<1>5. held \in [1..MaxTargets -> Nat] /\ held[1] = Opened(certFile)
  BY <1>2, <1>4 DEF MaterialInit, Empty
<1>6. attempted \subseteq Nat \X Nat \X Nat /\ (\A d \in attempted : d[1] = 1)
      /\ (kind # "pair" => attempted = {}) /\ observed = {} /\ target = 1 /\ stamp = 1
  <2>1. observed = {} /\ target = 1 /\ stamp = 1
    BY DEF MaterialInit
  <2>2. CASE kind = "pair"
    <3>1. attempted = {<<1, certFile, keyFile>>}
      BY <2>2 DEF MaterialInit
    <3>2. <<1, certFile, keyFile>> \in Nat \X Nat \X Nat /\ <<1, certFile, keyFile>>[1] = 1
      BY <1>1
    <3> QED
      BY <2>1, <2>2, <3>1, <3>2
  <2>3. CASE kind # "pair"
    BY <2>1, <2>3 DEF MaterialInit
  <2> QED
    BY <2>2, <2>3
<1>7. MaterialTypes
  <2>1. unread = FALSE
    BY DEF MaterialInit
  <2> QED
    BY <1>1, <1>2, <1>3, <1>5, <1>6, <2>1 DEF MaterialTypes
<1>8. PassCurrent /\ MemoryDated /\ CompleteKnown
  BY <1>3, <1>6 DEF PassCurrent, MemoryDated, CompleteKnown, MaterialInit
<1>9. KeptUsable
  BY <1>1, <1>4, <1>5, <1>6 DEF KeptUsable
<1>10. SetInv
  BY <1>3, <1>6 DEF SetInv, SetKinds
<1>11. WorkloadInv
  BY <1>5, <1>6 DEF WorkloadInv, Opened, Empty
<1> QED
  BY <1>7, <1>8, <1>9, <1>10, <1>11 DEF MaterialInv

\* A write moves the metadata on: nothing observed or read still stands.
LEMMA WriteFileKeeps ==
  ASSUME MaterialInv, NEW file \in {"cert", "key"}, NEW v \in Versions, WriteFile(file, v)
  PROVE  MaterialInv'
<1> USE DEF MaterialInv
<1>1. /\ stamp' = stamp + 1 /\ kind' = kind /\ target' = target /\ held' = held /\ look' = look
      /\ observed' = observed /\ attempted' = attempted /\ unread' = unread
      /\ certFile' \in Versions /\ keyFile' \in Versions /\ stamp \in Nat
  BY DEF WriteFile, Snapshots, Memory, MaterialTypes
<1>2. complete \subseteq complete' /\ (certFile' = keyFile' => certFile' \in complete')
  BY DEF WriteFile, CompleteKnown
<1>3. \A o \in observed : o[2] < stamp'
  BY <1>1 DEF MemoryDated, MaterialTypes
<1>4. \A t \in Nat : observed # {<<t, stamp'>>}
  <2> SUFFICES ASSUME NEW t \in Nat, <<t, stamp'>> \in observed PROVE FALSE
    OBVIOUS
  <2>1. <<t, stamp'>>[2] < stamp'
    BY <1>3
  <2> QED
    BY <1>1, <2>1
<1>t. target \in Nat
  BY DEF MaterialTypes
<1>5. MaterialTypes'
  BY <1>1 DEF MaterialTypes
<1>6. PassCurrent'
  BY <1>1 DEF PassCurrent, MaterialTypes, Looks
<1>7. MemoryDated'
  BY <1>1 DEF MemoryDated, MaterialTypes
<1>8. KeptUsable' /\ CompleteKnown'
  BY <1>1, <1>2 DEF KeptUsable, CompleteKnown
<1>9. SetInv'
  BY <1>1, <1>4, <1>t DEF SetInv
<1>10. WorkloadInv'
  BY <1>1, <1>2, <1>4, <1>t DEF WorkloadInv
<1> QED
  BY <1>5, <1>6, <1>7, <1>8, <1>9, <1>10

\* A published slot is open with what was loaded, or closed for a workload, and
\* no observation or attempt is about it yet.
LEMMA PublishedSlot ==
  ASSUME MaterialInv, target < MaxTargets, target' = target + 1, kind # "pair", kind' = kind,
         Validates(certFile, keyFile), UNCHANGED <<OnDisk, look, unread>>,
         held' = [held EXCEPT ![target + 1] = Opened(certFile)],
         observed' \in {observed, {}}, attempted' \in {attempted, {}},
         kind = "workload" => observed' = observed,
         look.at # "rest" => observed' = observed
  PROVE  MaterialInv'
<1> USE DEF MaterialInv, OnDisk
<1>1. target \in Nat /\ stamp \in Nat /\ target' \in 1..MaxTargets /\ target' > target
  BY MaterialReloadAssumption DEF MaterialTypes
<1>2. certFile \in Usable /\ certFile \in Nat /\ Opened(certFile) \in Nat
      /\ (kind # "workload" => Opened(certFile) = certFile) /\ (kind = "workload" => Opened(certFile) = 0)
  BY MaterialReloadAssumption DEF Validates, Opened, Empty
<1>3. /\ held' \in [1..MaxTargets -> Nat] /\ held'[target'] = Opened(certFile)
      /\ \A t \in 1..target : held'[t] = held[t]
  <2>1. held \in [1..MaxTargets -> Nat]
    BY DEF MaterialTypes
  <2> QED
    BY <1>1, <1>2, <2>1
<1>4. observed' \subseteq observed /\ attempted' \subseteq attempted
  OBVIOUS
<1>5. \A s \in Nat : observed' # {<<target', s>>}
  <2> SUFFICES ASSUME NEW s \in Nat, <<target', s>> \in observed PROVE FALSE
    BY <1>4
  <2>1. <<target', s>>[1] <= target
    BY DEF MemoryDated
  <2> QED
    BY <1>1, <2>1
<1>6. \A d \in attempted' : d[1] # target'
  BY <1>1, <1>4 DEF MemoryDated, MaterialTypes
<1>7. MaterialTypes'
  BY <1>1, <1>3, <1>4 DEF MaterialTypes
<1>8. PassCurrent'
  BY <1>1 DEF PassCurrent
<1>9. MemoryDated'
  BY <1>1, <1>4 DEF MemoryDated, MaterialTypes
<1>10. CompleteKnown'
  BY DEF CompleteKnown
<1>11. KeptUsable'
  BY <1>1, <1>2, <1>3 DEF KeptUsable
<1>12. SetInv'
  BY <1>1, <1>5, <1>6 DEF SetInv
<1>13. WorkloadInv'
  BY <1>1, <1>2, <1>3, <1>5 DEF WorkloadInv, Empty
<1> QED
  BY <1>7, <1>8, <1>9, <1>10, <1>11, <1>12, <1>13

\* A published snapshot brings its own slot, and a listener that goes takes its observation.
LEMMA PublishKeeps == MaterialInv /\ (PublishSnapshot \/ ForgetListener) => MaterialInv'
<1>1. ASSUME MaterialInv, PublishSnapshot PROVE MaterialInv'
  BY <1>1, PublishedSlot DEF PublishSnapshot, Memory
<1>2. ASSUME MaterialInv, ForgetListener PROVE MaterialInv'
  <2>1. kind = "public" /\ look.at = "rest"
    BY <1>2 DEF ForgetListener, Rest
  <2> QED
    BY <1>2, <2>1, PublishedSlot DEF ForgetListener, Opened
<1> QED
  BY <1>1, <1>2

\* A pass begins with the metadata it finds.
LEMMA LookAtKeeps ==
  ASSUME MaterialInv, NEW due \in BOOLEAN, LookAt(due)
  PROVE  MaterialInv'
<1> USE DEF MaterialInv, OnDisk, Snapshots
<1>1. target \in Nat /\ stamp \in Nat /\ target \in 1..target /\ kind' = kind /\ target' = target
      /\ held' = held /\ certFile' = certFile /\ keyFile' = keyFile /\ stamp' = stamp
      /\ complete' = complete /\ attempted' = attempted
  BY DEF LookAt, MaterialTypes
<1>2. look'.at = "cert" /\ look'.slot = target /\ look'.stamp = stamp /\ look' \in Looks
  BY <1>1 DEF LookAt, Rest, Looks
<1>3. <<target, stamp>> \in Nat \X Nat /\ observed' \in {observed, {<<target, stamp>>}}
      /\ (kind \in SetKinds => observed' = {<<target, stamp>>})
      /\ (kind \notin SetKinds => observed' = observed)
  BY <1>1 DEF LookAt
<1>4. MaterialTypes'
  BY <1>1, <1>2, <1>3 DEF MaterialTypes, LookAt
<1>5. PassCurrent'
  BY <1>1, <1>2 DEF PassCurrent
<1>6. MemoryDated'
  BY <1>1, <1>3 DEF MemoryDated
<1>7. KeptUsable' /\ CompleteKnown'
  BY <1>1 DEF KeptUsable, CompleteKnown
<1>8. SetInv'
  BY <1>1, <1>2, <1>3 DEF SetInv
<1>9. WorkloadInv'
  BY <1>1, <1>3 DEF WorkloadInv, SetKinds
<1> QED
  BY <1>4, <1>5, <1>6, <1>7, <1>8, <1>9

\* A pass reads what the files hold.
LEMMA ReadKeeps == MaterialInv /\ (ReadCert \/ ReadKey) => MaterialInv'
<1> SUFFICES ASSUME MaterialInv, ReadCert \/ ReadKey PROVE MaterialInv'
  OBVIOUS
<1> USE DEF MaterialInv, OnDisk, Snapshots, Memory
<1>1. /\ kind' = kind /\ target' = target /\ held' = held /\ certFile' = certFile
      /\ keyFile' = keyFile /\ stamp' = stamp /\ complete' = complete /\ attempted' = attempted
      /\ observed' = observed /\ unread' = unread
  BY DEF ReadCert, ReadKey
<1>2. look \in Looks /\ certFile \in Nat /\ keyFile \in Nat
  BY MaterialReloadAssumption DEF MaterialTypes, Versions
<1>3. /\ look' \in Looks /\ look'.slot = look.slot /\ look'.stamp = look.stamp
      /\ look.at # "rest" /\ look'.at \in {"key", "judge"}
      /\ look'.at = "key" => look'.cert = certFile
      /\ look'.at = "judge" => look.at = "key" /\ look'.cert = look.cert /\ look'.key = keyFile
  BY <1>2 DEF ReadCert, ReadKey, Looks
<1>4. MaterialTypes' /\ PassCurrent'
  BY <1>1, <1>3 DEF MaterialTypes, PassCurrent
<1>5. MemoryDated' /\ KeptUsable' /\ CompleteKnown'
  BY <1>1 DEF MemoryDated, KeptUsable, CompleteKnown
<1>6. SetInv'
  BY <1>1, <1>3 DEF SetInv
<1>7. WorkloadInv'
  BY <1>1 DEF WorkloadInv
<1> QED
  BY <1>4, <1>5, <1>6, <1>7

\* What a slot gets at the end of a pass.
LEMMA SlotWritten ==
  ASSUME MaterialInv, look.at # "rest", NEW x \in Nat,
         held' = [held EXCEPT ![look.slot] = x]
  PROVE  /\ held' \in [1..MaxTargets -> Nat] /\ held'[look.slot] = x
         /\ \A t \in 1..MaxTargets \ {look.slot} : held'[t] = held[t]
<1>1. look.slot \in 1..MaxTargets /\ held \in [1..MaxTargets -> Nat]
  BY MaterialReloadAssumption DEF MaterialInv, PassCurrent, MaterialTypes
<1> QED
  BY <1>1

\* The end of a pass, whoever judges: the rest of the state is as it was.
Passed ==
  /\ look.at # "rest" /\ look' = Rest
  /\ UNCHANGED <<kind, target, OnDisk>>
  /\ held' \in [1..MaxTargets -> Nat] /\ \A t \in 1..MaxTargets \ {look.slot} : held'[t] = held[t]
  /\ unread' \in BOOLEAN /\ observed' \subseteq observed \cup {<<look.slot, look.stamp>>}
  /\ \A d \in attempted' : d \in Nat \X Nat \X Nat /\ d[1] <= target

\* A pass that ends leaves types, dates and completeness as they should be.
LEMMA PassedKeeps ==
  ASSUME MaterialInv, Passed
  PROVE  MaterialTypes' /\ PassCurrent' /\ MemoryDated' /\ CompleteKnown'
<1> USE DEF MaterialInv, OnDisk
<1>1. look'.at = "rest" /\ look' = Rest /\ look' \in Looks
  BY DEF Passed, Rest, Looks
<1>2. look.slot \in Nat /\ look.stamp \in Nat /\ look.slot <= target /\ look.stamp <= stamp
  BY DEF Passed, PassCurrent, MaterialTypes, Looks
<1>3. <<look.slot, look.stamp>> \in Nat \X Nat
  BY <1>2
<1>4. MaterialTypes'
  BY <1>1, <1>3 DEF MaterialTypes, Passed
<1>5. PassCurrent'
  BY <1>1 DEF PassCurrent, Passed
<1>6. MemoryDated'
  BY <1>2 DEF MemoryDated, Passed
<1>7. CompleteKnown'
  BY DEF CompleteKnown, Passed
<1> QED
  BY <1>4, <1>5, <1>6, <1>7

\* Material that cannot be had is withdrawn from the current slot, and only
\* there; what was observed of it goes with it.
LEMMA WithdrawalKeeps ==
  ASSUME MaterialInv, kind = "workload", look.at # "rest", look' = Rest, CloseSlot,
         UNCHANGED <<kind, target, OnDisk, attempted>>, unread' \in BOOLEAN
  PROVE  MaterialInv'
<1> USE DEF MaterialInv, OnDisk
<1>1. look.slot \in 1..target /\ target \in 1..MaxTargets /\ held \in [1..MaxTargets -> Nat]
      /\ attempted \subseteq Nat \X Nat \X Nat
  BY DEF PassCurrent, MaterialTypes
<1>2. CASE look.slot = target
  <2>1. held' = [held EXCEPT ![look.slot] = 0] /\ observed' = {}
    BY <1>2 DEF CloseSlot, Empty
  <2>2. /\ held' \in [1..MaxTargets -> Nat] /\ held'[look.slot] = 0
        /\ \A t \in 1..MaxTargets \ {look.slot} : held'[t] = held[t]
    BY <2>1, SlotWritten
  <2>3. Passed
    BY <1>1, <2>1, <2>2 DEF Passed, MemoryDated
  <2>4. WorkloadInv'
    BY <1>2, <2>1, <2>2 DEF WorkloadInv, Empty
  <2> QED
    BY <2>3, <2>4, PassedKeeps DEF KeptUsable, SetInv, SetKinds
<1>3. CASE look.slot # target
  <2>1. held' = held /\ observed' = observed
    BY <1>3 DEF CloseSlot
  <2>2. Passed
    BY <1>1, <2>1 DEF Passed, MemoryDated
  <2>3. WorkloadInv'
    BY <2>1 DEF WorkloadInv
  <2> QED
    BY <2>2, <2>3, PassedKeeps DEF KeptUsable, SetInv, SetKinds
<1> QED
  BY <1>2, <1>3

\* A read that fails leaves the others with what they have.
LEMMA ReadFailsKeeps == MaterialInv /\ ReadFails => MaterialInv'
<1> SUFFICES ASSUME MaterialInv, ReadFails PROVE MaterialInv'
  OBVIOUS
<1> USE DEF MaterialInv, OnDisk
<1>1. look.at # "rest" /\ look' = Rest /\ unread' = TRUE
  BY DEF ReadFails
<1>2. CASE kind = "workload"
  BY <1>1, <1>2, WithdrawalKeeps DEF ReadFails
<1>3. CASE kind # "workload"
  <2>1. held' = held /\ observed' = observed /\ attempted' = attempted /\ kind' = kind
        /\ target' = target /\ complete' = complete
    BY <1>3 DEF ReadFails
  <2>2. held \in [1..MaxTargets -> Nat] /\ attempted \subseteq Nat \X Nat \X Nat
    BY DEF MaterialTypes
  <2>3. Passed
    BY <1>1, <2>1, <2>2 DEF Passed, MemoryDated, ReadFails
  <2>4. look'.at = "rest"
    BY <1>1 DEF Rest
  <2>5. SetInv'
    BY <1>1, <2>1, <2>4 DEF SetInv
  <2> QED
    BY <1>3, <2>1, <2>3, <2>5, PassedKeeps DEF KeptUsable, WorkloadInv
<1> QED
  BY <1>2, <1>3

\* The digest of a pass is of its slot.
LEMMA DigestTyped ==
  ASSUME MaterialInv, look.at # "rest"
  PROVE  /\ <<look.slot, look.cert, look.key>> \in Nat \X Nat \X Nat
         /\ look.slot \in 1..target /\ look.slot \in 1..MaxTargets
         /\ look.slot \in Nat /\ look.cert \in Nat /\ look.key \in Nat
         /\ target \in Nat /\ held \in [1..MaxTargets -> Nat]
<1>1. look.slot \in Nat /\ look.cert \in Nat /\ look.key \in Nat
  BY DEF MaterialInv, MaterialTypes, Looks
<1> QED
  BY <1>1, MaterialReloadAssumption DEF MaterialInv, PassCurrent, MaterialTypes

\* The pair is replaced only by another that validates.
LEMMA JudgePairKeeps == MaterialInv /\ JudgePair => MaterialInv'
<1> SUFFICES ASSUME MaterialInv, JudgePair PROVE MaterialInv'
  OBVIOUS
<1> USE DEF MaterialInv, OnDisk
<1>1. look.at # "rest" /\ look' = Rest /\ unread' = FALSE /\ kind = "pair" /\ kind' = kind
      /\ target' = target /\ observed' = observed
  BY DEF JudgePair
<1>2. PICK g : g = <<look.slot, look.cert, look.key>>
  OBVIOUS
<1>3. g \in Nat \X Nat \X Nat /\ g[1] <= target
  BY <1>1, <1>2, DigestTyped
<1>4. PICK h : h = <<look.slot, held[look.slot], held[look.slot]>>
  OBVIOUS
<1>5. h \in Nat \X Nat \X Nat /\ h[1] <= target
  BY <1>1, <1>4, DigestTyped
<1>6. \/ held' = held
      \/ held' = [held EXCEPT ![look.slot] = look.cert] /\ look.cert \in Usable
  BY DEF JudgePair, Installed, Validates
<1>7. attempted' \subseteq attempted \cup {g, h}
  BY <1>2, <1>4 DEF JudgePair
<1>8. /\ held' \in [1..MaxTargets -> Nat]
      /\ \A t \in 1..MaxTargets \ {look.slot} : held'[t] = held[t]
      /\ held'[look.slot] \in {held[look.slot]} \cup Usable
  BY <1>1, <1>6, DigestTyped, SlotWritten
<1>9. Passed
  <2>1. attempted \subseteq Nat \X Nat \X Nat /\ \A d \in attempted : d[1] <= target
    BY DEF MaterialTypes, MemoryDated
  <2> QED
    BY <1>1, <1>3, <1>5, <1>7, <1>8, <2>1 DEF Passed, JudgePair
<1>10. KeptUsable'
  BY <1>1, <1>8, DigestTyped DEF KeptUsable, MaterialTypes
<1> QED
  BY <1>1, <1>9, <1>10, PassedKeeps DEF SetInv, SetKinds, WorkloadInv

\* A set that was observed, read and judged is installed if it validates.
LEMMA JudgeSetKeeps == MaterialInv /\ (JudgeSet \/ JudgePublic) => MaterialInv'
<1> SUFFICES ASSUME MaterialInv, JudgeSet \/ JudgePublic PROVE MaterialInv'
  OBVIOUS
<1> USE DEF MaterialInv, OnDisk
<1>1. look.at = "judge" /\ look' = Rest /\ unread' = unread /\ kind \in SetKinds /\ kind' = kind
      /\ target' = target /\ observed' = observed /\ stamp' = stamp /\ certFile' = certFile
      /\ keyFile' = keyFile /\ complete' = complete
  BY DEF JudgeSet, JudgePublic, SetKinds
<1>2. PICK g : g = <<look.slot, look.cert, look.key>>
  OBVIOUS
<1>3. g \in Nat \X Nat \X Nat /\ g[1] = look.slot /\ g[2] = look.cert /\ g[3] = look.key
  BY <1>1, <1>2, DigestTyped
<1>4. attempted' = {g}
  BY <1>2 DEF JudgeSet, JudgePublic
<1>5. IF g \notin attempted /\ Validates(look.cert, look.key) /\ look.slot = target
      THEN held' = [held EXCEPT ![look.slot] = look.cert] ELSE held' = held
  BY <1>2 DEF JudgeSet, JudgePublic, Installed
<1>6. /\ held' \in [1..MaxTargets -> Nat]
      /\ \A t \in 1..MaxTargets \ {look.slot} : held'[t] = held[t]
      /\ held'[look.slot] \in {held[look.slot]} \cup Usable
  BY <1>1, <1>5, DigestTyped, SlotWritten DEF Validates
<1>7. Passed
  BY <1>1, <1>3, <1>4, <1>6, DigestTyped DEF Passed, MaterialTypes, JudgeSet, JudgePublic
<1>8. KeptUsable'
  <2> SUFFICES ASSUME NEW t \in 1..target PROVE held'[t] \in Usable
    BY <1>1 DEF KeptUsable
  <2>1. held[t] \in Usable /\ held[look.slot] \in Usable /\ t \in 1..MaxTargets
    <3>1. kind # "workload" /\ look.slot \in 1..target
      BY <1>1, DigestTyped DEF SetKinds
    <3>2. target \in 1..MaxTargets /\ MaxTargets \in Nat
      BY MaterialReloadAssumption DEF MaterialTypes
    <3> QED
      BY <3>1, <3>2 DEF KeptUsable
  <2> QED
    BY <1>6, <2>1
<1>9. look.slot = target /\ Validates(look.cert, look.key) => held'[target] = look.cert
  <2> SUFFICES ASSUME look.slot = target, Validates(look.cert, look.key)
               PROVE  held'[target] = look.cert
    OBVIOUS
  <2>1. CASE g \in attempted
    BY <1>1, <1>3, <1>5, <2>1 DEF SetInv
  <2>2. CASE g \notin attempted
    BY <1>1, <1>5, <2>2, DigestTyped, SlotWritten
  <2> QED
    BY <2>1, <2>2
<1>10. SetInv'
  <2>1. \A d \in attempted' : d[1] = target /\ Validates(d[2], d[3]) => held'[target] = d[2]
    BY <1>3, <1>4, <1>9
  <2>2. observed = {<<target, stamp>>} => g = <<target, certFile, keyFile>>
    <3> SUFFICES ASSUME observed = {<<target, stamp>>} PROVE g = <<target, certFile, keyFile>>
      OBVIOUS
    <3>1. <<look.slot, look.stamp>> = <<target, stamp>>
      BY <1>1 DEF SetInv
    <3>2. look.slot = target /\ look.stamp = stamp
      BY <3>1
    <3> QED
      BY <1>1, <1>2, <3>2 DEF PassCurrent
  <2>3. look'.at = "rest"
    BY <1>1 DEF Rest
  <2> QED
    BY <1>1, <1>4, <2>1, <2>2, <2>3 DEF SetInv
<1> QED
  BY <1>1, <1>7, <1>8, <1>10, PassedKeeps DEF SetKinds, WorkloadInv

\* Workload material is installed only when the files still are what was read.
LEMMA JudgeWorkloadKeeps == MaterialInv /\ JudgeWorkload => MaterialInv'
<1> SUFFICES ASSUME MaterialInv, JudgeWorkload PROVE MaterialInv'
  OBVIOUS
<1> USE DEF MaterialInv, OnDisk
<1>1. look.at = "judge" /\ look.at # "rest" /\ look' = Rest /\ unread' = unread /\ kind = "workload"
      /\ kind' = kind /\ target' = target /\ attempted' = attempted /\ stamp' = stamp
      /\ certFile' = certFile /\ keyFile' = keyFile /\ complete' = complete
      /\ unread \in BOOLEAN /\ attempted \subseteq Nat \X Nat \X Nat
  BY DEF JudgeWorkload, MaterialTypes
<1>2. CASE ~(Validates(look.cert, look.key) /\ Stable)
  BY <1>1, <1>2, WithdrawalKeeps DEF JudgeWorkload
<1>3. CASE Validates(look.cert, look.key) /\ Stable /\ look.slot # target
  <2>1. held' = held /\ observed' = observed
    BY <1>3 DEF JudgeWorkload
  <2>2. Passed
    BY <1>1, <2>1, DigestTyped DEF Passed, MemoryDated
  <2> QED
    BY <1>1, <2>1, <2>2, PassedKeeps DEF KeptUsable, SetInv, SetKinds, WorkloadInv
<1>4. CASE Validates(look.cert, look.key) /\ Stable /\ look.slot = target
  <2>1. look.cert = certFile /\ look.key = keyFile /\ Validates(certFile, keyFile) /\ look.stamp = stamp
    BY <1>1, <1>4 DEF PassCurrent, Stable
  <2>2. certFile \in complete
    BY <2>1 DEF Validates, CompleteKnown
  <2>3. observed' = {<<target, stamp>>}
    BY <1>4, <2>1 DEF JudgeWorkload
  <2>4. (held' = held /\ held[look.slot] = look.cert) \/ held' = [held EXCEPT ![look.slot] = look.cert]
    BY <1>4 DEF JudgeWorkload, Installed
  <2>5. /\ held' \in [1..MaxTargets -> Nat] /\ held'[look.slot] = look.cert
        /\ \A t \in 1..MaxTargets \ {look.slot} : held'[t] = held[t]
    BY <1>1, <2>4, DigestTyped, SlotWritten
  <2>6. Passed
    BY <1>1, <1>4, <2>1, <2>3, <2>5, DigestTyped DEF Passed, MemoryDated
  <2>7. WorkloadInv'
    BY <1>1, <1>4, <2>1, <2>2, <2>3, <2>5 DEF WorkloadInv
  <2> QED
    BY <1>1, <2>6, <2>7, PassedKeeps DEF KeptUsable, SetInv, SetKinds
<1> QED
  BY <1>2, <1>3, <1>4

\* A connection changes nothing of the material.
LEMMA ConnectionKeeps ==
  ASSUME MaterialInv, UNCHANGED <<Snapshots, OnDisk, look, Memory, unread>>
  PROVE  MaterialInv'
BY DEF Snapshots, OnDisk, Memory, MaterialInv, MaterialTypes, PassCurrent, MemoryDated,
       CompleteKnown, KeptUsable, SetInv, WorkloadInv

\* Every step of the writer, the watcher and the connections keeps the invariant.
LEMMA MaterialInductive == MaterialInv /\ [MaterialNext]_materialVars => MaterialInv'
<1> SUFFICES ASSUME MaterialInv, [MaterialNext]_materialVars PROVE MaterialInv'
  OBVIOUS
<1>1. CASE Handshake \/ Authorize \/ CheckIo \/ CloseConnection
  BY <1>1, ConnectionKeeps DEF Handshake, Authorize, CheckIo, CloseConnection
<1>2. CASE UNCHANGED materialVars
  BY <1>2, ConnectionKeeps DEF materialVars, Snapshots, OnDisk, Memory
<1> QED
  BY <1>1, <1>2, WriteFileKeeps, PublishKeeps, LookAtKeeps, ReadKeeps, ReadFailsKeeps, JudgePairKeeps,
     JudgeSetKeeps, JudgeWorkloadKeeps DEF MaterialNext

\* Evidence counts only for a workload's slot that is open.
EvidenceInv ==
  /\ conn \in [at : {"none", "handshake", "open", "checked", "revoked"}, same : BOOLEAN]
  /\ conn.same => kind = "workload" /\ held[target] # Empty

\* Whatever a pass or a publication does to the slot, it takes the evidence with it.
LEMMA EvidenceInductive ==
  ASSUME EvidenceInv, [MaterialNext]_materialVars
  PROVE  EvidenceInv'
<1> USE DEF EvidenceInv
<1>1. CASE Handshake \/ Authorize \/ CheckIo \/ CloseConnection
  <2>1. kind' = kind /\ held' = held /\ target' = target
    BY <1>1 DEF Handshake, Authorize, CheckIo, CloseConnection, Snapshots
  <2>2. CASE Handshake
    BY <2>1, <2>2 DEF Handshake
  <2>3. CASE Authorize
    BY <2>1, <2>3 DEF Authorize, NoConnection
  <2>4. CASE CheckIo
    BY <2>1, <2>4 DEF CheckIo
  <2>5. CASE CloseConnection
    BY <2>1, <2>5 DEF CloseConnection, NoConnection
  <2> QED
    BY <1>1, <2>2, <2>3, <2>4, <2>5
<1>2. CASE PublishSnapshot \/ ForgetListener
  BY <1>2 DEF PublishSnapshot, ForgetListener, Stale
<1>3. CASE ReadFails
  BY <1>3 DEF ReadFails, CloseSlot, Stale
<1>4. CASE JudgePair \/ JudgeSet \/ JudgePublic
  BY <1>4 DEF JudgePair, JudgeSet, JudgePublic, Installed, Stale
<1>5. CASE JudgeWorkload
  BY <1>5 DEF JudgeWorkload, CloseSlot, Installed, Stale
<1>6. ASSUME UNCHANGED <<Snapshots, conn>> PROVE EvidenceInv'
  BY <1>6 DEF Snapshots
<1>7. CASE ReadCert \/ ReadKey
  BY <1>6, <1>7 DEF ReadCert, ReadKey
<1>8. ASSUME NEW due \in BOOLEAN, LookAt(due) PROVE EvidenceInv'
  BY <1>6, <1>8 DEF LookAt
<1>9. ASSUME NEW file \in {"cert", "key"}, NEW v \in Versions, WriteFile(file, v)
      PROVE  EvidenceInv'
  BY <1>6, <1>9 DEF WriteFile
<1>10. CASE UNCHANGED materialVars
  BY <1>6, <1>10 DEF materialVars, Snapshots
<1> HIDE DEF EvidenceInv
<1> QED
  BY <1>1, <1>2, <1>3, <1>4, <1>5, <1>7, <1>8, <1>9, <1>10 DEF MaterialNext

\* The invariants imply what the watchers promise.
LEMMA MaterialFollows == MaterialInv /\ EvidenceInv => MaterialSound
<1> SUFFICES ASSUME MaterialInv, EvidenceInv PROVE MaterialSound
  OBVIOUS
<1>1. target \in 1..target /\ (look = Rest => look.at = "rest")
  BY DEF MaterialInv, MaterialTypes, Rest
<1>2. (kind \in SetKinds /\ look = Rest /\ observed = {<<target, stamp>>} /\ ~unread
         /\ Validates(certFile, keyFile)) => held[target] = certFile
  <2> SUFFICES ASSUME kind \in SetKinds, look = Rest, observed = {<<target, stamp>>}, ~unread,
                      Validates(certFile, keyFile)
               PROVE  held[target] = certFile
    OBVIOUS
  <2>1. <<target, certFile, keyFile>> \in attempted
    BY <1>1 DEF MaterialInv, SetInv
  <2> QED
    BY <2>1 DEF MaterialInv, SetInv
<1> QED
  BY <1>1, <1>2 DEF MaterialInv, KeptUsable, WorkloadInv, MaterialSound, EvidenceInv,
     EvidenceCurrent

\* Theorem.  Whatever the owner of the files writes, and in which order, and
\* whatever is published meanwhile (tls.rs watch, certificates.rs watch and
\* watch_public, Slot::refresh_many): an observation that still stands has been
\* installed if it is usable, a failed reload never costs a slot its material,
\* and workload material was complete on disk, is withdrawn when it cannot be
\* verified, and takes its connections' evidence with it.
THEOREM MaterialSoundAlways == MaterialSpec => []MaterialSound
<1>1. MaterialSpec => []MaterialInv
  BY MaterialStarts, MaterialInductive, PTL DEF MaterialSpec
<1>2. MaterialInit => EvidenceInv
  BY DEF MaterialInit, EvidenceInv, NoConnection
<1>3. MaterialSpec => []EvidenceInv
  BY <1>2, EvidenceInductive, PTL DEF MaterialSpec
<1> QED
  BY <1>1, <1>3, MaterialFollows, PTL

\* A database has an epoch; the slot and a query hold at most one.
Databases == [epoch : Nat, latched : BOOLEAN]
Loads == [epoch : Nat, latched : BOOLEAN, loaded : BOOLEAN]
AtMostOne(S) == \A x, y \in S : x = y

GeoTypes ==
  /\ clock \in Nat /\ floor \in Nat /\ lapsed \subseteq Nat /\ geoFile \subseteq Nat
  /\ geoSlot \subseteq Databases /\ AtMostOne(geoSlot)
  /\ geoQuery \subseteq Databases /\ AtMostOne(geoQuery)
  /\ geoLoad \subseteq Loads

\* Every epoch that was found stale lies below the floor.
FloorAbove == \A e \in lapsed : e < floor

GeoInv == GeoTypes /\ FloorAbove

\* Nothing is loaded at first.
LEMMA GeoStarts == GeoInit => GeoInv
BY DEF GeoInit, GeoInv, GeoTypes, FloorAbove, AtMostOne

\* A check poisons the epoch of what it finds stale, and lowers no floor.
LEMMA PoisonAbove ==
  ASSUME GeoInv, NEW db \in Databases
  PROVE  /\ Poisoned(db) \in Nat /\ Poisoned(db) >= floor
         /\ ~FreshNow(db) => db.epoch < Poisoned(db)
<1>1. db.epoch \in Nat /\ floor \in Nat
  BY DEF Databases, GeoInv, GeoTypes
<1> QED
  BY <1>1 DEF Poisoned, MaxOf

\* Checking one database against the floor.
LEMMA CheckKeeps ==
  ASSUME GeoInv, NEW db \in Databases, floor' = Poisoned(db),
         lapsed' = IF FreshNow(db) THEN lapsed ELSE lapsed \cup {db.epoch}
  PROVE  floor' \in Nat /\ lapsed' \subseteq Nat /\ FloorAbove'
<1>1. db.epoch \in Nat /\ floor \in Nat /\ lapsed \subseteq Nat /\ \A e \in lapsed : e < floor
  BY DEF Databases, GeoInv, GeoTypes, FloorAbove
<1>2. floor' \in Nat /\ floor' >= floor /\ (~FreshNow(db) => db.epoch < floor')
  BY PoisonAbove
<1>3. \A e \in lapsed : e \in Nat /\ e < floor'
  BY <1>1, <1>2
<1> QED
  BY <1>1, <1>2, <1>3 DEF FloorAbove

\* A lookup answers from an admissible database or latches a stale one.
LEMMA GeoAnswerKeeps == GeoInv /\ GeoAnswer => GeoInv'
<1> SUFFICES ASSUME GeoInv, GeoAnswer PROVE GeoInv'
  OBVIOUS
<1>1. PICK db : db = CHOOSE d \in geoQuery : TRUE
  OBVIOUS
<1>2. db \in geoQuery /\ db \in Databases
  BY <1>1 DEF GeoAnswer, GeoInv, GeoTypes
<1>3. /\ floor' = Poisoned(db)
      /\ lapsed' = IF FreshNow(db) THEN lapsed ELSE lapsed \cup {db.epoch}
      /\ geoQuery' = {} /\ clock' = clock /\ geoFile' = geoFile /\ geoLoad' = geoLoad
  BY <1>1 DEF GeoAnswer
<1>4. geoSlot' = geoSlot \/ geoSlot' = Latched(geoSlot)
  BY DEF GeoAnswer
<1>5. Latched(geoSlot) \subseteq Databases /\ AtMostOne(Latched(geoSlot))
  <2>1. \A d \in geoSlot : [d EXCEPT !.latched = ~FreshNow(d)] \in Databases
    <3> SUFFICES ASSUME NEW d \in geoSlot PROVE [d EXCEPT !.latched = ~FreshNow(d)] \in Databases
      OBVIOUS
    <3>1. d \in Databases /\ (~FreshNow(d)) \in BOOLEAN
      BY DEF GeoInv, GeoTypes
    <3> HIDE DEF FreshNow
    <3> QED
      BY <3>1 DEF Databases
  <2> QED
    BY <2>1 DEF Latched, AtMostOne, GeoInv, GeoTypes
<1>6. floor' \in Nat /\ lapsed' \subseteq Nat /\ FloorAbove'
  BY <1>2, <1>3, CheckKeeps
<1> QED
  BY <1>3, <1>4, <1>5, <1>6 DEF GeoInv, GeoTypes, AtMostOne

\* The file cannot be read: the slot closes after a look at what it held.
LEMMA GeoUnavailableKeeps == GeoInv /\ GeoUnavailable => GeoInv'
<1> SUFFICES ASSUME GeoInv, GeoUnavailable PROVE GeoInv'
  OBVIOUS
<1>1. PICK db : db = CHOOSE d \in geoSlot : TRUE
  OBVIOUS
<1>2. db \in Databases
  BY <1>1 DEF GeoUnavailable, GeoInv, GeoTypes
<1>3. /\ floor' = Poisoned(db)
      /\ lapsed' = IF FreshNow(db) THEN lapsed ELSE lapsed \cup {db.epoch}
      /\ geoSlot' = {} /\ geoQuery' = geoQuery /\ clock' = clock /\ geoFile' = geoFile
      /\ geoLoad' = geoLoad
  BY <1>1 DEF GeoUnavailable
<1>4. floor' \in Nat /\ lapsed' \subseteq Nat /\ FloorAbove'
  BY <1>2, <1>3, CheckKeeps
<1> QED
  BY <1>3, <1>4 DEF GeoInv, GeoTypes, AtMostOne

\* Of at most two databases one is the later.
LEMMA LatestOfTwo ==
  ASSUME NEW A, NEW n \in Nat, A \subseteq Nat, A # {}, \A x, y \in A \ {n} : x = y
  PROVE  \E e \in A : \A x \in A : x <= e
<1>1. CASE A \ {n} = {}
  <2>1. n \in A /\ \A x \in A : x = n
    BY <1>1
  <2> QED
    BY <2>1
<1>2. CASE A \ {n} # {}
  <2>1. PICK m \in A : m # n
    BY <1>2
  <2>2. \A x \in A : x = n \/ x = m
    BY <2>1
  <2>3. m \in Nat
    BY <2>1
  <2> QED
    BY <2>1, <2>2, <2>3
<1> QED
  BY <1>1, <1>2

\* A loaded database is published only above the floor.
LEMMA GeoPublishKeeps == GeoInv /\ GeoPublish => GeoInv'
<1> SUFFICES ASSUME GeoInv, GeoPublish PROVE GeoInv'
  OBVIOUS
<1>1. PICK db : db = CHOOSE d \in geoLoad : TRUE
  OBVIOUS
<1>2. db \in Loads /\ db.epoch \in Nat
  BY <1>1 DEF GeoPublish, GeoInv, GeoTypes, Loads
<1>3. PICK new : new = [epoch |-> db.epoch, latched |-> FALSE]
  OBVIOUS
<1>4. new \in Databases /\ new.epoch = db.epoch
  BY <1>2, <1>3 DEF Databases
<1>5. PICK stale : stale = {d \in geoSlot : ~FreshNow(d)}
  OBVIOUS
<1>6. PICK late : late = {d \in stale \cup {d \in {new} : db.loaded} : ~FreshNow(d)}
  OBVIOUS
<1>7. PICK top : top = CHOOSE e \in {d.epoch : d \in late} : \A d \in late : d.epoch <= e
  OBVIOUS
<1>8. PICK poison : poison = IF late = {} THEN floor ELSE MaxOf(floor, 1 + top)
  OBVIOUS
<1>9. /\ geoLoad' = {} /\ clock' = clock /\ geoFile' = geoFile /\ geoQuery' = geoQuery
      /\ IF ~watching THEN UNCHANGED <<geoSlot, floor, lapsed>>
         ELSE /\ floor' = poison /\ lapsed' = lapsed \cup {d.epoch : d \in stale}
              /\ geoSlot' = IF ~db.loaded \/ ~FreshNow(new) \/ new.epoch < poison THEN {}
                            ELSE IF geoSlot = {new} THEN geoSlot ELSE {new}
  BY <1>1, <1>3, <1>5, <1>6, <1>7, <1>8 DEF GeoPublish
<1>10. /\ late \subseteq Databases /\ stale \subseteq late
       /\ \A d \in late : d = new \/ d \in geoSlot
  BY <1>4, <1>5, <1>6 DEF GeoInv, GeoTypes
<1>11. floor \in Nat /\ lapsed \subseteq Nat /\ AtMostOne(geoSlot) /\ geoSlot \subseteq Databases
  BY DEF GeoInv, GeoTypes
<1>12. late # {} => top \in Nat /\ \A d \in late : d.epoch <= top
  <2> SUFFICES ASSUME late # {} PROVE top \in Nat /\ \A d \in late : d.epoch <= top
    OBVIOUS
  <2>1. PICK E : E = {d.epoch : d \in late}
    OBVIOUS
  <2>2. E \subseteq Nat /\ E # {}
    BY <1>10, <2>1 DEF Databases
  <2>3. \A x, y \in E \ {new.epoch} : x = y
    BY <1>10, <1>11, <2>1 DEF AtMostOne
  <2>4. \E e \in E : \A x \in E : x <= e
    BY <1>2, <1>4, <2>2, <2>3, LatestOfTwo
  <2>5. \E e \in {d.epoch : d \in late} : \A d \in late : d.epoch <= e
    BY <2>1, <2>4
  <2> QED
    BY <1>7, <2>1, <2>2, <2>5
<1>13. poison \in Nat /\ poison >= floor /\ \A d \in late : d.epoch < poison
  <2>1. \A d \in late : d.epoch \in Nat
    BY <1>10 DEF Databases
  <2> QED
    BY <1>8, <1>11, <1>12, <2>1 DEF MaxOf
<1>14. geoSlot' \subseteq Databases /\ AtMostOne(geoSlot')
  BY <1>4, <1>9, <1>11 DEF AtMostOne
<1>15. floor' \in Nat /\ lapsed' \subseteq Nat /\ FloorAbove'
  <2>1. CASE ~watching
    BY <1>9, <1>11, <2>1 DEF GeoInv, FloorAbove
  <2>2. CASE watching
    <3>1. floor' = poison /\ lapsed' = lapsed \cup {d.epoch : d \in stale}
      BY <1>9, <2>2
    <3>2. \A d \in stale : d.epoch \in Nat /\ d.epoch < poison
      BY <1>10, <1>13 DEF Databases
    <3>3. \A e \in lapsed : e < poison
      BY <1>11, <1>13 DEF GeoInv, FloorAbove
    <3> QED
      BY <1>11, <1>13, <3>1, <3>2, <3>3 DEF FloorAbove
  <2> QED
    BY <2>1, <2>2
<1> QED
  BY <1>9, <1>14, <1>15 DEF GeoInv, GeoTypes, AtMostOne

\* A load takes the epoch the file has, if it is not too old by now.
LEMMA GeoReadKeeps == GeoInv /\ GeoRead => GeoInv'
<1> SUFFICES ASSUME GeoInv, GeoRead PROVE GeoInv'
  OBVIOUS
<1>1. PICK e : e = CHOOSE x \in geoFile : TRUE
  OBVIOUS
<1>2. e \in Nat
  BY <1>1 DEF GeoRead, GeoInv, GeoTypes
<1>3. geoLoad' = {[epoch |-> e, latched |-> FALSE, loaded |-> FreshNow([epoch |-> e, latched |-> FALSE])]}
  BY <1>1 DEF GeoRead
<1>4. FreshNow([epoch |-> e, latched |-> FALSE]) \in BOOLEAN
  BY DEF FreshNow
<1>5. geoLoad' \subseteq Loads
  BY <1>2, <1>3, <1>4 DEF Loads
<1> QED
  BY <1>5 DEF GeoRead, GeoInv, GeoTypes, FloorAbove, AtMostOne

\* Every step of the clock, the file, the loader and the lookups keeps the floor.
LEMMA GeoInductive == GeoInv /\ [GeoNext]_geoVars => GeoInv'
<1> SUFFICES ASSUME GeoInv, [GeoNext]_geoVars PROVE GeoInv'
  OBVIOUS
<1>1. CASE GeoQuery
  BY <1>1 DEF GeoQuery, GeoInv, GeoTypes, FloorAbove, AtMostOne
<1>2. CASE GeoRetire
  BY <1>2 DEF GeoRetire, GeoInv, GeoTypes, FloorAbove, AtMostOne
<1>3. ASSUME NEW t \in Epochs, SetClock(t) PROVE GeoInv'
  <2>1. clock' \in Nat
    BY <1>3, MaterialReloadAssumption DEF SetClock, Epochs
  <2> QED
    BY <1>3, <2>1 DEF SetClock, GeoInv, GeoTypes, FloorAbove, AtMostOne
<1>4. ASSUME NEW content \in {{}} \cup {{e} : e \in Epochs}, ReplaceDatabase(content) PROVE GeoInv'
  <2>1. content \subseteq Nat
    BY MaterialReloadAssumption DEF Epochs
  <2> QED
    BY <1>4, <2>1 DEF ReplaceDatabase, GeoInv, GeoTypes, FloorAbove, AtMostOne
<1>5. CASE UNCHANGED geoVars
  BY <1>5 DEF geoVars, GeoInv, GeoTypes, FloorAbove, AtMostOne
<1> QED
  BY <1>1, <1>2, <1>3, <1>4, <1>5, GeoAnswerKeeps, GeoUnavailableKeeps, GeoPublishKeeps, GeoReadKeeps
     DEF GeoNext

\* Theorem.  A country database that was found stale while it was admitted is
\* never admitted again, whatever the clock is set to and in whatever order
\* loads, requests and replacements of the file end (Slot::freshness_checked,
\* publish and the epoch floor in geoip_runtime.rs).
THEOREM GeoSoundAlways == GeoSpec => []GeoSound
<1>1. GeoSpec => []GeoInv
  BY GeoStarts, GeoInductive, PTL DEF GeoSpec
<1>2. GeoInv => GeoSound
  <2> SUFFICES ASSUME GeoInv, NEW db \in geoSlot, Admissible(db), NEW e \in lapsed
               PROVE  db.epoch > e
    BY DEF GeoSound
  <2>1. db.epoch \in Nat /\ e \in Nat /\ floor \in Nat /\ e < floor /\ db.epoch >= floor
    BY DEF GeoInv, GeoTypes, FloorAbove, Databases, Admissible
  <2> QED
    BY <2>1
<1> QED
  BY <1>1, <1>2, PTL

\* Certificate material and the country database share no state: together they are
\* what a process serves from files (tls.rs, workload_material.rs, geoip.rs).
THEOREM MaterialCoherentAlways == MaterialSpec /\ GeoSpec => []MaterialCoherent
<1>1. MaterialSound /\ GeoSound => MaterialCoherent
  BY DEF MaterialCoherent
<1> QED
  BY <1>1, MaterialSoundAlways, GeoSoundAlways, PTL
=============================================================================
