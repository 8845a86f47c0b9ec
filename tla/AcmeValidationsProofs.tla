----------------------- MODULE AcmeValidationsProofs ------------------------
(***************************************************************************)
(* How the gateway proves control of a name, for any number of              *)
(* installations, removals, orders and faults: a token is answered while it *)
(* is installed and gone once it is removed (ChallengesSound), and every    *)
(* record in a zone has somebody to remove it (OrdersAccounted).            *)
(***************************************************************************)
EXTENDS AcmeValidations, FiniteSetTheorems, SequenceTheorems, TLAPS

-----------------------------------------------------------------------------
(* HTTP-01: one token *)

\* Who may wait for the token's lock, and who the holder can be.
Parties == Owners \cup Removers
InsertSteps == {"installed", "waiting", "publishing", "kept", "refresh due", "refreshing",
                "withdrawing", "ended"}
RemovalSteps == {"none", "removed", "waiting", "withdrawing"}

ChallengeTypes ==
  /\ inserts \in Seq([at : InsertSteps, attempts : Nat]) /\ Issued <= Installs
  /\ removal \in [Removers -> RemovalSteps]
  /\ turns \in Seq(Parties \cup {Background})
  /\ entry \in 0..Issued /\ record \in 0..Issued /\ flight \in NoneInFlight..Issued
  /\ given \subseteq 0..Issued /\ cancelled \subseteq 1..Issued /\ insertedOk \subseteq 1..Issued

\* A caller that has gone leaves its place at the head of the queue only.
BackgroundAhead == \A k \in 2..Len(turns) : turns[k] # Background

\* p has mutation op in the store.
Flies(p, op) ==
  \/ p \in 1..Issued /\ inserts[p].at \in {"publishing", "refreshing"} /\ op = p
  \/ p \in 1..Issued /\ inserts[p].at = "withdrawing" /\ op = Withdrawal
  \/ p \in Removers /\ removal[p] = "withdrawing" /\ op = Withdrawal

\* Whoever has a mutation in the store holds the lock.
FlightHeld ==
  /\ \A p \in Parties : \A op \in Int : Flies(p, op) => Holds(p) /\ flight = op
  /\ Holds(Background) => flight # NoneInFlight

\* Nothing is in flight against a record that was published and is current.
CurrentSafe ==
  /\ entry \notin cancelled
  /\ entry \in insertedOk => flight \in {NoneInFlight, entry}
  /\ Answerable

\* A record that is in the store, or on its way, after its removal has a removal
\* under way.
RemovalOwed ==
  entry = 0 /\ ~excused /\ (flight > 0 \/ (record # 0 /\ ~late)) =>
    \E r \in Removers : removal[r] # "none"

ChallengesInv == ChallengeTypes /\ BackgroundAhead /\ FlightHeld /\ CurrentSafe /\ RemovalOwed

(* The queue of the lock *)

Queue == Seq(Parties \cup {Background})

\* The bounds of the model are numbers, and parties are not the background.
LEMMA PartyFacts ==
  /\ Installs \in Nat /\ Background \notin Parties /\ Owners \cap Removers = {}
  /\ Background = 0 /\ Withdrawal = 0 /\ NoneInFlight = -1 /\ Owners \subseteq Nat \ {0}
  /\ \A r \in Removers : r \notin Int
BY ChallengeAssumption DEF Parties, Owners, Background, Withdrawal, NoneInFlight

\* The holder is the first of the queue.
LEMMA HeadIs ==
  ASSUME NEW s \in Queue
  PROVE  /\ Len(s) \in Nat /\ DOMAIN s = 1..Len(s)
         /\ \A k \in 1..Len(s) : s[k] \in Parties \cup {Background}
         /\ (s # <<>> <=> Len(s) > 0) /\ Head(s) = s[1]
BY EmptySeq, LenProperties, ElementOfSeq DEF Queue

\* What a step of the queue may do to those in it: whoever holds the lock keeps
\* it unless it is p, and nobody becomes a caller that has gone.
QueueKeeps(p) ==
  /\ turns' \in Queue /\ BackgroundAhead'
  /\ \A q \in Parties \cup {Background} : Holds(q) /\ q # p => Holds(q)'
  /\ Holds(Background)' => Holds(Background)

\* A step that leaves the queue alone keeps its order.
LEMMA QueueStays ==
  ASSUME turns \in Queue, BackgroundAhead, turns' = turns, NEW p
  PROVE  QueueKeeps(p)
BY DEF QueueKeeps, BackgroundAhead, Holds

\* Giving up the lock or a place in its queue passes nobody over.
LEMMA LeavesKeeps ==
  ASSUME turns \in Queue, BackgroundAhead, NEW p \in Parties, Leaves(p)
  PROVE  QueueKeeps(p)
<1>1. CASE UNCHANGED turns
  BY <1>1, QueueStays
<1>2. ASSUME NEW k \in DOMAIN turns, turns[k] = p,
             turns' = SubSeq(turns, 1, k - 1) \o SubSeq(turns, k + 1, Len(turns))
      PROVE  QueueKeeps(p)
  <2> DEFINE S == Parties \cup {Background}
  <2> DEFINE a == SubSeq(turns, 1, k - 1)
  <2> DEFINE b == SubSeq(turns, k + 1, Len(turns))
  <2> DEFINE n == Len(turns)
  <2>1. n \in Nat /\ k \in 1..n /\ n > 0 /\ \A j \in 1..n : turns[j] \in S
    BY HeadIs
  <2>2. a \in Seq(S) /\ Len(a) = k - 1 /\ \A j \in 1..(k - 1) : a[j] = turns[j]
    <3>1. /\ 1 \in Int /\ k - 1 \in Int /\ \A j \in 1..(k - 1) : turns[j] \in S
      BY <2>1
    <3>2. a \in Seq(S) /\ Len(a) = (IF 1 <= k - 1 THEN (k - 1) - 1 + 1 ELSE 0)
          /\ \A j \in 1..((k - 1) - 1 + 1) : a[j] = turns[1 + j - 1]
      BY <3>1, SubSeqProperties
    <3> QED
      BY <2>1, <3>2
  <2>3. b \in Seq(S) /\ Len(b) = n - k /\ \A j \in 1..(n - k) : b[j] = turns[k + j]
    <3>1. /\ k + 1 \in Int /\ n \in Int /\ \A j \in (k + 1)..n : turns[j] \in S
      BY <2>1
    <3>2. b \in Seq(S) /\ Len(b) = (IF k + 1 <= n THEN n - (k + 1) + 1 ELSE 0)
          /\ \A j \in 1..(n - (k + 1) + 1) : b[j] = turns[k + 1 + j - 1]
      BY <3>1, SubSeqProperties
    <3> QED
      BY <2>1, <3>2
  <2>4. turns' \in Seq(S) /\ Len(turns') = (k - 1) + (n - k)
        /\ \A j \in 1..((k - 1) + (n - k)) : turns'[j] = IF j <= k - 1 THEN a[j] ELSE b[j - (k - 1)]
    <3> HIDE DEF S, a, b, n
    <3>1. turns' = a \o b
      BY <1>2 DEF a, b
    <3> QED
      BY <2>2, <2>3, <3>1, ConcatProperties
  <2> HIDE DEF a, b
  <2>5. Len(turns') = n - 1 /\ \A j \in 1..(n - 1) : turns'[j] = IF j < k THEN turns[j] ELSE turns[j + 1]
    <3> HIDE DEF S, n
    <3>1. Len(turns') = n - 1
      BY <2>1, <2>4
    <3> SUFFICES ASSUME NEW j \in 1..(n - 1) PROVE turns'[j] = IF j < k THEN turns[j] ELSE turns[j + 1]
      BY <3>1
    <3>2. turns'[j] = IF j <= k - 1 THEN a[j] ELSE b[j - (k - 1)]
      BY <2>1, <2>4
    <3>3. CASE j < k
      <4>1. j \in 1..(k - 1) /\ j <= k - 1
        BY <2>1, <3>3
      <4> QED
        BY <2>2, <3>2, <3>3, <4>1
    <3>4. CASE ~(j < k)
      <4>1. j - (k - 1) \in 1..(n - k) /\ ~(j <= k - 1) /\ k + (j - (k - 1)) = j + 1
        BY <2>1, <3>4
      <4>2. b[j - (k - 1)] = turns[k + (j - (k - 1))]
        BY <2>3, <4>1
      <4> QED
        BY <3>2, <3>4, <4>1, <4>2
    <3> QED
      BY <3>3, <3>4
  <2>6. turns' \in Queue /\ turns \in Queue
    BY <2>4 DEF Queue
  <2>7. p # Background /\ turns[k] = p
    BY <1>2, PartyFacts
  <2> HIDE DEF S, n
  <2>8. \A j \in 2..n : turns[j] # Background
    BY DEF BackgroundAhead, n
  <2>9. \A j \in 2..Len(turns') : turns'[j] # Background
    BY <2>1, <2>5, <2>8
  <2>10. \A q \in S : Holds(q) <=> turns[1] = q
    BY <2>1, <2>6, HeadIs DEF Holds, n
  <2>11. \A q \in S : Holds(q)' <=> (n - 1 > 0 /\ turns'[1] = q)
    BY <2>5, <2>6, HeadIs DEF Holds
  <2>12. CASE k = 1
    <3>1. n - 1 > 0 => turns'[1] = turns[2] /\ turns[2] # Background
      BY <2>1, <2>5, <2>8, <2>12
    <3> QED
      BY <2>6, <2>7, <2>9, <2>10, <2>11, <2>12, <3>1 DEF QueueKeeps, BackgroundAhead, S
  <2>13. CASE k # 1
    <3>1. n - 1 > 0 /\ turns'[1] = turns[1]
      BY <2>1, <2>5, <2>13
    <3> QED
      BY <2>6, <2>9, <2>10, <2>11, <3>1 DEF QueueKeeps, BackgroundAhead, S
  <2> QED
    BY <2>12, <2>13
<1> QED
  BY <1>1, <1>2 DEF Leaves

\* Whoever queues stands behind the holder.
LEMMA QueuesKeeps ==
  ASSUME turns \in Queue, BackgroundAhead, NEW p \in Parties, turns' = Append(turns, p), NEW z
  PROVE  QueueKeeps(z)
<1> DEFINE n == Len(turns)
<1>1. /\ turns' \in Queue /\ Len(turns') = n + 1
      /\ (\A j \in 1..n : turns'[j] = turns[j]) /\ turns'[n + 1] = p
  BY AppendProperties DEF Queue
<1>2. n \in Nat /\ p # Background
  BY HeadIs, PartyFacts
<1>3. \A q \in Parties \cup {Background} : Holds(q) <=> (n > 0 /\ turns[1] = q)
  BY HeadIs DEF Holds
<1>4. \A q \in Parties \cup {Background} : Holds(q)' <=> (n + 1 > 0 /\ turns'[1] = q)
  BY <1>1, HeadIs DEF Holds
<1>5. \A j \in 2..Len(turns') : turns'[j] # Background
  BY <1>1, <1>2 DEF BackgroundAhead
<1>6. CASE n = 0
  BY <1>1, <1>2, <1>3, <1>4, <1>5, <1>6 DEF QueueKeeps, BackgroundAhead
<1>7. CASE n > 0
  <2>1. turns'[1] = turns[1]
    BY <1>1, <1>2, <1>7
  <2> QED
    BY <1>1, <1>2, <1>3, <1>4, <1>5, <1>7, <2>1 DEF QueueKeeps, BackgroundAhead
<1> QED
  BY <1>2, <1>6, <1>7

\* The holder's caller has gone.
LEMMA DetachedKeeps ==
  ASSUME turns \in Queue, BackgroundAhead, NEW p \in Parties, Holds(p), Detached(p)
  PROVE  turns' \in Queue /\ BackgroundAhead' /\ Holds(Background)' /\ flight' = flight
<1> DEFINE n == Len(turns)
<1>1. n \in Nat /\ n > 0 /\ 1 \in 1..n
  BY HeadIs DEF Holds
<1>2. /\ turns' \in Queue /\ Len(turns') = n
      /\ \A j \in 1..n : turns'[j] = IF j = 1 THEN Background ELSE turns[j]
  BY <1>1, ExceptSeq DEF Queue, Detached
<1>3. BackgroundAhead'
  BY <1>1, <1>2 DEF BackgroundAhead
<1>4. Holds(Background)'
  BY <1>1, <1>2, HeadIs DEF Holds
<1> QED
  BY <1>2, <1>3, <1>4 DEF Detached

\* The background mutation is done.
LEMMA BackgroundLeaves ==
  ASSUME turns \in Queue, BackgroundAhead, Holds(Background), turns' = Tail(turns)
  PROVE  turns' \in Queue /\ BackgroundAhead' /\ ~Holds(Background)'
<1> DEFINE n == Len(turns)
<1>1. n \in Nat /\ n > 0
  BY HeadIs DEF Holds
<1>2. /\ turns' \in Queue /\ Len(turns') = n - 1
      /\ \A j \in 1..(n - 1) : turns'[j] = turns[j + 1]
  BY HeadTailProperties DEF Queue, Holds
<1>3. \A j \in 1..(n - 1) : turns'[j] # Background
  BY <1>1, <1>2 DEF BackgroundAhead
<1>4. ~Holds(Background)'
  <2> SUFFICES ASSUME Holds(Background)' PROVE FALSE
    OBVIOUS
  <2>1. Len(turns') > 0 /\ turns'[1] = Background
    BY <1>2, HeadIs DEF Holds
  <2> QED
    BY <1>1, <1>2, <1>3, <2>1
<1> QED
  BY <1>1, <1>2, <1>3, <1>4 DEF BackgroundAhead

(* Steps of one party *)

InsertRecords == [at : InsertSteps, attempts : Nat]

\* Nobody's step changes but p's.
OnlyMoves(p) ==
  /\ inserts' \in Seq(InsertRecords) /\ Issued' = Issued /\ removal' \in [Removers -> RemovalSteps]
  /\ \A q \in Parties : \A op \in Int : Flies(q, op)' => q = p \/ Flies(q, op)
Lands(p) == \A op \in Int : ~Flies(p, op)'

\* The mutation in flight reached the store or did not.
StoreMoves ==
  \/ UNCHANGED store
  \/ /\ flight >= 0 /\ given' \subseteq given \cup {flight}
     /\ record' = flight \/ UNCHANGED <<record, lapsed, late>>

\* What a step of a party does to the entry and to the record.
DataMoves ==
  /\ insertedOk' = insertedOk /\ entry' \in {entry, 0}
  /\ entry' \notin cancelled' /\ cancelled' \subseteq 1..Issued
  /\ flight' \in {flight, NoneInFlight, entry} \/ (flight' = 0 /\ entry \notin insertedOk)
  /\ StoreMoves
  /\ \/ excused' = TRUE \/ entry' # 0 \/ (record' = 0 /\ flight' <= 0)
     \/ (\E r \in Removers : removal'[r] # "none")
     \/ /\ entry' = entry /\ excused' = excused
        /\ \A r \in Removers : removal[r] # "none" => removal'[r] # "none"

\* The data parts of the invariant, for a step of any one party.
LEMMA TokenStep ==
  ASSUME ChallengesInv, inserts' \in Seq(InsertRecords), Issued' = Issued,
         removal' \in [Removers -> RemovalSteps], turns' \in Queue, BackgroundAhead', FlightHeld',
         DataMoves
  PROVE  ChallengesInv'
<1> USE DEF ChallengesInv
<1>1. /\ Issued \in Nat /\ Issued <= Installs /\ entry \in 0..Issued /\ record \in 0..Issued
      /\ flight \in -1..Issued /\ given \subseteq 0..Issued /\ insertedOk \subseteq 1..Issued
      /\ 0 \notin insertedOk
  BY LenProperties, PartyFacts DEF ChallengeTypes, Issued
<1>2. entry' \in 0..Issued /\ flight' \in -1..Issued
  BY <1>1, PartyFacts DEF DataMoves
<1>3. record' \in 0..Issued /\ given' \subseteq 0..Issued
  <2>1. CASE UNCHANGED store
    BY <1>1, <2>1 DEF store
  <2>2. CASE /\ flight >= 0 /\ given' \subseteq given \cup {flight}
             /\ record' = flight \/ UNCHANGED <<record, lapsed, late>>
    <3>1. flight \in 0..Issued
      BY <1>1, <2>2
    <3> QED
      BY <1>1, <2>2, <3>1
  <2> QED
    BY <2>1, <2>2 DEF DataMoves, StoreMoves
<1>4. ChallengeTypes'
  BY <1>1, <1>2, <1>3, PartyFacts DEF ChallengeTypes, DataMoves, Queue, InsertRecords
<1>5. CurrentSafe'
  <2>1. entry' \in insertedOk' => entry' = entry /\ entry # 0 /\ flight \in {-1, entry}
                                  /\ flight' \in {-1, entry}
    BY <1>1, PartyFacts DEF DataMoves, CurrentSafe
  <2>2. CASE UNCHANGED <<record, lapsed, late>>
    BY <2>1, <2>2, PartyFacts DEF CurrentSafe, Answerable, DataMoves
  <2>3. CASE flight >= 0 /\ record' = flight
    <3>1. entry' \in insertedOk' => record' = entry'
      BY <1>1, <2>1, <2>3
    <3> QED
      BY <2>1, <3>1, PartyFacts DEF CurrentSafe, Answerable, DataMoves
  <2> QED
    BY <2>2, <2>3 DEF DataMoves, StoreMoves, store
<1>6. RemovalOwed'
  <2> SUFFICES ASSUME entry' = 0, ~excused', flight' > 0 \/ (record' # 0 /\ ~late')
               PROVE  \E r \in Removers : removal'[r] # "none"
    BY DEF RemovalOwed
  <2>1. ~(record' = 0 /\ flight' <= 0)
    BY <1>2
  <2>2. CASE \E r \in Removers : removal'[r] # "none"
    BY <2>2
  <2>3. CASE /\ entry' = entry /\ excused' = excused
             /\ \A r \in Removers : removal[r] # "none" => removal'[r] # "none"
    <3>1. entry = 0 /\ ~excused
      BY <2>3
    <3>2. flight' > 0 => flight > 0
      BY <1>1, <3>1, PartyFacts DEF DataMoves
    <3>3. record' # 0 /\ ~late' => flight > 0 \/ (record # 0 /\ ~late)
      BY <1>1 DEF DataMoves, StoreMoves, store
    <3>4. \E r \in Removers : removal[r] # "none"
      BY <3>1, <3>2, <3>3 DEF RemovalOwed
    <3> QED
      BY <2>3, <3>4
  <2> QED
    BY <2>1, <2>2, <2>3 DEF DataMoves
<1> QED
  BY <1>4, <1>5, <1>6

\* Only the holder has a mutation in the store.
LEMMA OneFlies ==
  ASSUME FlightHeld, NEW p \in Parties \cup {Background}, Holds(p),
         NEW q \in Parties, NEW op \in Int, Flies(q, op)
  PROVE  q = p
BY DEF FlightHeld, Holds

\* p moves on with nothing in the store, or its mutation is over.
LEMMA PartyQuiet ==
  ASSUME ChallengesInv, NEW p \in Parties, OnlyMoves(p), Lands(p), QueueKeeps(p),
         flight' = flight \/ (Holds(p) /\ flight' = NoneInFlight), DataMoves
  PROVE  ChallengesInv'
<1> USE DEF ChallengesInv
<1>1. \A q \in Parties : \A op \in Int : Flies(q, op)' => q # p /\ Flies(q, op)
  BY DEF OnlyMoves, Lands
<1>2. FlightHeld'
  <2>1. CASE flight' = flight
    BY <1>1, <2>1 DEF FlightHeld, QueueKeeps
  <2>2. CASE Holds(p) /\ flight' = NoneInFlight
    <3>1. \A q \in Parties : \A op \in Int : ~Flies(q, op)'
      BY <1>1, <2>2, OneFlies
    <3>2. ~Holds(Background)'
      BY <2>2, PartyFacts DEF QueueKeeps, Holds
    <3> QED
      BY <3>1, <3>2 DEF FlightHeld
  <2> QED
    BY <2>1, <2>2
<1> QED
  BY <1>2, TokenStep DEF OnlyMoves, QueueKeeps

\* The holder p has mutation op in the store.
LEMMA PartyFlies ==
  ASSUME ChallengesInv, NEW p \in Parties, Holds(p), turns' = turns, OnlyMoves(p), NEW op \in Int,
         \A o \in Int : Flies(p, o)' => o = op, flight' = op, DataMoves
  PROVE  ChallengesInv'
<1> USE DEF ChallengesInv
<1>1. turns \in Queue
  BY DEF ChallengeTypes, Queue
<1>2. \A q \in Parties : \A o \in Int : Flies(q, o)' => q = p /\ o = op
  BY OneFlies DEF OnlyMoves
<1>3. Holds(p)' /\ ~Holds(Background)'
  BY PartyFacts DEF Holds
<1>4. FlightHeld'
  BY <1>2, <1>3 DEF FlightHeld
<1> QED
  BY <1>1, <1>4, TokenStep DEF OnlyMoves, BackgroundAhead

\* The holder p leaves its mutation behind.
LEMMA PartyDetached ==
  ASSUME ChallengesInv, NEW p \in Parties, Holds(p), Detached(p), OnlyMoves(p), Lands(p),
         flight # NoneInFlight, DataMoves
  PROVE  ChallengesInv'
<1> USE DEF ChallengesInv
<1>1. turns \in Queue
  BY DEF ChallengeTypes, Queue
<1>2. turns' \in Queue /\ BackgroundAhead' /\ flight' = flight
  BY <1>1, DetachedKeeps
<1>3. \A q \in Parties : \A op \in Int : ~Flies(q, op)'
  BY OneFlies DEF OnlyMoves, Lands
<1>4. FlightHeld'
  BY <1>2, <1>3 DEF FlightHeld
<1> QED
  BY <1>2, <1>4, TokenStep DEF OnlyMoves

\* The step of one installation.
LEMMA OwnerMoves ==
  ASSUME ChallengesInv, NEW i \in 1..Issued, NEW rec \in InsertRecords,
         inserts' = [inserts EXCEPT ![i] = rec], removal' = removal
  PROVE  /\ i \in Parties /\ OnlyMoves(i) /\ inserts[i] \in InsertRecords
         /\ \A op \in Int : Flies(i, op)' =>
              \/ rec.at \in {"publishing", "refreshing"} /\ op = i
              \/ rec.at = "withdrawing" /\ op = Withdrawal
<1> USE DEF ChallengesInv
<1>1. inserts \in Seq(InsertRecords) /\ Issued = Len(inserts) /\ Issued \in Nat /\ Issued <= Installs
      /\ removal \in [Removers -> RemovalSteps]
  BY LenProperties DEF ChallengeTypes, Issued, InsertRecords
<1>2. i \in Owners /\ i \in Parties /\ i \notin Removers
  BY <1>1, PartyFacts DEF Owners, Parties
<1>3. /\ inserts' \in Seq(InsertRecords) /\ Issued' = Issued
      /\ \A j \in 1..Issued : inserts'[j] = IF j = i THEN rec ELSE inserts[j]
  BY <1>1, ExceptSeq DEF Issued
<1>4. inserts[i] \in InsertRecords
  BY <1>1, ElementOfSeq
<1>5. \A q \in Parties : \A op \in Int : Flies(q, op)' => q = i \/ Flies(q, op)
  BY <1>3 DEF Flies
<1>6. \A op \in Int : Flies(i, op)' =>
         \/ rec.at \in {"publishing", "refreshing"} /\ op = i
         \/ rec.at = "withdrawing" /\ op = Withdrawal
  BY <1>2, <1>3 DEF Flies
<1> QED
  BY <1>1, <1>2, <1>3, <1>4, <1>5, <1>6 DEF OnlyMoves

QuietSteps == InsertSteps \ {"publishing", "refreshing", "withdrawing"}

\* The same, when only the step of the installation changes.
LEMMA OwnerProceeds ==
  ASSUME ChallengesInv, NEW i \in 1..Issued, NEW s \in InsertSteps, Proceeds(i, s), removal' = removal
  PROVE  /\ i \in Parties /\ OnlyMoves(i)
         /\ s \in QuietSteps => Lands(i)
         /\ s = "withdrawing" => \A op \in Int : Flies(i, op)' => op = Withdrawal
<1> DEFINE rec == [inserts[i] EXCEPT !.at = s]
<1>1. inserts[i] \in InsertRecords
  <2>1. inserts \in Seq(InsertRecords) /\ Issued = Len(inserts)
    BY DEF ChallengesInv, ChallengeTypes, Issued, InsertRecords
  <2> QED
    BY <2>1, ElementOfSeq
<1>2. rec \in InsertRecords /\ rec.at = s
  BY <1>1 DEF InsertRecords
<1>3. inserts' = [inserts EXCEPT ![i] = rec]
  BY DEF Proceeds
<1> HIDE DEF rec
<1>4. /\ i \in Parties /\ OnlyMoves(i)
      /\ \A op \in Int : Flies(i, op)' =>
           \/ rec.at \in {"publishing", "refreshing"} /\ op = i
           \/ rec.at = "withdrawing" /\ op = Withdrawal
  BY <1>2, <1>3, OwnerMoves
<1> QED
  BY <1>2, <1>4 DEF Lands, QuietSteps

\* The step of one removal.
LEMMA RemoverMoves ==
  ASSUME ChallengesInv, NEW r \in Removers, NEW s \in RemovalSteps,
         removal' = [removal EXCEPT ![r] = s], inserts' = inserts
  PROVE  /\ r \in Parties /\ OnlyMoves(r) /\ removal'[r] = s
         /\ \A q \in Removers \ {r} : removal'[q] = removal[q]
         /\ \A op \in Int : Flies(r, op)' => s = "withdrawing" /\ op = Withdrawal
<1> USE DEF ChallengesInv
<1>1. inserts \in Seq(InsertRecords) /\ removal \in [Removers -> RemovalSteps] /\ Issued' = Issued
      /\ Issued \in Nat
  BY LenProperties DEF ChallengeTypes, InsertRecords, Issued
<1>2. r \in Parties /\ r \notin 1..Issued
  BY <1>1, PartyFacts DEF Parties
<1>3. removal' \in [Removers -> RemovalSteps] /\ removal'[r] = s
      /\ \A q \in Removers \ {r} : removal'[q] = removal[q]
  BY <1>1
<1>4. \A q \in Parties : \A op \in Int : Flies(q, op)' => q = r \/ Flies(q, op)
  BY <1>1, <1>3 DEF Flies
<1>5. \A op \in Int : Flies(r, op)' => s = "withdrawing" /\ op = Withdrawal
  BY <1>1, <1>2, <1>3 DEF Flies
<1> QED
  BY <1>1, <1>2, <1>3, <1>4, <1>5 DEF OnlyMoves

(* The installations *)

\* Facts of every step of installation i.
LEMMA OwnerFacts ==
  ASSUME ChallengesInv, NEW i \in 1..Issued
  PROVE  /\ Issued \in Nat /\ i \in Int /\ i > 0 /\ turns \in Queue /\ BackgroundAhead
         /\ entry \notin cancelled /\ cancelled \subseteq 1..Issued /\ 0 \notin insertedOk
         /\ inserts[i].at \in {"publishing", "refreshing"} => Holds(i) /\ flight = i
         /\ inserts[i].at = "withdrawing" => Holds(i) /\ flight = 0
<1> USE DEF ChallengesInv
<1>1. Issued \in Nat /\ Issued <= Installs /\ turns \in Queue /\ cancelled \subseteq 1..Issued
      /\ insertedOk \subseteq 1..Issued
  BY LenProperties DEF ChallengeTypes, Issued, Queue
<1>2. i \in Parties /\ i \in Int /\ i > 0 /\ 0 \in Int
  BY <1>1, PartyFacts DEF Parties, Owners
<1>3. inserts[i].at \in {"publishing", "refreshing"} => Flies(i, i)
  BY DEF Flies
<1>4. inserts[i].at = "withdrawing" => Flies(i, 0)
  BY DEF Flies, Withdrawal
<1> QED
  BY <1>1, <1>2, <1>3, <1>4 DEF FlightHeld, CurrentSafe

\* An installation or its refresh asks for the lock.
LEMMA InsertQueuesKeeps ==
  ASSUME ChallengesInv, NEW i \in 1..Issued, InsertQueues(i) \/ RefreshDue(i)
  PROVE  ChallengesInv'
<1>1. PICK s \in {"waiting", "refresh due"} :
        /\ Proceeds(i, s) /\ turns' = Append(turns, i)
        /\ UNCHANGED <<entry, cancelled, removal, flight, store, insertedOk, excused>>
  BY DEF InsertQueues, RefreshDue, NoTrouble
<1>2. i \in Parties /\ OnlyMoves(i) /\ Lands(i)
  BY <1>1, OwnerProceeds DEF InsertSteps, QuietSteps
<1>3. QueueKeeps(i)
  BY <1>1, <1>2, OwnerFacts, QueuesKeeps
<1>4. DataMoves
  BY <1>1, OwnerFacts DEF DataMoves, StoreMoves
<1> QED
  BY <1>1, <1>2, <1>3, <1>4, PartyQuiet

\* What a failed or successful mutation does to the store.
LEMMA StoreMoved ==
  ASSUME flight >= 0, Succeeds(flight) \/ Fails(flight)
  PROVE  StoreMoves
BY DEF StoreMoves, Succeeds, Fails, Executed, store

\* Rolling back leaves the entry to whoever has it.
LEMMA RolledBack ==
  ASSUME ChallengesInv, NEW i \in 1..Issued, RollBack(i)
  PROVE  entry' \in {entry, 0} /\ entry' \notin cancelled' /\ cancelled' \subseteq 1..Issued
<1>1. /\ Issued \in Nat /\ i > 0 /\ entry \notin cancelled /\ cancelled \subseteq 1..Issued /\ i \in Int
  BY OwnerFacts
<1>2. 0 \notin cancelled
  BY <1>1
<1> QED
  BY <1>1, <1>2 DEF RollBack

\* The turn does not come in time and the installation is rolled back.
LEMMA InsertTimesOutKeeps ==
  ASSUME ChallengesInv, NEW i \in 1..Issued, InsertTimesOut(i)
  PROVE  ChallengesInv'
<1>1. /\ Proceeds(i, "ended") /\ Leaves(i) /\ RollBack(i) /\ excused' = TRUE
      /\ UNCHANGED <<removal, flight, store, insertedOk>>
  BY DEF InsertTimesOut, Trouble
<1>2. i \in Parties /\ OnlyMoves(i) /\ Lands(i)
  BY <1>1, OwnerProceeds DEF InsertSteps, QuietSteps
<1>3. QueueKeeps(i)
  BY <1>1, <1>2, OwnerFacts, LeavesKeeps
<1>4. DataMoves
  BY <1>1, RolledBack DEF DataMoves, StoreMoves
<1> QED
  BY <1>1, <1>2, <1>3, <1>4, PartyQuiet

\* A turn of the lock: a mutation starts for the entry's owner only.
LEMMA OwnerTurnKeeps ==
  ASSUME ChallengesInv, NEW i \in 1..Issued, InsertTurn(i) \/ RefreshTurn(i)
  PROVE  ChallengesInv'
<1>1. Holds(i) /\ UNCHANGED <<entry, cancelled, removal, store, insertedOk, excused>>
  BY DEF InsertTurn, RefreshTurn, NoTrouble
<1>2. ASSUME NEW at \in {"publishing", "refreshing"}, entry = i, flight' = i, UNCHANGED turns,
             inserts' = [inserts EXCEPT ![i] = [at |-> at, attempts |-> 1]]
      PROVE  ChallengesInv'
  <2> DEFINE rec == [at |-> at, attempts |-> 1]
  <2>1. rec \in InsertRecords /\ rec.at = at
    BY DEF InsertRecords, InsertSteps
  <2> HIDE DEF rec
  <2>2. inserts' = [inserts EXCEPT ![i] = rec]
    BY <1>2 DEF rec
  <2>3. /\ i \in Parties /\ OnlyMoves(i)
        /\ \A op \in Int : Flies(i, op)' => op = i
    BY <1>1, <2>1, <2>2, OwnerMoves
  <2>4. DataMoves
    BY <1>1, <1>2, OwnerFacts DEF DataMoves, StoreMoves
  <2> QED
    BY <1>1, <1>2, <2>3, <2>4, OwnerFacts, PartyFlies
<1>3. CASE Leaves(i) /\ Proceeds(i, "ended") /\ UNCHANGED flight
  <2>1. i \in Parties /\ OnlyMoves(i) /\ Lands(i)
    BY <1>1, <1>3, OwnerProceeds DEF InsertSteps, QuietSteps
  <2>2. QueueKeeps(i)
    BY <1>3, <2>1, OwnerFacts, LeavesKeeps
  <2>3. DataMoves
    BY <1>1, <1>3, OwnerFacts DEF DataMoves, StoreMoves
  <2> QED
    BY <1>3, <2>1, <2>2, <2>3, PartyQuiet
<1> QED
  BY <1>2, <1>3 DEF InsertTurn, RefreshTurn

\* The publication of an installation that is not current any more.
LEMMA StalePublishedKeeps ==
  ASSUME ChallengesInv, NEW i \in 1..Issued, InsertPublished(i), entry # i
  PROVE  ChallengesInv'
<1>1. /\ inserts[i].at = "publishing" /\ Succeeds(i) /\ flight' = NoneInFlight /\ Leaves(i)
      /\ Proceeds(i, "ended") /\ UNCHANGED <<entry, cancelled, removal, insertedOk, excused>>
  BY DEF InsertPublished, NoTrouble
<1>2. i \in Parties /\ OnlyMoves(i) /\ Lands(i)
  BY <1>1, OwnerProceeds DEF InsertSteps, QuietSteps
<1>3. Holds(i) /\ flight = i /\ QueueKeeps(i)
  BY <1>1, <1>2, OwnerFacts, LeavesKeeps
<1>4. StoreMoves
  BY <1>1, <1>3, OwnerFacts, StoreMoved
<1>5. DataMoves
  BY <1>1, <1>4, OwnerFacts DEF DataMoves
<1> QED
  BY <1>1, <1>2, <1>3, <1>5, PartyQuiet

\* The publication of the current installation: from here on it is answerable.
LEMMA CurrentPublishedKeeps ==
  ASSUME ChallengesInv, NEW i \in 1..Issued, InsertPublished(i), entry = i
  PROVE  ChallengesInv'
<1> USE DEF ChallengesInv
<1>1. /\ inserts[i].at = "publishing" /\ Succeeds(i) /\ flight' = NoneInFlight /\ Leaves(i)
      /\ Proceeds(i, "kept") /\ insertedOk' = insertedOk \cup {i}
      /\ UNCHANGED <<entry, cancelled, removal, excused>>
  BY DEF InsertPublished, NoTrouble
<1>2. i \in Parties /\ OnlyMoves(i) /\ Lands(i)
  BY <1>1, OwnerProceeds DEF InsertSteps, QuietSteps
<1>3. Holds(i) /\ QueueKeeps(i) /\ Issued \in Nat /\ i > 0 /\ i \in Int
  BY <1>1, <1>2, OwnerFacts, LeavesKeeps
<1>4. record' = i /\ given' = given
  BY <1>1 DEF Succeeds, Executed
<1>5. ChallengeTypes'
  <2>1. i \in 0..Issued /\ -1 \in -1..Issued
    BY <1>3
  <2>2. insertedOk' \subseteq 1..Issued /\ flight' \in -1..Issued /\ record' \in 0..Issued
    BY <1>1, <1>4, <2>1, PartyFacts DEF ChallengeTypes
  <2> QED
    BY <1>1, <1>2, <1>3, <1>4, <2>2, PartyFacts
       DEF ChallengeTypes, OnlyMoves, QueueKeeps, Queue, InsertRecords
<1>6. FlightHeld'
  <2>1. \A q \in Parties : \A op \in Int : ~Flies(q, op)'
    BY <1>2, <1>3, OneFlies DEF OnlyMoves, Lands
  <2>2. ~Holds(Background)'
    BY <1>2, <1>3, PartyFacts DEF QueueKeeps, Holds
  <2> QED
    BY <2>1, <2>2 DEF FlightHeld
<1>7. CurrentSafe'
  BY <1>1, <1>4 DEF CurrentSafe, Answerable
<1>8. RemovalOwed'
  BY <1>1, <1>3 DEF RemovalOwed
<1> QED
  BY <1>3, <1>5, <1>6, <1>7, <1>8 DEF QueueKeeps

\* A retry keeps the lock and the mutation.
LEMMA PublishRetriesKeeps ==
  ASSUME ChallengesInv, NEW i \in 1..Issued, PublishRetries(i)
  PROVE  ChallengesInv'
<1>1. /\ inserts[i].at \in {"publishing", "refreshing"} /\ Fails(i) /\ excused' = TRUE
      /\ inserts' = [inserts EXCEPT ![i].attempts = @ + 1]
      /\ UNCHANGED <<entry, cancelled, removal, turns, flight, insertedOk>>
  BY DEF PublishRetries, Trouble
<1> DEFINE rec == [inserts[i] EXCEPT !.attempts = inserts[i].attempts + 1]
<1>2. rec \in InsertRecords /\ rec.at = inserts[i].at
  <2>1. inserts \in Seq(InsertRecords) /\ Issued = Len(inserts)
    BY DEF ChallengesInv, ChallengeTypes, Issued, InsertRecords
  <2>2. inserts[i] \in InsertRecords
    BY <2>1, ElementOfSeq
  <2> QED
    BY <2>2 DEF InsertRecords
<1>3. inserts' = [inserts EXCEPT ![i] = rec]
  BY <1>1
<1> HIDE DEF rec
<1>4. i \in Parties /\ OnlyMoves(i) /\ \A op \in Int : Flies(i, op)' => op = i
  BY <1>1, <1>2, <1>3, OwnerMoves
<1>5. Holds(i) /\ flight = i /\ flight >= 0 /\ i \in Int
  BY <1>1, OwnerFacts
<1>6. StoreMoves
  BY <1>1, <1>5, StoreMoved
<1>7. DataMoves
  BY <1>1, <1>6, OwnerFacts DEF DataMoves
<1> QED
  BY <1>1, <1>4, <1>5, <1>7, PartyFlies

\* The last attempt at a publication fails and is rolled back.
LEMMA PublishFailsKeeps ==
  ASSUME ChallengesInv, NEW i \in 1..Issued, PublishFails(i)
  PROVE  ChallengesInv'
<1>1. /\ inserts[i].at = "publishing" /\ Fails(i) /\ excused' = TRUE /\ flight' = NoneInFlight
      /\ Leaves(i) /\ Proceeds(i, "ended") /\ RollBack(i) /\ UNCHANGED <<removal, insertedOk>>
  BY DEF PublishFails, Trouble
<1>2. i \in Parties /\ OnlyMoves(i) /\ Lands(i)
  BY <1>1, OwnerProceeds DEF InsertSteps, QuietSteps
<1>3. Holds(i) /\ flight = i /\ flight >= 0 /\ QueueKeeps(i)
  BY <1>1, <1>2, OwnerFacts, LeavesKeeps
<1>4. DataMoves
  BY <1>1, <1>3, StoreMoved, RolledBack DEF DataMoves
<1> QED
  BY <1>1, <1>2, <1>3, <1>4, PartyQuiet

\* The caller goes and its mutation stays.
LEMMA AbandonedKeeps ==
  ASSUME ChallengesInv, NEW i \in 1..Issued,
         \/ PublishAbandoned(i) \/ RefreshAbandoned(i)
         \/ (InsertDropped(i) /\ inserts[i].at = "publishing")
  PROVE  ChallengesInv'
<1>1. /\ inserts[i].at \in {"publishing", "refreshing", "withdrawing"} /\ excused' = TRUE
      /\ Detached(i) /\ UNCHANGED <<removal, store, insertedOk>>
      /\ RollBack(i) \/ UNCHANGED <<entry, cancelled>>
  BY DEF PublishAbandoned, RefreshAbandoned, InsertDropped, Trouble
<1>2. PICK s \in {"kept", "ended"} : Proceeds(i, s)
  BY DEF PublishAbandoned, RefreshAbandoned, InsertDropped
<1>3. i \in Parties /\ OnlyMoves(i) /\ Lands(i)
  BY <1>1, <1>2, OwnerProceeds DEF InsertSteps, QuietSteps
<1>4. Holds(i) /\ flight # NoneInFlight /\ flight' = flight
  BY <1>1, OwnerFacts, PartyFacts DEF Detached
<1>5. entry' \in {entry, 0} /\ entry' \notin cancelled' /\ cancelled' \subseteq 1..Issued
  BY <1>1, RolledBack, OwnerFacts
<1>6. DataMoves
  BY <1>1, <1>4, <1>5 DEF DataMoves, StoreMoves
<1> QED
  BY <1>1, <1>3, <1>4, <1>6, PartyDetached

\* The place in the queue is given up.
LEMMA OwnerGivesUpKeeps ==
  ASSUME ChallengesInv, NEW i \in 1..Issued,
         \/ (InsertDropped(i) /\ inserts[i].at # "publishing")
         \/ KeepaliveEnds(i) \/ RefreshSkipped(i)
  PROVE  ChallengesInv'
<1>1. /\ Leaves(i) /\ UNCHANGED <<entry, cancelled, removal, flight, store, insertedOk>>
      /\ excused' = TRUE \/ excused' = excused
  BY DEF InsertDropped, KeepaliveEnds, RefreshSkipped, Trouble, NoTrouble
<1>2. PICK s \in {"kept", "ended"} : Proceeds(i, s)
  BY DEF InsertDropped, KeepaliveEnds, RefreshSkipped
<1>3. i \in Parties /\ OnlyMoves(i) /\ Lands(i)
  BY <1>1, <1>2, OwnerProceeds DEF InsertSteps, QuietSteps
<1>4. QueueKeeps(i)
  BY <1>1, <1>3, OwnerFacts, LeavesKeeps
<1>5. DataMoves
  BY <1>1, OwnerFacts DEF DataMoves, StoreMoves
<1> QED
  BY <1>1, <1>3, <1>4, <1>5, PartyQuiet

\* After a refresh the keepalive sleeps, ends, or withdraws what it brought back.
LEMMA RefreshedKeeps ==
  ASSUME ChallengesInv, NEW i \in 1..Issued, Refreshed(i)
  PROVE  ChallengesInv'
<1>1. /\ inserts[i].at = "refreshing" /\ (Succeeds(i) \/ Fails(i))
      /\ UNCHANGED <<entry, cancelled, removal, insertedOk>>
      /\ excused' = TRUE \/ excused' = excused
  BY DEF Refreshed, Trouble, NoTrouble
<1>2. Holds(i) /\ flight = i /\ flight >= 0
  BY <1>1, OwnerFacts
<1>3. StoreMoves
  BY <1>1, <1>2, StoreMoved
<1>4. ASSUME NEW s \in {"kept", "ended"}, Proceeds(i, s), Leaves(i), flight' = NoneInFlight
      PROVE  ChallengesInv'
  <2>1. i \in Parties /\ OnlyMoves(i) /\ Lands(i)
    BY <1>1, <1>4, OwnerProceeds DEF InsertSteps, QuietSteps
  <2>2. QueueKeeps(i)
    BY <1>4, <2>1, OwnerFacts, LeavesKeeps
  <2>3. DataMoves
    BY <1>1, <1>3, <1>4, OwnerFacts DEF DataMoves
  <2> QED
    BY <1>2, <1>4, <2>1, <2>2, <2>3, PartyQuiet
<1>5. CASE i \in cancelled /\ entry \in {0, i} /\ Proceeds(i, "withdrawing") /\ flight' = Withdrawal
           /\ UNCHANGED turns
  <2>1. i \in Parties /\ OnlyMoves(i) /\ \A op \in Int : Flies(i, op)' => op = Withdrawal
    BY <1>1, <1>5, OwnerProceeds DEF InsertSteps
  <2>2. entry = 0 /\ entry \notin insertedOk
    BY <1>5, OwnerFacts
  <2>3. DataMoves
    BY <1>1, <1>3, <1>5, <2>2, OwnerFacts, PartyFacts DEF DataMoves
  <2>4. Withdrawal \in Int
    BY PartyFacts
  <2> QED
    BY <1>2, <1>5, <2>1, <2>3, <2>4, PartyFlies
<1> QED
  BY <1>4, <1>5 DEF Refreshed, AfterRefresh

\* A keepalive has withdrawn what its refresh brought back, or failed to.
LEMMA RewithdrawnKeeps ==
  ASSUME ChallengesInv, NEW i \in 1..Issued, Rewithdrawn(i)
  PROVE  ChallengesInv'
<1>1. /\ inserts[i].at = "withdrawing" /\ WithdrawOutcome /\ flight' = NoneInFlight
      /\ Leaves(i) /\ Proceeds(i, "ended") /\ UNCHANGED <<entry, cancelled, removal, insertedOk>>
  BY DEF Rewithdrawn
<1>2. i \in Parties /\ OnlyMoves(i) /\ Lands(i)
  BY <1>1, OwnerProceeds DEF InsertSteps, QuietSteps
<1>3. Holds(i) /\ flight = 0 /\ flight >= 0 /\ flight = Withdrawal /\ QueueKeeps(i)
  BY <1>1, <1>2, OwnerFacts, LeavesKeeps, PartyFacts
<1>4. StoreMoves /\ (excused' = TRUE \/ record' = 0)
  BY <1>1, <1>3, StoreMoved DEF WithdrawOutcome, Trouble, Succeeds, Executed
<1>5. DataMoves
  BY <1>1, <1>4, OwnerFacts, PartyFacts DEF DataMoves
<1> QED
  BY <1>1, <1>2, <1>3, <1>5, PartyQuiet

(* The removals, the store and the theorem *)

\* Facts of every step of a removal.
LEMMA RemoverFacts ==
  ASSUME ChallengesInv, NEW r \in Removers
  PROVE  /\ Issued \in Nat /\ turns \in Queue /\ BackgroundAhead /\ entry \in 0..Issued
         /\ entry \notin cancelled /\ cancelled \subseteq 1..Issued /\ 0 \notin insertedOk
         /\ removal[r] = "withdrawing" => Holds(r) /\ flight = 0
<1> USE DEF ChallengesInv
<1>1. Issued \in Nat /\ turns \in Queue /\ cancelled \subseteq 1..Issued /\ insertedOk \subseteq 1..Issued
      /\ entry \in 0..Issued
  BY LenProperties DEF ChallengeTypes, Issued, Queue
<1>2. r \in Parties /\ 0 \in Int
  BY DEF Parties
<1>3. removal[r] = "withdrawing" => Flies(r, 0)
  BY DEF Flies, Withdrawal
<1> QED
  BY <1>1, <1>2, <1>3 DEF FlightHeld, CurrentSafe

\* The entry goes first; the removal owes the withdrawal of its record.
LEMMA RemoveLocalKeeps ==
  ASSUME ChallengesInv, NEW r \in Removers, RemoveLocal(r)
  PROVE  ChallengesInv'
<1>1. /\ removal' = [removal EXCEPT ![r] = "removed"] /\ entry' = 0
      /\ cancelled' = cancelled \cup ({entry} \ {0})
      /\ UNCHANGED <<inserts, turns, flight, store, insertedOk>>
  BY DEF RemoveLocal
<1>2. r \in Parties /\ OnlyMoves(r) /\ Lands(r) /\ removal'[r] = "removed"
  BY <1>1, RemoverMoves DEF RemovalSteps, Lands
<1>3. QueueKeeps(r)
  BY <1>1, RemoverFacts, QueueStays
<1>4. cancelled' \subseteq 1..Issued
  BY <1>1, RemoverFacts
<1>5. 0 \notin cancelled'
  BY <1>1, RemoverFacts
<1>6. DataMoves
  BY <1>1, <1>2, <1>4, <1>5 DEF DataMoves, StoreMoves
<1> QED
  BY <1>1, <1>2, <1>3, <1>6, PartyQuiet

\* A removal asks for the lock.
LEMMA RemovalQueuesKeeps ==
  ASSUME ChallengesInv, NEW r \in Removers, RemovalQueues(r)
  PROVE  ChallengesInv'
<1>1. /\ removal' = [removal EXCEPT ![r] = "waiting"] /\ turns' = Append(turns, r)
      /\ UNCHANGED <<entry, inserts, cancelled, flight, store, insertedOk, excused>>
  BY DEF RemovalQueues, NoTrouble
<1>2. r \in Parties /\ OnlyMoves(r) /\ Lands(r) /\ removal'[r] = "waiting"
  BY <1>1, RemoverMoves DEF RemovalSteps, Lands
<1>3. QueueKeeps(r)
  BY <1>1, <1>2, RemoverFacts, QueuesKeeps
<1>4. DataMoves
  BY <1>1, <1>2, RemoverFacts DEF DataMoves, StoreMoves
<1> QED
  BY <1>1, <1>2, <1>3, <1>4, PartyQuiet

\* A turn of the lock: a withdrawal starts only while nothing is installed.
LEMMA RemovalTurnKeeps ==
  ASSUME ChallengesInv, NEW r \in Removers, RemovalTurn(r)
  PROVE  ChallengesInv'
<1>1. Holds(r) /\ UNCHANGED <<entry, inserts, cancelled, store, insertedOk, excused>>
  BY DEF RemovalTurn, NoTrouble
<1>2. CASE entry = 0 /\ flight' = Withdrawal /\ UNCHANGED turns
           /\ removal' = [removal EXCEPT ![r] = "withdrawing"]
  <2>1. /\ r \in Parties /\ OnlyMoves(r) /\ removal'[r] = "withdrawing"
        /\ \A op \in Int : Flies(r, op)' => op = Withdrawal
    BY <1>1, <1>2, RemoverMoves DEF RemovalSteps
  <2>2. DataMoves
    BY <1>1, <1>2, <2>1, RemoverFacts, PartyFacts DEF DataMoves, StoreMoves
  <2>3. Withdrawal \in Int
    BY PartyFacts
  <2> QED
    BY <1>1, <1>2, <2>1, <2>2, <2>3, PartyFlies
<1>3. CASE entry # 0 /\ Leaves(r) /\ UNCHANGED flight /\ removal' = [removal EXCEPT ![r] = "none"]
  <2>1. r \in Parties /\ OnlyMoves(r) /\ Lands(r)
    BY <1>1, <1>3, RemoverMoves DEF RemovalSteps, Lands
  <2>2. QueueKeeps(r)
    BY <1>3, <2>1, RemoverFacts, LeavesKeeps
  <2>3. DataMoves
    BY <1>1, <1>3, RemoverFacts DEF DataMoves, StoreMoves
  <2> QED
    BY <1>3, <2>1, <2>2, <2>3, PartyQuiet
<1> QED
  BY <1>2, <1>3 DEF RemovalTurn, StillRemoved

\* A removal whose turn does not come is excused.
LEMMA RemovalSkippedKeeps ==
  ASSUME ChallengesInv, NEW r \in Removers, RemovalSkipped(r)
  PROVE  ChallengesInv'
<1>1. /\ removal' = [removal EXCEPT ![r] = "none"] /\ Leaves(r) /\ excused' = TRUE
      /\ UNCHANGED <<entry, inserts, cancelled, flight, store, insertedOk>>
  BY DEF RemovalSkipped, Trouble
<1>2. r \in Parties /\ OnlyMoves(r) /\ Lands(r)
  BY <1>1, RemoverMoves DEF RemovalSteps, Lands
<1>3. QueueKeeps(r)
  BY <1>1, <1>2, RemoverFacts, LeavesKeeps
<1>4. DataMoves
  BY <1>1, RemoverFacts DEF DataMoves, StoreMoves
<1> QED
  BY <1>1, <1>2, <1>3, <1>4, PartyQuiet

\* The withdrawal is done, or failed and is excused.
LEMMA WithdrawnKeeps ==
  ASSUME ChallengesInv, NEW r \in Removers, Withdrawn(r)
  PROVE  ChallengesInv'
<1>1. /\ removal[r] = "withdrawing" /\ WithdrawOutcome /\ flight' = NoneInFlight /\ Leaves(r)
      /\ removal' = [removal EXCEPT ![r] = "none"]
      /\ UNCHANGED <<entry, inserts, cancelled, insertedOk>>
  BY DEF Withdrawn
<1>2. r \in Parties /\ OnlyMoves(r) /\ Lands(r)
  BY <1>1, RemoverMoves DEF RemovalSteps, Lands
<1>3. Holds(r) /\ flight = 0 /\ flight >= 0 /\ flight = Withdrawal /\ QueueKeeps(r)
  BY <1>1, <1>2, RemoverFacts, LeavesKeeps, PartyFacts
<1>4. StoreMoves /\ (excused' = TRUE \/ record' = 0)
  BY <1>1, <1>3, StoreMoved DEF WithdrawOutcome, Trouble, Succeeds, Executed
<1>5. DataMoves
  BY <1>1, <1>4, RemoverFacts, PartyFacts DEF DataMoves
<1> QED
  BY <1>1, <1>2, <1>3, <1>5, PartyQuiet

\* The caller of a removal goes and the withdrawal stays.
LEMMA WithdrawalAbandonedKeeps ==
  ASSUME ChallengesInv, NEW r \in Removers, WithdrawalAbandoned(r)
  PROVE  ChallengesInv'
<1>1. /\ removal[r] = "withdrawing" /\ excused' = TRUE /\ Detached(r)
      /\ removal' = [removal EXCEPT ![r] = "none"]
      /\ UNCHANGED <<entry, inserts, cancelled, store, insertedOk>>
  BY DEF WithdrawalAbandoned, Trouble
<1>2. r \in Parties /\ OnlyMoves(r) /\ Lands(r)
  BY <1>1, RemoverMoves DEF RemovalSteps, Lands
<1>3. Holds(r) /\ flight # NoneInFlight /\ flight' = flight
  BY <1>1, RemoverFacts, PartyFacts DEF Detached
<1>4. DataMoves
  BY <1>1, <1>3, RemoverFacts DEF DataMoves, StoreMoves
<1> QED
  BY <1>1, <1>2, <1>3, <1>4, PartyDetached

\* A mutation whose caller has gone ends and frees the lock.
LEMMA BackgroundCompletesKeeps == ChallengesInv /\ BackgroundCompletes => ChallengesInv'
<1> SUFFICES ASSUME ChallengesInv, BackgroundCompletes PROVE ChallengesInv'
  OBVIOUS
<1> USE DEF ChallengesInv
<1>1. /\ Holds(Background) /\ (Succeeds(flight) \/ Fails(flight)) /\ flight' = NoneInFlight
      /\ turns' = Tail(turns) /\ UNCHANGED <<entry, inserts, cancelled, removal, insertedOk, excused>>
  BY DEF BackgroundCompletes, NoTrouble
<1>2. /\ turns \in Queue /\ inserts \in Seq(InsertRecords) /\ removal \in [Removers -> RemovalSteps]
      /\ Issued' = Issued /\ Issued \in Nat /\ flight \in -1..Issued /\ cancelled \subseteq 1..Issued
  BY <1>1, LenProperties, PartyFacts DEF ChallengeTypes, Queue, InsertRecords, Issued
<1>3. turns' \in Queue /\ BackgroundAhead' /\ ~Holds(Background)'
  BY <1>1, <1>2, BackgroundLeaves
<1>4. \A q \in Parties : \A op \in Int : ~Flies(q, op)'
  <2> SUFFICES ASSUME NEW q \in Parties, NEW op \in Int, Flies(q, op)' PROVE FALSE
    OBVIOUS
  <2>1. Flies(q, op)
    BY <1>1, <1>2 DEF Flies
  <2> QED
    BY <1>1, <2>1, OneFlies, PartyFacts
<1>5. FlightHeld'
  BY <1>3, <1>4 DEF FlightHeld
<1>6. flight >= 0
  BY <1>1, <1>2, PartyFacts DEF FlightHeld
<1>7. DataMoves
  BY <1>1, <1>2, <1>6, StoreMoved DEF DataMoves, CurrentSafe
<1> QED
  BY <1>1, <1>2, <1>3, <1>5, <1>7, TokenStep

\* The record runs out, or a statement the store gave up on executes after all.
LEMMA StoreAloneKeeps ==
  ASSUME ChallengesInv, Lapse \/ \E op \in given : GivenUpExecutes(op)
  PROVE  ChallengesInv'
<1> USE DEF ChallengesInv
<1>1. UNCHANGED <<entry, inserts, cancelled, removal, turns, flight, insertedOk, excused>>
  BY DEF Lapse, GivenUpExecutes
<1>2. Issued' = Issued /\ Issued \in Nat /\ given \subseteq 0..Issued
  BY <1>1, LenProperties DEF ChallengeTypes, Issued
<1>3. /\ record' \in 0..Issued /\ given' \subseteq given
      /\ \/ late' = TRUE
         \/ record' = 0 /\ lapsed' = TRUE /\ late' = late
  BY <1>2 DEF Lapse, GivenUpExecutes, Executed
<1>4. ChallengeTypes'
  BY <1>1, <1>2, <1>3 DEF ChallengeTypes
<1>5. BackgroundAhead' /\ FlightHeld'
  BY <1>1, <1>2 DEF BackgroundAhead, FlightHeld, Flies, Holds
<1>6. CurrentSafe' /\ RemovalOwed'
  BY <1>1, <1>3 DEF CurrentSafe, Answerable, RemovalOwed
<1> QED
  BY <1>4, <1>5, <1>6

\* A new installation takes the entry.
LEMMA InstallTokenKeeps == ChallengesInv /\ InstallToken => ChallengesInv'
<1> SUFFICES ASSUME ChallengesInv, InstallToken PROVE ChallengesInv'
  OBVIOUS
<1> USE DEF ChallengesInv
<1> DEFINE n == Issued
<1> DEFINE rec == [at |-> "installed", attempts |-> 0]
<1>1. /\ n < Installs /\ entry' = n + 1 /\ inserts' = Append(inserts, rec)
      /\ cancelled' = cancelled \cup ({entry} \ {0})
      /\ UNCHANGED <<removal, turns, flight, store, insertedOk, excused>>
  BY DEF InstallToken, NoTrouble
<1>2. /\ inserts \in Seq(InsertRecords) /\ n \in Nat /\ entry \in 0..n /\ record \in 0..n
      /\ flight \in -1..n /\ given \subseteq 0..n /\ cancelled \subseteq 1..n
      /\ insertedOk \subseteq 1..n /\ rec \in InsertRecords
  BY LenProperties, PartyFacts DEF ChallengeTypes, Issued, InsertRecords, InsertSteps
<1> HIDE DEF rec
<1>3. /\ inserts' \in Seq(InsertRecords) /\ Issued' = n + 1
      /\ (\A j \in 1..n : inserts'[j] = inserts[j]) /\ inserts'[n + 1] = rec
  BY <1>1, <1>2, AppendProperties DEF Issued
<1> HIDE DEF n
<1>4. ChallengeTypes'
  <2>1. n + 1 <= Installs /\ entry' \in 0..(n + 1) /\ record \in 0..(n + 1) /\ flight \in -1..(n + 1)
        /\ given \subseteq 0..(n + 1) /\ insertedOk \subseteq 1..(n + 1)
    BY <1>1, <1>2, PartyFacts
  <2>2. cancelled' \subseteq 1..(n + 1)
    BY <1>1, <1>2
  <2> QED
    BY <1>1, <1>3, <2>1, <2>2, PartyFacts DEF ChallengeTypes, InsertRecords, store
<1>5. BackgroundAhead'
  BY <1>1 DEF BackgroundAhead
<1>6. FlightHeld'
  <2>1. \A q \in Parties : \A op \in Int : Flies(q, op)' => Flies(q, op)
    <3> SUFFICES ASSUME NEW q \in Parties, NEW op \in Int, Flies(q, op)' PROVE Flies(q, op)
      OBVIOUS
    <3>1. CASE q \in 1..n
      BY <1>1, <1>3, <3>1 DEF Flies, n
    <3>2. CASE q = n + 1
      <4>1. inserts'[q].at = "installed"
        BY <1>3, <3>2 DEF rec
      <4>2. q \notin Removers
        BY <1>2, <3>2, PartyFacts
      <4> QED
        BY <4>1, <4>2 DEF Flies
    <3>3. CASE q \notin 1..(n + 1)
      BY <1>1, <1>3, <3>3 DEF Flies
    <3> QED
      BY <1>2, <3>1, <3>2, <3>3
  <2> QED
    BY <1>1, <2>1 DEF FlightHeld, Holds
<1>7. CurrentSafe'
  <2>1. n + 1 \notin cancelled' /\ n + 1 \notin insertedOk
    BY <1>1, <1>2
  <2> QED
    BY <1>1, <2>1 DEF CurrentSafe, Answerable
<1>8. RemovalOwed'
  BY <1>1, <1>2 DEF RemovalOwed
<1> QED
  BY <1>4, <1>5, <1>6, <1>7, <1>8

\* A new store has no token.
LEMMA ChallengesStart == ChallengesInit => ChallengesInv
<1> SUFFICES ASSUME ChallengesInit PROVE ChallengesInv
  OBVIOUS
<1>1. /\ inserts = <<>> /\ turns = <<>> /\ removal = [r \in Removers |-> "none"]
      /\ entry = 0 /\ record = 0 /\ flight = -1 /\ given = {} /\ cancelled = {} /\ insertedOk = {}
  BY PartyFacts DEF ChallengesInit
<1>2. Issued = 0 /\ Len(turns) = 0
  BY <1>1, EmptySeq DEF Issued
<1>3. ChallengeTypes
  BY <1>1, <1>2, EmptySeq, PartyFacts DEF ChallengeTypes, RemovalSteps
<1>4. BackgroundAhead
  BY <1>2 DEF BackgroundAhead
<1>5. FlightHeld
  BY <1>1, <1>2 DEF FlightHeld, Flies, Holds
<1>6. CurrentSafe /\ RemovalOwed
  BY <1>1 DEF CurrentSafe, Answerable, RemovalOwed
<1> QED
  BY <1>3, <1>4, <1>5, <1>6 DEF ChallengesInv

\* Every step of every party and of the store keeps the invariant.
LEMMA ChallengesInvStep == ChallengesInv /\ [ChallengesNext]_challengeVars => ChallengesInv'
<1> SUFFICES ASSUME ChallengesInv, [ChallengesNext]_challengeVars PROVE ChallengesInv'
  OBVIOUS
<1>1. CASE Lapse \/ \E op \in given : GivenUpExecutes(op)
  BY <1>1, StoreAloneKeeps
<1>2. CASE InstallToken
  BY <1>2, InstallTokenKeeps
<1>3. CASE BackgroundCompletes
  BY <1>3, BackgroundCompletesKeeps
<1>4. ASSUME NEW i \in 1..Issued,
             \/ InsertQueues(i) \/ InsertTimesOut(i) \/ InsertTurn(i) \/ InsertPublished(i)
             \/ PublishRetries(i) \/ PublishFails(i) \/ PublishAbandoned(i) \/ InsertDropped(i)
             \/ RefreshDue(i) \/ KeepaliveEnds(i) \/ RefreshSkipped(i) \/ RefreshTurn(i) \/ Refreshed(i)
             \/ RefreshAbandoned(i) \/ Rewithdrawn(i)
      PROVE  ChallengesInv'
  <2>1. CASE InsertQueues(i) \/ RefreshDue(i)
    BY <2>1, InsertQueuesKeeps
  <2>2. CASE InsertTimesOut(i)
    BY <2>2, InsertTimesOutKeeps
  <2>3. CASE InsertTurn(i) \/ RefreshTurn(i)
    BY <2>3, OwnerTurnKeeps
  <2>4. CASE InsertPublished(i)
    BY <2>4, StalePublishedKeeps, CurrentPublishedKeeps
  <2>5. CASE PublishRetries(i)
    BY <2>5, PublishRetriesKeeps
  <2>6. CASE PublishFails(i)
    BY <2>6, PublishFailsKeeps
  <2>7. CASE PublishAbandoned(i) \/ RefreshAbandoned(i)
    BY <2>7, AbandonedKeeps
  <2>8. CASE InsertDropped(i)
    BY <2>8, AbandonedKeeps, OwnerGivesUpKeeps
  <2>9. CASE KeepaliveEnds(i) \/ RefreshSkipped(i)
    BY <2>9, OwnerGivesUpKeeps
  <2>10. CASE Refreshed(i)
    BY <2>10, RefreshedKeeps
  <2>11. CASE Rewithdrawn(i)
    BY <2>11, RewithdrawnKeeps
  <2> QED
    BY <1>4, <2>1, <2>2, <2>3, <2>4, <2>5, <2>6, <2>7, <2>8, <2>9, <2>10, <2>11
<1>5. ASSUME NEW r \in Removers,
             \/ RemoveLocal(r) \/ RemovalQueues(r) \/ RemovalTurn(r) \/ RemovalSkipped(r)
             \/ Withdrawn(r) \/ WithdrawalAbandoned(r)
      PROVE  ChallengesInv'
  BY <1>5, RemoveLocalKeeps, RemovalQueuesKeeps, RemovalTurnKeeps, RemovalSkippedKeeps,
     WithdrawnKeeps, WithdrawalAbandonedKeeps
<1>6. CASE UNCHANGED challengeVars
  <2>1. Issued' = Issued
    BY <1>6 DEF challengeVars, Issued
  <2> USE <1>6, <2>1 DEF ChallengesInv, challengeVars
  <2>2. ChallengeTypes' /\ BackgroundAhead'
    BY DEF ChallengeTypes, BackgroundAhead
  <2>3. FlightHeld'
    BY DEF FlightHeld, Flies, Holds
  <2>4. CurrentSafe' /\ RemovalOwed'
    BY DEF CurrentSafe, Answerable, RemovalOwed
  <2> QED
    BY <2>2, <2>3, <2>4
<1> QED
  BY <1>1, <1>2, <1>3, <1>4, <1>5, <1>6 DEF ChallengesNext

\* The invariant implies what the token promises.
LEMMA ChallengesInvSuffices == ChallengesInv => ChallengesSound
<1> SUFFICES ASSUME ChallengesInv PROVE ChallengesSound
  OBVIOUS
<1> USE DEF ChallengesInv
<1>1. /\ Issued \in Nat /\ Issued <= Installs /\ turns \in Queue /\ record \in 0..Issued
  BY LenProperties DEF ChallengeTypes, Issued, Queue
<1>2. Queued \subseteq Owners \cup Removers \cup {Background}
  BY <1>1, HeadIs DEF Queued, Parties
<1>3. 1..Issued \subseteq Owners
  BY <1>1, PartyFacts DEF Owners
<1>4. ChallengesTypeOK
  BY <1>2, <1>3 DEF ChallengesTypeOK, ChallengeTypes
<1>5. Answerable /\ StaysWithdrawn
  BY <1>1 DEF CurrentSafe, StaysWithdrawn, RemovalOwed
<1> QED
  BY <1>4, <1>5 DEF ChallengesSound

\* However installations, refreshes and removals of one token take their turns at its
\* lock, and whatever the shared store loses, executes late or leaves to the background
\* (insert, spawn_keepalive, remove and cleanup_many of HttpChallengeStore): what the
\* issuer was told is ready is answered until it runs out, and what was removed stays
\* removed unless a withdrawal failed or was skipped.
THEOREM ChallengesSoundAlways == ChallengesSpec => []ChallengesSound
<1>1. ChallengesInit => ChallengesInv
  BY ChallengesStart
<1>2. ChallengesInv /\ [ChallengesNext]_challengeVars => ChallengesInv'
  BY ChallengesInvStep
<1>3. ChallengesInv => ChallengesSound
  BY ChallengesInvSuffices
<1> QED
  BY <1>1, <1>2, <1>3, PTL DEF ChallengesSpec

-----------------------------------------------------------------------------
(* DNS-01: orders and the cleanup ledger *)

OrderRecords ==
  [at : {"idle", "reconciling", "ordered", "authorizing", "presenting", "propagating", "cleaning",
         "failed"},
   value : Values \cup {ForeignRecord}, held : SUBSET Ids, todo : SUBSET Values]
ZoneContents == {{}} \cup {{v} : v \in Values \cup {ForeignRecord}}
PendingValues == {v \in Values : uncertain[v] > 0}

OrdersTypes ==
  /\ dnsProvider \in {"cloudflare", "webhook"}
  /\ zone \in [Ids -> ZoneContents] /\ created \in 1..MaxRecords
  /\ ownedReceipts \subseteq Ids /\ deferred \in [Ids -> Nat] /\ uncertain \in [Values -> Nat]
  /\ order \in OrderRecords /\ lateCreates \subseteq Values

\* Records are created in order; the first is somebody else's, and a provider
\* that refuses duplicates has each value once.
ZoneInv ==
  /\ \A i \in Ids : i > created => zone[i] = {} /\ deferred[i] = 0 /\ i \notin ownedReceipts
  /\ zone[1] = {ForeignRecord} /\ 1 \notin ownedReceipts
  /\ dnsProvider = "cloudflare" => \A v \in Values : \A i, j \in Matching(v) : i = j

\* What the order holds it has a receipt for, and it holds nothing at rest.
HeldOwned ==
  /\ order.held \subseteq ownedReceipts
  /\ order.at \in {"idle", "reconciling"} => order.held = {}
  /\ order.at = "presenting" => order.value \in Values

\* A presentation has its place in the ledger before the provider is touched.
RoomKept ==
  /\ Cardinality(ownedReceipts) + Cardinality(PendingValues) <= CleanupCapacity
  /\ order.at = "presenting" =>
       Cardinality(ownedReceipts) + Cardinality(PendingValues) < CleanupCapacity

\* Somebody's to remove.
Ours(i) == zone[i] \notin {{}, {ForeignRecord}}
Cared(i) ==
  \/ i \in order.held \/ deferred[i] > 0 \/ i \in orderExcused
  \/ \E v \in Values : zone[i] = {v} /\ uncertain[v] > 0
AllCared == \A i \in Ids : Ours(i) => Cared(i)
DeferredOwned == \A i \in Ids : deferred[i] > 0 /\ zone[i] # {} => i \in ownedReceipts

OrdersInv ==
  OrdersTypes /\ ZoneInv /\ HeldOwned /\ RoomKept /\ AllCared /\ DeferredOwned

\* The ledger's sets are finite, and one more element is one more at most.
LEMMA OneMore ==
  ASSUME NEW S, NEW T, NEW x, IsFiniteSet(T), S \subseteq T \cup {x}
  PROVE  IsFiniteSet(S) /\ Cardinality(S) \in Nat /\ Cardinality(T) \in Nat
         /\ Cardinality(S) <= Cardinality(T) + 1
<1>1. IsFiniteSet(T \cup {x}) /\ Cardinality(T \cup {x}) \in {Cardinality(T), Cardinality(T) + 1}
  BY FS_AddElement
<1>2. IsFiniteSet(S) /\ Cardinality(S) <= Cardinality(T \cup {x})
  BY <1>1, FS_Subset
<1>3. Cardinality(S) \in Nat /\ Cardinality(T) \in Nat
  BY <1>2, FS_CardinalityType
<1> QED
  BY <1>1, <1>2, <1>3

\* Receipts and uncertain presentations are finite sets.
LEMMA LedgerFinite ==
  ASSUME OrdersTypes
  PROVE  /\ IsFiniteSet(ownedReceipts) /\ Cardinality(ownedReceipts) \in Nat
         /\ IsFiniteSet(PendingValues) /\ Cardinality(PendingValues) \in Nat
<1>1. IsFiniteSet(Ids) /\ IsFiniteSet(Values)
  BY FS_Interval, AcmeOrdersAssumption DEF Ids
<1>2. IsFiniteSet(ownedReceipts) /\ IsFiniteSet(PendingValues)
  BY <1>1, FS_Subset DEF OrdersTypes, PendingValues
<1> QED
  BY <1>2, FS_CardinalityType

\* A smaller ledger has room if the larger one had.
LEMMA FewerReceipts ==
  ASSUME OrdersTypes, ownedReceipts' \subseteq ownedReceipts
  PROVE  Cardinality(ownedReceipts') \in Nat /\ Cardinality(ownedReceipts') <= Cardinality(ownedReceipts)
<1>1. IsFiniteSet(ownedReceipts')
  BY LedgerFinite, FS_Subset
<1> QED
  BY <1>1, LedgerFinite, FS_Subset, FS_CardinalityType

\* The same for uncertain presentations.
LEMMA FewerPending ==
  ASSUME OrdersTypes, PendingValues' \subseteq PendingValues
  PROVE  Cardinality(PendingValues') \in Nat /\ Cardinality(PendingValues') <= Cardinality(PendingValues)
<1>1. IsFiniteSet(PendingValues')
  BY LedgerFinite, FS_Subset
<1> QED
  BY <1>1, LedgerFinite, FS_Subset, FS_CardinalityType

\* The first record of an empty zone is somebody else's.
LEMMA OrdersStart == OrdersInit => OrdersInv
<1> SUFFICES ASSUME OrdersInit PROVE OrdersInv
  OBVIOUS
<1>1. zone = [i \in Ids |-> IF i = 1 THEN {ForeignRecord} ELSE {}] /\ created = 1
      /\ ownedReceipts = {} /\ deferred = [i \in Ids |-> 0] /\ uncertain = [v \in Values |-> 0]
      /\ order = NoOrder /\ lateCreates = {}
  BY DEF OrdersInit
<1>2. 1 \in Ids /\ created \in 1..MaxRecords /\ Ids \subseteq Nat
  BY <1>1, AcmeOrdersAssumption DEF Ids
<1>3. order.at = "idle" /\ order.held = {} /\ order \in OrderRecords
  BY <1>1 DEF NoOrder, OrderRecords
<1>4. OrdersTypes
  <2>1. zone \in [Ids -> ZoneContents]
    BY <1>1 DEF ZoneContents
  <2> QED
    BY <1>1, <1>2, <1>3, <2>1, AcmeOrdersAssumption DEF OrdersTypes, OrdersInit
<1>5. ZoneInv
  <2>1. \A v \in Values : Matching(v) = {}
    BY <1>1, AcmeOrdersAssumption DEF Matching, ForeignRecord
  <2> QED
    BY <1>1, <1>2, <2>1 DEF ZoneInv
<1>6. HeldOwned /\ DeferredOwned /\ AllCared
  BY <1>1, <1>3 DEF HeldOwned, DeferredOwned, AllCared, Ours
<1>7. RoomKept
  <2>1. PendingValues = {}
    BY <1>1 DEF PendingValues
  <2> QED
    BY <1>1, <1>3, <2>1, FS_EmptySet, AcmeOrdersAssumption DEF RoomKept
<1> QED
  BY <1>4, <1>5, <1>6, <1>7 DEF OrdersInv

\* The order moves on without touching the ledger.
LEMMA OrderMoves ==
  ASSUME OrdersInv, UNCHANGED <<dnsProvider, zone, created, ownedReceipts, Ledger>>,
         order' \in OrderRecords, order'.held = order.held, lateCreates' \subseteq Values,
         orderExcused \subseteq orderExcused',
         order'.at \in {"idle", "reconciling"} => order.held = {},
         order'.at = "presenting" =>
           /\ order'.value \in Values
           /\ Cardinality(ownedReceipts) + Cardinality(PendingValues) < CleanupCapacity
  PROVE  OrdersInv'
<1> USE DEF Ledger, OrdersInv
<1>1. OrdersTypes'
  BY DEF OrdersTypes
<1>2. ZoneInv'
  BY DEF ZoneInv, Matching
<1>3. HeldOwned'
  BY DEF HeldOwned
<1>4. RoomKept'
  BY DEF RoomKept, PendingValues
<1>5. AllCared' /\ DeferredOwned'
  BY DEF AllCared, DeferredOwned, Ours, Cared
<1> QED
  BY <1>1, <1>2, <1>3, <1>4, <1>5

\* Steps of the order that only move it on.
LEMMA QuietKeeps ==
  OrdersInv /\ (StartIssue \/ RetriesDone \/ Propagated \/ Collects \/ OrderFails \/ CancelIssue)
    => OrdersInv'
<1> SUFFICES ASSUME OrdersInv,
                    StartIssue \/ RetriesDone \/ Propagated \/ Collects \/ OrderFails \/ CancelIssue
             PROVE  OrdersInv'
  OBVIOUS
<1>1. /\ UNCHANGED <<dnsProvider, zone, created, ownedReceipts, Ledger, lateCreates, orderExcused>>
      /\ \/ order' = order
         \/ \E at \in {"reconciling", "ordered", "authorizing", "cleaning", "failed"} :
              order' = [order EXCEPT !.at = at] /\ (at = "reconciling" => order.at = "idle")
  BY DEF StartIssue, RetriesDone, Propagated, Collects, OrderFails, CancelIssue, Step
<1>2. order \in OrderRecords /\ lateCreates \subseteq Values
  BY DEF OrdersInv, OrdersTypes
<1>3. CASE order' = order
  BY <1>1, <1>2, <1>3, OrderMoves DEF OrdersInv, HeldOwned, RoomKept
<1>4. ASSUME NEW at \in {"reconciling", "ordered", "authorizing", "cleaning", "failed"},
             order' = [order EXCEPT !.at = at], at = "reconciling" => order.at = "idle"
      PROVE  OrdersInv'
  <2>1. order' \in OrderRecords /\ order'.held = order.held /\ order'.at = at
    BY <1>2, <1>4 DEF OrderRecords
  <2> QED
    BY <1>1, <1>2, <1>4, <2>1, OrderMoves DEF OrdersInv, HeldOwned
<1> QED
  BY <1>1, <1>3, <1>4

\* The authority names the authorizations that are still pending.
LEMMA NewOrderKeeps ==
  ASSUME OrdersInv, NEW pending \in SUBSET Values, NewOrder(pending)
  PROVE  OrdersInv'
<1>1. order \in OrderRecords /\ lateCreates \subseteq Values
  BY DEF OrdersInv, OrdersTypes
<1>2. order' \in OrderRecords /\ order'.held = order.held /\ order'.at = "authorizing"
  BY <1>1 DEF OrderRecords, NewOrder
<1> QED
  BY <1>1, <1>2, OrderMoves DEF NewOrder

\* Pending counts the uncertain presentations.
LEMMA PendingIs == OrdersTypes => Pending = Cardinality(PendingValues)
BY DEF Pending, PendingValues

\* A presentation starts only with room for it in the ledger.
LEMMA BeginPresentKeeps ==
  ASSUME OrdersInv, NEW v \in Values, BeginPresent(v)
  PROVE  OrdersInv'
<1>1. order \in OrderRecords /\ lateCreates \subseteq Values
  BY DEF OrdersInv, OrdersTypes
<1>2. order' \in OrderRecords /\ order'.held = order.held /\ order'.at = "presenting" /\ order'.value = v
  BY <1>1 DEF OrderRecords, BeginPresent
<1>3. Cardinality(ownedReceipts) + Cardinality(PendingValues) < CleanupCapacity
  BY PendingIs DEF BeginPresent, OrdersInv
<1> QED
  BY <1>1, <1>2, <1>3, OrderMoves DEF BeginPresent

\* A record is created in the first free place, and not twice by a provider that
\* refuses duplicates.
LEMMA RecordCreated ==
  ASSUME OrdersInv, NEW v \in Values, Creates(v), dnsProvider' = dnsProvider, deferred' = deferred,
         ownedReceipts' \in {ownedReceipts, ownedReceipts \cup (1..created' \cap {created + 1})}
  PROVE  /\ zone' \in [Ids -> ZoneContents] /\ created' \in 1..MaxRecords
         /\ created' \in {created, created + 1}
         /\ \A i \in Ids : zone'[i] = zone[i] \/ (i = created' /\ created' = created + 1 /\ zone'[i] = {v})
         /\ ownedReceipts' \subseteq Ids /\ ZoneInv'
<1> USE DEF OrdersInv
<1>1. zone \in [Ids -> ZoneContents] /\ created \in 1..MaxRecords /\ created \in Nat
      /\ {v} \in ZoneContents /\ ownedReceipts \subseteq Ids /\ MaxRecords \in Nat /\ v # ForeignRecord
  BY AcmeOrdersAssumption DEF OrdersTypes, ZoneContents, ForeignRecord
<1>2. CASE UNCHANGED <<zone, created>>
  <2>1. 1..created' \cap {created + 1} = {}
    BY <1>1, <1>2
  <2>2. ownedReceipts' = ownedReceipts
    BY <2>1
  <2>3. ZoneInv'
    BY <1>2, <2>2 DEF ZoneInv, Matching
  <2> QED
    BY <1>1, <1>2, <2>2, <2>3
<1>3. CASE /\ created < MaxRecords /\ created' = created + 1 /\ zone' = [zone EXCEPT ![created + 1] = {v}]
           /\ ~(dnsProvider = "cloudflare" /\ Matching(v) # {})
  <2>1. created + 1 \in Ids /\ created' \in 1..MaxRecords /\ created + 1 # 1
    BY <1>1, <1>3 DEF Ids
  <2>2. zone' \in [Ids -> ZoneContents] /\ zone'[created + 1] = {v}
        /\ \A i \in Ids \ {created + 1} : zone'[i] = zone[i]
    BY <1>1, <1>3, <2>1
  <2>3. ownedReceipts' \subseteq ownedReceipts \cup {created + 1}
    OBVIOUS
  <2>4. \A i \in Ids : i > created' => zone'[i] = {} /\ deferred'[i] = 0 /\ i \notin ownedReceipts'
    <3> SUFFICES ASSUME NEW i \in Ids, i > created'
                 PROVE  zone'[i] = {} /\ deferred'[i] = 0 /\ i \notin ownedReceipts'
      OBVIOUS
    <3>1. i > created /\ i # created + 1
      BY <1>1, <1>3 DEF Ids
    <3> QED
      BY <2>2, <2>3, <3>1 DEF ZoneInv
  <2>5. zone'[1] = {ForeignRecord} /\ 1 \notin ownedReceipts'
    <3>1. 1 \in Ids
      BY <1>1 DEF Ids
    <3> QED
      BY <2>1, <2>2, <2>3, <3>1 DEF ZoneInv
  <2>6. dnsProvider = "cloudflare" => \A w \in Values : \A i, j \in Matching(w)' : i = j
    <3> SUFFICES ASSUME dnsProvider = "cloudflare", NEW w \in Values,
                        NEW i \in Ids, NEW j \in Ids, zone'[i] = {w}, zone'[j] = {w}
                 PROVE  i = j
      BY DEF Matching
    <3>1. Matching(v) = {}
      BY <1>3
    <3>2. CASE w = v
      BY <2>2, <3>1, <3>2 DEF Matching
    <3>3. CASE w # v
      <4>1. zone[i] = {w} /\ zone[j] = {w}
        BY <2>2, <3>3
      <4> QED
        BY <4>1 DEF ZoneInv, Matching
    <3> QED
      BY <3>2, <3>3
  <2>7. ZoneInv'
    BY <2>4, <2>5, <2>6 DEF ZoneInv
  <2> QED
    BY <1>1, <1>3, <2>1, <2>2, <2>3, <2>7
<1> QED
  BY <1>2, <1>3 DEF Creates

\* The step of the order, seen from its record.
LEMMA PresentationEnds ==
  ASSUME OrdersInv, order.at = "presenting", NEW at \in {"propagating", "failed"},
         NEW h \in SUBSET Ids, order' = [order EXCEPT !.at = at, !.held = h]
  PROVE  order' \in OrderRecords /\ order'.at = at /\ order'.held = h
<1>1. order \in OrderRecords
  BY DEF OrdersInv, OrdersTypes
<1> QED
  BY <1>1 DEF OrderRecords

\* The provider answers with the record it created.
LEMMA PresentedKeeps == OrdersInv /\ Presented => OrdersInv'
<1> SUFFICES ASSUME OrdersInv, Presented PROVE OrdersInv'
  OBVIOUS
<1> USE DEF OrdersInv
<1>1. order.at = "presenting" /\ order.value \in Values /\ Creates(order.value)
      /\ dnsProvider' = dnsProvider /\ deferred' = deferred /\ uncertain' = uncertain
      /\ lateCreates' = lateCreates /\ orderExcused' = orderExcused
      /\ created \in 1..MaxRecords /\ created \in Nat
  BY DEF Presented, HeldOwned, Ledger, OrdersTypes
<1>2. created < MaxRecords /\ created' = created + 1
  BY <1>1 DEF Presented, Creates
<1>3. ownedReceipts' = ownedReceipts \cup {created + 1}
      /\ 1..created' \cap {created + 1} = {created + 1} /\ created + 1 \in Ids
  BY <1>1, <1>2, AcmeOrdersAssumption DEF Presented, Ids
<1>4. /\ zone' \in [Ids -> ZoneContents] /\ created' \in 1..MaxRecords
      /\ \A i \in Ids : zone'[i] = zone[i] \/ i = created + 1
      /\ ownedReceipts' \subseteq Ids /\ ZoneInv'
  BY <1>1, <1>2, <1>3, RecordCreated
<1>5. order' \in OrderRecords /\ order'.at = "propagating" /\ order'.held = order.held \cup {created + 1}
  <2>1. order' = [order EXCEPT !.at = "propagating", !.held = order.held \cup {created + 1}]
    BY DEF Presented
  <2>2. order.held \cup {created + 1} \in SUBSET Ids
    BY <1>3 DEF OrdersTypes, OrderRecords
  <2> QED
    BY <1>1, <2>1, <2>2, PresentationEnds
<1>6. OrdersTypes'
  BY <1>1, <1>4, <1>5 DEF OrdersTypes
<1>7. HeldOwned'
  BY <1>3, <1>5 DEF HeldOwned
<1>8. RoomKept'
  <2>1. PendingValues' = PendingValues
    BY <1>1 DEF PendingValues
  <2>2. Cardinality(ownedReceipts') \in Nat /\ Cardinality(ownedReceipts') <= Cardinality(ownedReceipts) + 1
    BY <1>3, LedgerFinite, OneMore
  <2>3. Cardinality(ownedReceipts) + Cardinality(PendingValues) < CleanupCapacity
    BY <1>1 DEF RoomKept
  <2> QED
    BY <1>5, <2>1, <2>2, <2>3, LedgerFinite, AcmeOrdersAssumption DEF RoomKept
<1>9. AllCared'
  BY <1>1, <1>4, <1>5 DEF AllCared, Ours, Cared
<1>10. DeferredOwned'
  BY <1>1, <1>3, <1>4 DEF DeferredOwned
<1> QED
  BY <1>4, <1>6, <1>7, <1>8, <1>9, <1>10

\* A presentation that stays uncertain takes the place reserved for it.
LEMMA DroppedIntent ==
  ASSUME OrdersInv, order.at = "presenting", DropIntent(order.value)
  PROVE  /\ uncertain' \in [Values -> Nat] /\ uncertain'[order.value] > 0
         /\ \A v \in Values : uncertain[v] > 0 => uncertain'[v] > 0
         /\ Cardinality(PendingValues') \in Nat
         /\ Cardinality(ownedReceipts) + Cardinality(PendingValues') <= CleanupCapacity
<1> USE DEF OrdersInv
<1>1. order.value \in Values /\ uncertain \in [Values -> Nat]
  BY DEF HeldOwned, OrdersTypes
<1>2. /\ uncertain' \in [Values -> Nat] /\ uncertain'[order.value] > 0
      /\ \A v \in Values \ {order.value} : uncertain'[v] = uncertain[v]
  BY <1>1 DEF DropIntent
<1>3. PendingValues' \subseteq PendingValues \cup {order.value}
  BY <1>2 DEF PendingValues
<1>4. Cardinality(PendingValues') \in Nat /\ Cardinality(PendingValues') <= Cardinality(PendingValues) + 1
  BY <1>3, LedgerFinite, OneMore
<1>5. Cardinality(ownedReceipts) + Cardinality(PendingValues) < CleanupCapacity
  BY DEF RoomKept
<1>6. Cardinality(ownedReceipts) + Cardinality(PendingValues') <= CleanupCapacity
  BY <1>4, <1>5, LedgerFinite, AcmeOrdersAssumption
<1> QED
  BY <1>1, <1>2, <1>4, <1>6

\* A presentation without an answer stays uncertain, whatever became of its record.
LEMMA PresentDroppedKeeps ==
  ASSUME OrdersInv, NEW outcome \in {"executed", "late", "never"}, PresentDropped(outcome)
  PROVE  OrdersInv'
<1> USE DEF OrdersInv
<1>1. order.at = "presenting" /\ order.value \in Values /\ DropIntent(order.value)
      /\ dnsProvider' = dnsProvider /\ deferred' = deferred /\ ownedReceipts' = ownedReceipts
      /\ orderExcused' = orderExcused /\ lateCreates' \subseteq Values
      /\ (Creates(order.value) \/ UNCHANGED <<zone, created>>)
  BY DEF PresentDropped, HeldOwned, OrdersTypes
<1>2. /\ zone' \in [Ids -> ZoneContents] /\ created' \in 1..MaxRecords /\ ZoneInv'
      /\ \A i \in Ids : zone'[i] = zone[i] \/ (zone'[i] = {order.value} /\ i > created)
  <2>1. CASE Creates(order.value)
    <3>1. created \in Nat
      BY DEF OrdersTypes
    <3> QED
      BY <1>1, <2>1, <3>1, RecordCreated
  <2>2. CASE UNCHANGED <<zone, created>>
    BY <1>1, <2>2 DEF OrdersTypes, ZoneInv, Matching
  <2> QED
    BY <1>1, <2>1, <2>2
<1>3. order' \in OrderRecords /\ order'.at = "failed" /\ order'.held = order.held
  <2>1. order \in OrderRecords /\ order' = [order EXCEPT !.at = "failed"]
    BY DEF PresentDropped, Step, OrdersTypes
  <2> QED
    BY <2>1 DEF OrderRecords
<1>4. OrdersTypes'
  BY <1>1, <1>2, <1>3, DroppedIntent DEF OrdersTypes
<1>5. HeldOwned'
  BY <1>1, <1>3 DEF HeldOwned
<1>6. RoomKept'
  BY <1>1, <1>3, DroppedIntent DEF RoomKept
<1>7. AllCared'
  <2> SUFFICES ASSUME NEW i \in Ids, Ours(i)' PROVE Cared(i)'
    BY DEF AllCared
  <2>1. CASE zone'[i] = zone[i]
    <3>1. Cared(i)
      BY <2>1 DEF AllCared, Ours
    <3> QED
      BY <1>1, <1>3, <2>1, <3>1, DroppedIntent DEF Cared
  <2>2. CASE zone'[i] = {order.value}
    BY <1>1, <2>2, DroppedIntent DEF Cared
  <2> QED
    BY <1>2, <2>1, <2>2
<1>8. DeferredOwned'
  BY <1>1, <1>2 DEF DeferredOwned, ZoneInv
<1> QED
  BY <1>2, <1>4, <1>5, <1>6, <1>7, <1>8

\* A provider that refuses duplicates names the one record there is.
LEMMA AdoptRecordKeeps == OrdersInv /\ AdoptRecord => OrdersInv'
<1> SUFFICES ASSUME OrdersInv, AdoptRecord PROVE OrdersInv'
  OBVIOUS
<1> USE DEF OrdersInv
<1>1. order.at = "presenting" /\ order.value \in Values /\ dnsProvider = "cloudflare"
      /\ Matching(order.value) # {}
      /\ UNCHANGED <<dnsProvider, zone, created, deferred, lateCreates, orderExcused>>
  BY DEF AdoptRecord, HeldOwned
<1>2. PICK m : Matching(order.value) = {m}
  BY <1>1 DEF ZoneInv
<1>3. m \in Ids /\ zone[m] = {order.value} /\ m # 1 /\ ~(m > created) /\ Cardinality({m}) = 1
  <2>1. m \in Ids /\ zone[m] = {order.value}
    BY <1>2 DEF Matching
  <2>2. order.value # ForeignRecord
    BY <1>1, AcmeOrdersAssumption DEF ForeignRecord
  <2> QED
    BY <2>1, <2>2, FS_Singleton DEF ZoneInv
<1>4. ownedReceipts' = ownedReceipts \cup {m} /\ uncertain' = uncertain
      /\ order' = [order EXCEPT !.at = "propagating", !.held = order.held \cup {m}]
  BY <1>2, <1>3 DEF AdoptRecord
<1>5. order' \in OrderRecords /\ order'.at = "propagating" /\ order'.held = order.held \cup {m}
  <2>1. order.held \cup {m} \in SUBSET Ids
    BY <1>3 DEF OrdersTypes, OrderRecords
  <2> QED
    BY <1>1, <1>4, <2>1, PresentationEnds
<1>6. OrdersTypes'
  BY <1>1, <1>3, <1>4, <1>5 DEF OrdersTypes
<1>7. ZoneInv'
  BY <1>1, <1>3, <1>4 DEF ZoneInv, Matching
<1>8. HeldOwned'
  BY <1>4, <1>5 DEF HeldOwned
<1>9. RoomKept'
  <2>1. PendingValues' = PendingValues
    BY <1>4 DEF PendingValues
  <2>2. Cardinality(ownedReceipts') \in Nat /\ Cardinality(ownedReceipts') <= Cardinality(ownedReceipts) + 1
    BY <1>4, LedgerFinite, OneMore
  <2>3. Cardinality(ownedReceipts) + Cardinality(PendingValues) < CleanupCapacity
    BY <1>1 DEF RoomKept
  <2> QED
    BY <1>5, <2>1, <2>2, <2>3, LedgerFinite, AcmeOrdersAssumption DEF RoomKept
<1>10. AllCared' /\ DeferredOwned'
  BY <1>1, <1>4, <1>5 DEF AllCared, Ours, Cared, DeferredOwned
<1> QED
  BY <1>6, <1>7, <1>8, <1>9, <1>10

\* A request nobody waits for: its record is uncertain, or nobody's to know.
LEMMA LateCreateKeeps ==
  ASSUME OrdersInv, NEW v \in Values, LateCreate(v)
  PROVE  OrdersInv'
<1> USE DEF OrdersInv
<1>1. /\ Creates(v) /\ lateCreates' \subseteq Values
      /\ UNCHANGED <<dnsProvider, ownedReceipts, deferred, uncertain, order>>
      /\ orderExcused \subseteq orderExcused'
      /\ created' # created => uncertain[v] > 0 \/ created' \in orderExcused'
  BY DEF LateCreate, Ledger, OrdersTypes
<1>2. /\ zone' \in [Ids -> ZoneContents] /\ created' \in 1..MaxRecords /\ ZoneInv'
      /\ \A i \in Ids : zone'[i] = zone[i]
            \/ (i = created' /\ created' # created /\ zone'[i] = {v} /\ i > created)
  <2>1. created \in Nat
    BY DEF OrdersTypes
  <2> QED
    BY <1>1, <2>1, RecordCreated
<1>3. OrdersTypes' /\ HeldOwned'
  BY <1>1, <1>2 DEF OrdersTypes, HeldOwned
<1>4. RoomKept'
  BY <1>1 DEF RoomKept, PendingValues
<1>5. AllCared'
  BY <1>1, <1>2 DEF AllCared, Ours, Cared
<1>6. DeferredOwned'
  BY <1>1, <1>2 DEF DeferredOwned, ZoneInv
<1> QED
  BY <1>2, <1>3, <1>4, <1>5, <1>6

\* Deleting records keeps the zone in order.
LEMMA ZoneLoses ==
  ASSUME OrdersInv, UNCHANGED <<dnsProvider, created>>, zone' \in [Ids -> ZoneContents],
         \A i \in Ids : zone'[i] = zone[i] \/ (zone'[i] = {} /\ i # 1),
         1 \notin ownedReceipts',
         \A i \in Ids : i > created => deferred'[i] = 0 /\ i \notin ownedReceipts'
  PROVE  ZoneInv'
<1> USE DEF OrdersInv
<1>1. \A i \in Ids : i > created' => zone'[i] = {} /\ deferred'[i] = 0 /\ i \notin ownedReceipts'
  BY DEF ZoneInv
<1>2. zone'[1] = {ForeignRecord}
  <2>1. 1 \in Ids
    BY AcmeOrdersAssumption DEF Ids
  <2> QED
    BY <2>1 DEF ZoneInv
<1>3. dnsProvider = "cloudflare" => \A v \in Values : \A i, j \in Matching(v)' : i = j
  <2>1. \A v \in Values : Matching(v)' \subseteq Matching(v)
    BY DEF Matching
  <2> QED
    BY <2>1 DEF ZoneInv
<1> QED
  BY <1>1, <1>2, <1>3 DEF ZoneInv

\* The end of an order: every record it holds is deleted or waits for a retry.
LEMMA CleanUpKeeps ==
  ASSUME OrdersInv, NEW failed \in SUBSET order.held, NEW unheard \in SUBSET order.held,
         CleanUp(failed, unheard)
  PROVE  OrdersInv'
<1> USE DEF OrdersInv
<1> DEFINE Later == failed \cup unheard
<1>1. /\ UNCHANGED <<dnsProvider, created, uncertain, lateCreates, orderExcused>>
      /\ order' = NoOrder /\ deferred' = Deferred(Later)
      /\ zone' = [i \in Ids |-> IF i \in order.held \ failed /\ i \in ownedReceipts THEN {} ELSE zone[i]]
      /\ ownedReceipts' = ownedReceipts \ (order.held \ Later)
  BY DEF CleanUp, Cleaned, CleanupDefers, Deletable
<1>2. /\ zone \in [Ids -> ZoneContents] /\ {} \in ZoneContents /\ order.held \subseteq Ids
      /\ deferred \in [Ids -> Nat] /\ order.held \subseteq ownedReceipts /\ Later \subseteq order.held
      /\ 1 \notin ownedReceipts /\ ownedReceipts \subseteq Ids
  BY DEF OrdersTypes, ZoneContents, OrderRecords, HeldOwned, ZoneInv
<1>3. /\ zone' \in [Ids -> ZoneContents]
      /\ \A i \in Ids : zone'[i] = IF i \in order.held \ failed THEN {} ELSE zone[i]
  BY <1>1, <1>2
<1>4. /\ deferred' \in [Ids -> Nat] /\ \A i \in Later : deferred'[i] > 0
      /\ \A i \in Ids : deferred[i] > 0 => deferred'[i] > 0
      /\ \A i \in Ids \ Later : deferred'[i] = deferred[i]
  <2> HIDE DEF Later
  <2>1. deferred' = [i \in Ids |-> IF i \in Later /\ deferred[i] = 0 THEN 1 ELSE deferred[i]]
    BY <1>1 DEF Deferred
  <2> QED
    BY <1>2, <2>1
<1>5. order'.at = "idle" /\ order'.held = {} /\ order' \in OrderRecords
  BY <1>1 DEF NoOrder, OrderRecords
<1>6. ownedReceipts' \subseteq ownedReceipts /\ Later \subseteq ownedReceipts'
  BY <1>1, <1>2
<1> HIDE DEF Later
<1>7. OrdersTypes'
  BY <1>1, <1>2, <1>3, <1>4, <1>5, <1>6 DEF OrdersTypes
<1>8. ZoneInv'
  <2>1. \A i \in Ids : i > created => deferred'[i] = 0 /\ i \notin ownedReceipts'
    BY <1>2, <1>4, <1>6 DEF ZoneInv
  <2> QED
    BY <1>1, <1>2, <1>3, <1>6, <2>1, ZoneLoses
<1>9. HeldOwned'
  BY <1>5 DEF HeldOwned
<1>10. RoomKept'
  <2>1. PendingValues' = PendingValues
    BY <1>1 DEF PendingValues
  <2> QED
    BY <1>5, <1>6, <2>1, LedgerFinite, FewerReceipts, AcmeOrdersAssumption DEF RoomKept
<1>11. AllCared'
  <2> SUFFICES ASSUME NEW i \in Ids, Ours(i)' PROVE Cared(i)'
    BY DEF AllCared
  <2>1. zone'[i] = zone[i] /\ i \notin order.held \ failed
    BY <1>3 DEF Ours
  <2>2. Cared(i)
    BY <2>1 DEF AllCared, Ours
  <2>3. CASE i \in order.held
    BY <1>4, <2>1, <2>3 DEF Cared, Later
  <2> QED
    BY <1>1, <1>4, <2>1, <2>2, <2>3 DEF Cared
<1>12. DeferredOwned'
  <2> SUFFICES ASSUME NEW i \in Ids, deferred'[i] > 0, zone'[i] # {} PROVE i \in ownedReceipts'
    BY DEF DeferredOwned
  <2>1. zone'[i] = zone[i] /\ i \notin order.held \ failed
    BY <1>3
  <2>2. CASE i \in Later
    BY <1>6, <2>2
  <2>3. CASE i \notin Later
    <3>1. i \in ownedReceipts
      BY <1>4, <2>1, <2>3 DEF DeferredOwned
    <3> QED
      BY <1>1, <2>1, <3>1 DEF Later
  <2> QED
    BY <2>2, <2>3
<1> QED
  BY <1>7, <1>8, <1>9, <1>10, <1>11, <1>12

\* An uncertain presentation that is settled gives its place to at most one
\* receipt.
LEMMA Settled ==
  ASSUME OrdersTypes, NEW v \in Values, uncertain[v] > 0, uncertain' = [uncertain EXCEPT ![v] = 0]
  PROVE  /\ uncertain' \in [Values -> Nat] /\ uncertain'[v] = 0
         /\ \A w \in Values \ {v} : uncertain'[w] = uncertain[w]
         /\ Cardinality(PendingValues') \in Nat
         /\ Cardinality(PendingValues') = Cardinality(PendingValues) - 1
<1>1. uncertain \in [Values -> Nat]
  BY DEF OrdersTypes
<1>2. uncertain' \in [Values -> Nat] /\ uncertain'[v] = 0
      /\ \A w \in Values \ {v} : uncertain'[w] = uncertain[w]
  BY <1>1
<1>3. PendingValues' = PendingValues \ {v} /\ v \in PendingValues
  BY <1>1, <1>2 DEF PendingValues
<1>4. IsFiniteSet(PendingValues \ {v}) /\ Cardinality(PendingValues \ {v}) = Cardinality(PendingValues) - 1
  BY <1>3, LedgerFinite, FS_RemoveElement
<1> QED
  BY <1>2, <1>3, <1>4, FS_CardinalityType

\* An uncertain presentation is settled: its record gets a receipt or is deleted.
LEMMA ReconcileRecordKeeps ==
  ASSUME OrdersInv, NEW v \in Values, ReconcileRecord(v)
  PROVE  OrdersInv'
<1> USE DEF OrdersInv
<1>1. /\ UNCHANGED <<dnsProvider, created, order, lateCreates, orderExcused>>
      /\ uncertain[v] > 0 /\ uncertain' = [uncertain EXCEPT ![v] = 0]
      /\ order.at \in {"idle", "reconciling"} /\ order.held = {}
  BY DEF ReconcileRecord, Busy, HeldOwned
<1>2. /\ zone \in [Ids -> ZoneContents] /\ {} \in ZoneContents /\ deferred \in [Ids -> Nat]
      /\ ownedReceipts \subseteq Ids /\ 1 \notin ownedReceipts /\ v # ForeignRecord
      /\ 1 \in Ids /\ zone[1] = {ForeignRecord}
  BY AcmeOrdersAssumption DEF OrdersTypes, ZoneContents, ZoneInv, ForeignRecord, Ids
<1>3. /\ uncertain' \in [Values -> Nat] /\ uncertain'[v] = 0
      /\ \A w \in Values \ {v} : uncertain'[w] = uncertain[w]
      /\ Cardinality(PendingValues') \in Nat
      /\ Cardinality(PendingValues') = Cardinality(PendingValues) - 1
  BY <1>1, Settled
<1>4. CASE dnsProvider = "cloudflare"
  <2>1. PICK m : Matching(v) \subseteq {m}
    <3>1. CASE Matching(v) = {}
      BY <3>1
    <3>2. CASE Matching(v) # {}
      <4>1. PICK m : m \in Matching(v)
        BY <3>2
      <4> QED
        BY <1>4, <4>1 DEF ZoneInv
    <3> QED
      BY <3>1, <3>2
  <2>2. zone' = zone /\ ownedReceipts' = ownedReceipts \cup Matching(v) /\ deferred' = Deferred(Matching(v))
    BY <1>4 DEF ReconcileRecord
  <2>3. Matching(v) \subseteq Ids /\ 1 \notin Matching(v) /\ (\A i \in Matching(v) : ~(i > created))
        /\ (\A i \in Ids : i \in Matching(v) <=> zone[i] = {v})
    BY <1>2 DEF Matching, ZoneInv
  <2>4. /\ deferred' \in [Ids -> Nat] /\ \A i \in Matching(v) : deferred'[i] > 0
        /\ \A i \in Ids : deferred[i] > 0 => deferred'[i] > 0
        /\ \A i \in Ids \ Matching(v) : deferred'[i] = deferred[i]
    <3> DEFINE M == Matching(v)
    <3>1. deferred' = [i \in Ids |-> IF i \in M /\ deferred[i] = 0 THEN 1 ELSE deferred[i]] /\ M \subseteq Ids
      BY <2>2, <2>3 DEF Deferred
    <3> HIDE DEF M
    <3>2. /\ deferred' \in [Ids -> Nat] /\ \A i \in M : deferred'[i] > 0
          /\ \A i \in Ids : deferred[i] > 0 => deferred'[i] > 0
          /\ \A i \in Ids \ M : deferred'[i] = deferred[i]
      BY <1>2, <3>1
    <3> QED
      BY <3>2 DEF M
  <2>5. OrdersTypes' /\ HeldOwned'
    BY <1>1, <1>2, <1>3, <2>2, <2>3, <2>4 DEF OrdersTypes, HeldOwned
  <2>6. ZoneInv'
    <3>1. \A i \in Ids : i > created => deferred'[i] = 0 /\ i \notin ownedReceipts'
      BY <2>2, <2>3, <2>4 DEF ZoneInv
    <3> QED
      BY <1>1, <1>2, <2>2, <2>3, <3>1, ZoneLoses
  <2>7. RoomKept'
    <3>1. Cardinality(ownedReceipts') \in Nat /\ Cardinality(ownedReceipts') <= Cardinality(ownedReceipts) + 1
      <4>1. ownedReceipts' \subseteq ownedReceipts \cup {m}
        BY <2>1, <2>2
      <4> QED
        BY <4>1, LedgerFinite, OneMore
    <3> QED
      BY <1>1, <1>3, <3>1, LedgerFinite, AcmeOrdersAssumption DEF RoomKept
  <2>8. AllCared'
    <3> SUFFICES ASSUME NEW i \in Ids, Ours(i)' PROVE Cared(i)'
      BY DEF AllCared
    <3>1. Cared(i)
      BY <2>2 DEF AllCared, Ours
    <3>2. CASE i \in Matching(v)
      BY <2>4, <3>2 DEF Cared
    <3>3. CASE i \notin Matching(v)
      <4>1. zone'[i] = zone[i] /\ zone[i] # {v} /\ deferred'[i] = deferred[i]
            /\ order' = order /\ orderExcused' = orderExcused
        BY <1>1, <2>2, <2>3, <2>4, <3>3
      <4>2. (\E w \in Values : zone[i] = {w} /\ uncertain[w] > 0)
              => \E w \in Values : zone'[i] = {w} /\ uncertain'[w] > 0
        BY <1>3, <4>1
      <4> QED
        BY <3>1, <4>1, <4>2 DEF Cared
    <3> QED
      BY <3>2, <3>3
  <2>9. DeferredOwned'
    BY <2>2, <2>4 DEF DeferredOwned
  <2> QED
    BY <2>5, <2>6, <2>7, <2>8, <2>9
<1>5. CASE dnsProvider # "cloudflare"
  <2>1. zone' = [i \in Ids |-> IF i \in Matching(v) THEN {} ELSE zone[i]]
        /\ ownedReceipts' = ownedReceipts /\ deferred' = deferred
    BY <1>5 DEF ReconcileRecord
  <2>2. /\ zone' \in [Ids -> ZoneContents]
        /\ \A i \in Ids : zone'[i] = zone[i] \/ (zone'[i] = {} /\ i # 1)
        /\ \A i \in Ids : zone'[i] # {v}
    BY <1>2, <2>1 DEF Matching
  <2>3. OrdersTypes' /\ HeldOwned'
    BY <1>1, <1>2, <1>3, <2>1, <2>2 DEF OrdersTypes, HeldOwned
  <2>4. ZoneInv'
    BY <1>1, <1>2, <2>1, <2>2, ZoneLoses DEF ZoneInv
  <2>5. RoomKept'
    BY <1>1, <1>3, <2>1, LedgerFinite, AcmeOrdersAssumption DEF RoomKept
  <2>6. AllCared'
    <3> SUFFICES ASSUME NEW i \in Ids, Ours(i)' PROVE Cared(i)'
      BY DEF AllCared
    <3>1. zone'[i] = zone[i]
      BY <2>2 DEF Ours
    <3>2. Cared(i)
      BY <3>1 DEF AllCared, Ours
    <3> QED
      BY <1>1, <1>3, <2>1, <2>2, <3>1, <3>2 DEF Cared
  <2>7. DeferredOwned'
    BY <2>1, <2>2 DEF DeferredOwned
  <2> QED
    BY <2>3, <2>4, <2>5, <2>6, <2>7
<1> QED
  BY <1>4, <1>5

\* An uncertain presentation that cannot be settled is tried again or given up.
LEMMA ReconcileFailsKeeps ==
  ASSUME OrdersInv, NEW v \in Values, ReconcileFails(v)
  PROVE  OrdersInv'
<1> USE DEF OrdersInv
<1>1. /\ UNCHANGED <<dnsProvider, zone, created, ownedReceipts, deferred, order, lateCreates>>
      /\ uncertain[v] > 0 /\ uncertain \in [Values -> Nat]
      /\ uncertain' = [uncertain EXCEPT ![v] = IF @ >= CleanupAttempts THEN 0 ELSE @ + 1]
      /\ orderExcused' = IF uncertain[v] >= CleanupAttempts
                         THEN orderExcused \cup Matching(v) ELSE orderExcused
  BY DEF ReconcileFails, OrdersTypes
<1>2. /\ uncertain' \in [Values -> Nat] /\ \A w \in Values \ {v} : uncertain'[w] = uncertain[w]
      /\ uncertain[v] >= CleanupAttempts \/ uncertain'[v] > 0
  BY <1>1
<1>3. OrdersTypes' /\ HeldOwned' /\ DeferredOwned'
  BY <1>1, <1>2 DEF OrdersTypes, HeldOwned, DeferredOwned
<1>4. ZoneInv'
  BY <1>1 DEF ZoneInv, Matching
<1>5. RoomKept'
  <2>1. PendingValues' \subseteq PendingValues
    BY <1>1, <1>2 DEF PendingValues
  <2> QED
    BY <1>1, <2>1, FewerPending, LedgerFinite, AcmeOrdersAssumption DEF RoomKept
<1>6. AllCared'
  <2> SUFFICES ASSUME NEW i \in Ids, Ours(i)' PROVE Cared(i)'
    BY DEF AllCared
  <2>1. Cared(i)
    BY <1>1 DEF AllCared, Ours
  <2>2. CASE zone[i] = {v} /\ uncertain[v] >= CleanupAttempts
    BY <1>1, <2>2 DEF Cared, Matching
  <2>3. CASE ~(zone[i] = {v} /\ uncertain[v] >= CleanupAttempts)
    BY <1>1, <1>2, <2>1, <2>3 DEF Cared
  <2> QED
    BY <2>2, <2>3
<1> QED
  BY <1>3, <1>4, <1>5, <1>6

\* A deferred cleanup: the receipt goes with the record, or when it is given up.
LEMMA DeferredTried ==
  ASSUME OrdersInv, NEW i \in Ids, deferred[i] > 0,
         UNCHANGED <<dnsProvider, created, uncertain, order, lateCreates>>,
         order.at \in {"idle", "reconciling"}, NEW n \in Nat, deferred' = [deferred EXCEPT ![i] = n],
         zone' \in [Ids -> ZoneContents], \A j \in Ids \ {i} : zone'[j] = zone[j],
         zone'[i] = zone[i] \/ (zone'[i] = {} /\ i \in ownedReceipts),
         ownedReceipts' = ownedReceipts \/ (ownedReceipts' = ownedReceipts \ {i} /\ n = 0),
         orderExcused \subseteq orderExcused',
         n > 0 \/ zone'[i] = {} \/ i \in orderExcused'
  PROVE  OrdersInv'
<1> USE DEF OrdersInv
<1>1. /\ zone \in [Ids -> ZoneContents] /\ deferred \in [Ids -> Nat]
      /\ ownedReceipts \subseteq Ids /\ 1 \notin ownedReceipts /\ order.held = {}
  BY DEF OrdersTypes, ZoneInv, HeldOwned
<1>2. deferred' \in [Ids -> Nat] /\ deferred'[i] = n /\ \A j \in Ids \ {i} : deferred'[j] = deferred[j]
  BY <1>1
<1>3. ownedReceipts' \subseteq ownedReceipts /\ \A j \in ownedReceipts : j # i \/ n > 0 => j \in ownedReceipts'
  OBVIOUS
<1>4. OrdersTypes' /\ HeldOwned'
  BY <1>1, <1>2, <1>3 DEF OrdersTypes, HeldOwned
<1>5. ZoneInv'
  <2>1. ~(i > created)
    BY DEF ZoneInv
  <2> QED
    BY <1>1, <1>2, <1>3, <2>1, ZoneLoses DEF ZoneInv
<1>6. RoomKept'
  <2>1. PendingValues' = PendingValues
    BY DEF PendingValues
  <2> QED
    BY <1>3, <2>1, FewerReceipts, LedgerFinite, AcmeOrdersAssumption DEF RoomKept
<1>7. AllCared'
  <2> SUFFICES ASSUME NEW j \in Ids, Ours(j)' PROVE Cared(j)'
    BY DEF AllCared
  <2>1. CASE j = i
    BY <1>2, <2>1 DEF Cared, Ours
  <2>2. CASE j # i
    <3>1. Cared(j)
      BY <2>2 DEF AllCared, Ours
    <3> QED
      BY <1>2, <2>2, <3>1 DEF Cared
  <2> QED
    BY <2>1, <2>2
<1>8. DeferredOwned'
  BY <1>2, <1>3 DEF DeferredOwned
<1> QED
  BY <1>4, <1>5, <1>6, <1>7, <1>8

\* A deferred cleanup succeeds.
LEMMA RetryCleanupKeeps ==
  ASSUME OrdersInv, NEW i \in Ids, RetryCleanup(i)
  PROVE  OrdersInv'
<1>1. /\ deferred[i] > 0 /\ order.at \in {"idle", "reconciling"} /\ i \in ownedReceipts
      /\ UNCHANGED <<dnsProvider, created, uncertain, order, lateCreates, orderExcused>>
      /\ deferred' = [deferred EXCEPT ![i] = 0] /\ ownedReceipts' = ownedReceipts \ {i}
      /\ zone' = [j \in Ids |-> IF j = i THEN {} ELSE zone[j]]
  BY DEF RetryCleanup, Busy, Cleaned, Deletable
<1>2. zone' \in [Ids -> ZoneContents] /\ zone'[i] = {} /\ \A j \in Ids \ {i} : zone'[j] = zone[j]
  <2>1. zone \in [Ids -> ZoneContents] /\ {} \in ZoneContents
    BY DEF OrdersInv, OrdersTypes, ZoneContents
  <2> QED
    BY <1>1, <2>1
<1> QED
  BY <1>1, <1>2, DeferredTried

\* A deferred cleanup fails, for another try or for good.
LEMMA RetryFailsKeeps ==
  ASSUME OrdersInv, NEW i \in Ids, NEW gone \in BOOLEAN, RetryFails(i, gone)
  PROVE  OrdersInv'
<1>1. /\ deferred[i] > 0 /\ order.at \in {"idle", "reconciling"}
      /\ UNCHANGED <<dnsProvider, created, uncertain, order, lateCreates>>
      /\ zone' = zone \/ (zone' = [zone EXCEPT ![i] = {}] /\ i \in ownedReceipts)
  BY DEF RetryFails, Busy, Deletable
<1>2. /\ zone' \in [Ids -> ZoneContents] /\ \A j \in Ids \ {i} : zone'[j] = zone[j]
      /\ zone'[i] = zone[i] \/ (zone'[i] = {} /\ i \in ownedReceipts)
      /\ deferred[i] \in Nat
  <2>1. zone \in [Ids -> ZoneContents] /\ {} \in ZoneContents /\ deferred \in [Ids -> Nat]
    BY DEF OrdersInv, OrdersTypes, ZoneContents
  <2> QED
    BY <1>1, <2>1
<1>3. CASE deferred[i] >= CleanupAttempts
  <2>1. deferred' = [deferred EXCEPT ![i] = 0] /\ ownedReceipts' = ownedReceipts \ {i}
        /\ orderExcused' = orderExcused \cup {i}
    BY <1>3 DEF RetryFails
  <2> QED
    BY <1>1, <1>2, <2>1, DeferredTried
<1>4. CASE ~(deferred[i] >= CleanupAttempts)
  <2>1. deferred' = [deferred EXCEPT ![i] = deferred[i] + 1] /\ ownedReceipts' = ownedReceipts
        /\ orderExcused' = orderExcused
    BY <1>4 DEF RetryFails
  <2>2. deferred[i] + 1 \in Nat /\ deferred[i] + 1 > 0
    BY <1>2
  <2> QED
    BY <1>1, <1>2, <2>1, <2>2, DeferredTried
<1> QED
  BY <1>3, <1>4

\* A new provider starts with an empty ledger; what the old one left is excused.
LEMMA ProviderReplacedKeeps == OrdersInv /\ ProviderReplaced => OrdersInv'
<1> SUFFICES ASSUME OrdersInv, ProviderReplaced PROVE OrdersInv'
  OBVIOUS
<1> USE DEF OrdersInv
<1>1. /\ UNCHANGED <<dnsProvider, zone, created, order, lateCreates>> /\ order.at = "idle"
      /\ ownedReceipts' = {} /\ deferred' = [i \in Ids |-> 0] /\ uncertain' = [v \in Values |-> 0]
      /\ orderExcused' = orderExcused \cup {i \in Ids : Ours(i)}
      /\ order.held = {}
  BY DEF ProviderReplaced, Ours, HeldOwned
<1>2. OrdersTypes' /\ HeldOwned' /\ DeferredOwned'
  BY <1>1 DEF OrdersTypes, HeldOwned, DeferredOwned
<1>3. ZoneInv'
  BY <1>1 DEF ZoneInv, Matching
<1>4. RoomKept'
  <2>1. PendingValues' = {}
    BY <1>1 DEF PendingValues
  <2> QED
    BY <1>1, <2>1, FS_EmptySet, AcmeOrdersAssumption DEF RoomKept
<1>5. AllCared'
  BY <1>1 DEF AllCared, Ours, Cared
<1> QED
  BY <1>2, <1>3, <1>4, <1>5

\* Every step of the orders and of the provider keeps the ledger exact.
LEMMA OrdersInvStep == OrdersInv /\ [OrdersNext]_orderVars => OrdersInv'
<1> SUFFICES ASSUME OrdersInv, [OrdersNext]_orderVars PROVE OrdersInv'
  OBVIOUS
<1>1. CASE StartIssue \/ RetriesDone \/ Propagated \/ Collects \/ OrderFails \/ CancelIssue
  BY <1>1, QuietKeeps
<1>2. CASE Presented
  BY <1>2, PresentedKeeps
<1>3. CASE AdoptRecord
  BY <1>3, AdoptRecordKeeps
<1>4. CASE ProviderReplaced
  BY <1>4, ProviderReplacedKeeps
<1>5. CASE \E pending \in SUBSET Values : NewOrder(pending)
  BY <1>5, NewOrderKeeps
<1>6. CASE \E v \in Values : BeginPresent(v)
  BY <1>6, BeginPresentKeeps
<1>7. CASE \E v \in Values : LateCreate(v)
  BY <1>7, LateCreateKeeps
<1>8. CASE \E v \in Values : ReconcileRecord(v)
  BY <1>8, ReconcileRecordKeeps
<1>9. CASE \E v \in Values : ReconcileFails(v)
  BY <1>9, ReconcileFailsKeeps
<1>10. CASE \E outcome \in {"executed", "late", "never"} : PresentDropped(outcome)
  BY <1>10, PresentDroppedKeeps
<1>11. CASE \E failed, unheard \in SUBSET order.held : CleanUp(failed, unheard)
  BY <1>11, CleanUpKeeps
<1>12. CASE \E i \in Ids : RetryCleanup(i)
  BY <1>12, RetryCleanupKeeps
<1>13. CASE \E i \in Ids : \E gone \in BOOLEAN : RetryFails(i, gone)
  BY <1>13, RetryFailsKeeps
<1>14. CASE UNCHANGED orderVars
  <2>1. order \in OrderRecords /\ lateCreates \subseteq Values
    BY DEF OrdersInv, OrdersTypes
  <2> QED
    BY <1>14, <2>1, OrderMoves DEF orderVars, Ledger, OrdersInv, HeldOwned, RoomKept
<1> QED
  BY <1>1, <1>2, <1>3, <1>4, <1>5, <1>6, <1>7, <1>8, <1>9, <1>10, <1>11, <1>12, <1>13, <1>14
     DEF OrdersNext

\* The invariant implies that every record is accounted for.
LEMMA OrdersInvSuffices == OrdersInv => OrdersAccounted
<1> SUFFICES ASSUME OrdersInv PROVE OrdersAccounted
  OBVIOUS
<1> USE DEF OrdersInv
<1>1. \A i \in Ids : zone[i] \notin {{}, {ForeignRecord}} =>
        \/ i \in order.held \/ deferred[i] > 0 \/ i \in orderExcused
        \/ \E v \in Values : zone[i] = {v} /\ uncertain[v] > 0
  BY DEF AllCared, Ours, Cared
<1>2. zone[1] = {ForeignRecord} /\ \A i \in order.held : i \in ownedReceipts
  BY DEF ZoneInv, HeldOwned
<1>3. \A i \in Ids : deferred[i] > 0 /\ zone[i] # {} => i \in ownedReceipts
  BY DEF DeferredOwned
<1>4. Cardinality(ownedReceipts) + Pending <= CleanupCapacity
  BY PendingIs DEF RoomKept
<1> QED
  BY <1>1, <1>2, <1>3, <1>4 DEF OrdersAccounted

\* Whatever fails, is dropped, answers late or never answers (issue, PresentIntent,
\* cleanup and run_cleanup_retries in acme.rs): a record created for us has somebody
\* to remove it or a reason why nobody has, a record of somebody else stays, and the
\* provider's ledger never outgrows its capacity.
THEOREM OrdersAccountedAlways == OrdersSpec => []OrdersAccounted
<1>1. OrdersInit => OrdersInv
  BY OrdersStart
<1>2. OrdersInv /\ [OrdersNext]_orderVars => OrdersInv'
  BY OrdersInvStep
<1>3. OrdersInv => OrdersAccounted
  BY OrdersInvSuffices
<1> QED
  BY <1>1, <1>2, <1>3, PTL DEF OrdersSpec

\* Tokens and orders share no state: together they are all that the issuer leaves
\* in the challenge store and in DNS zones (acme.rs).
THEOREM ValidationsAccountedAlways == ChallengesSpec /\ OrdersSpec => []ValidationsAccounted
<1>1. ChallengesSound /\ OrdersAccounted => ValidationsAccounted
  BY DEF ValidationsAccounted
<1> QED
  BY <1>1, ChallengesSoundAlways, OrdersAccountedAlways, PTL
=============================================================================
