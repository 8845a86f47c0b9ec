--------------------------- MODULE TrafficHistory ---------------------------
(***************************************************************************)
(* The bounded in-memory histories an administrator pages through: raw TCP  *)
(* connections (src/src/tcp_history.rs, its recording policy in             *)
(* src/src/tcp_recording.rs) and completed HTTP response heads              *)
(* (src/src/traffic.rs, src/src/http_recording.rs).  A TCP observation is a *)
(* guard: it takes a connection id when it begins, and at its drop decides  *)
(* by the policy of that moment, without the lock, whether it is recorded,  *)
(* then appends under the lock.  A ring forgets by age and by capacity;     *)
(* age is a freedom to forget any number of the oldest entries whenever the *)
(* code prunes.  Readers follow with a cursor.                              *)
(***************************************************************************)
EXTENDS Naturals, Sequences, FiniteSets, FiniteSetsExt, SequencesExt

CONSTANTS Guards,            \* concurrent TCP observations
          ActiveCapacity, RecentCapacity,
          PageLimit,         \* records of a page
          MaxId              \* where connection and event ids run out

ASSUME HistoryAssumption ==
  {ActiveCapacity, RecentCapacity, PageLimit, MaxId} \subseteq Nat \ {0}

VARIABLES
  policyRevision,   \* the active document's revision: which recording policy applies
  guards,           \* per observation: what its Guard holds
  activeIds,        \* State::active
  lastConnection,   \* latest_connection_id
  untracked,        \* active_untracked
  omitted,          \* omitted_total
  begun,            \* observations begun (history)
  heads,            \* response heads offered to the HTTP ring (history)
  ring,             \* per ring: [entries, latest, dropped, filtered]
  reader            \* per ring: an administrator's cursor, what it saw and was told it missed

historyVars == <<policyRevision, guards, activeIds, lastConnection, untracked, omitted, begun,
                 heads, ring, reader>>

Rings == {"tcp", "http"}
None  == MaxId + 1                 \* no cursor
IdleGuard  == [state |-> "idle", id |-> 0, outcome |-> "interrupted", matched |-> FALSE,
          action |-> "record", revision |-> 0]

HistoryInit ==
  /\ policyRevision = 1 /\ guards = [g \in Guards |-> IdleGuard]
  /\ activeIds = {} /\ lastConnection = 0 /\ untracked = 0 /\ omitted = 0 /\ begun = 0 /\ heads = 0
  /\ ring = [r \in Rings |-> [entries |-> <<>>, latest |-> 0, dropped |-> 0, filtered |-> 0]]
  /\ reader = [r \in Rings |-> [cursor |-> None, seen |-> {}, told |-> {}]]

-----------------------------------------------------------------------------
(* Recording policies: first matching rule, else the default. *)

\* Revision 1 records everything; revision 2 drops clean ends, keeps the other
\* connections that matched a route, and drops the rest.
RecordingPolicy(revision) ==
  IF revision = 1 THEN [default |-> "record", rules |-> <<>>]
  ELSE [default |-> "drop",
        rules |-> <<[action |-> "drop", outcomes |-> {"eof"}, matched |-> BOOLEAN],
                    [action |-> "record", outcomes |-> {}, matched |-> {TRUE}]>>]

\* Populated fields are conjoined, alternatives of one field are disjoined.
CriteriaMatch(rule, input) ==
  /\ rule.outcomes = {} \/ input.outcome \in rule.outcomes
  /\ input.matched \in rule.matched

RecordingAction(policy, input) ==
  LET first == SelectInSeq(policy.rules, LAMBDA rule : CriteriaMatch(rule, input))
  IN  IF first = 0 THEN policy.default ELSE policy.rules[first].action

Activate ==
  /\ policyRevision = 1 /\ policyRevision' = policyRevision + 1
  /\ UNCHANGED <<guards, activeIds, lastConnection, untracked, omitted, begun, heads, ring, reader>>

-----------------------------------------------------------------------------
(* The rings. *)

\* Age removes any number of the oldest entries, and they are counted.
Prune(r, aged) ==
  [r EXCEPT !.entries = SubSeq(@, aged + 1, Len(@)), !.dropped = @ + aged]

\* The next id, then the capacity.
Push(r, record) ==
  LET grown == Append(r.entries, [record EXCEPT !.id = r.latest + 1])
      excess == IF Len(grown) > RecentCapacity THEN Len(grown) - RecentCapacity ELSE 0
  IN  [r EXCEPT !.entries = SubSeq(grown, excess + 1, Len(grown)),
                !.latest = @ + 1, !.dropped = @ + excess]

Missed(r, after) ==
  /\ after # None
  /\ \/ after > r.latest
     \/ r.entries # <<>> /\ after + 1 < r.entries[1].id
     \/ r.entries = <<>> /\ after < r.latest

\* The latest page without a cursor, otherwise the first page past it.
Page(r, after) ==
  LET newer == SelectSeq(r.entries, LAMBDA e : e.id > after)
      n     == Len(r.entries)
  IN  IF after = None \/ after > r.latest
        THEN SubSeq(r.entries, IF n > PageLimit THEN n - PageLimit + 1 ELSE 1, n)
        ELSE SubSeq(newer, 1, Min({PageLimit, Len(newer)}))

\* One read: the reader keeps next_after, and is told of a gap before the page.
ReadRing(name, r) ==
  LET me    == reader[name]
      page  == Page(r, me.cursor)
      ids   == {page[i].id : i \in 1..Len(page)}
      next  == IF page = <<>> THEN r.latest ELSE page[Len(page)].id
      first == IF page = <<>> THEN r.latest ELSE page[1].id - 1
  IN  /\ ring' = [ring EXCEPT ![name] = r]
      /\ reader' = [reader EXCEPT ![name] =
           [cursor |-> next, seen |-> me.seen \cup ids,
            told |-> me.told \cup IF me.cursor = None \/ Missed(r, me.cursor) THEN 1..first ELSE {}]]
      /\ UNCHANGED <<policyRevision, guards, activeIds, lastConnection, untracked, omitted, begun,
                     heads>>

\* GET recent TCP connections.
TcpRecent ==
  \E aged \in 0..Len(ring["tcp"].entries) : ReadRing("tcp", Prune(ring["tcp"], aged))

\* GET recent HTTP traffic.
SnapshotSince ==
  \E aged \in 0..Len(ring["http"].entries) : ReadRing("http", Prune(ring["http"], aged))

\* A response head: filtered heads take no id.
RecordHead(outcome, matched) ==
  LET policy == RecordingPolicy(policyRevision)
      input  == [outcome |-> outcome, matched |-> matched]
      record == [id |-> 0, outcome |-> outcome, matched |-> matched, revision |-> policyRevision]
  IN  /\ ring["http"].latest + ring["http"].filtered < MaxId
      /\ heads' = heads + 1
      /\ IF RecordingAction(policy, input) = "drop"
           THEN ring' = [ring EXCEPT !["http"].filtered = @ + 1]
           ELSE \E aged \in 0..Len(ring["http"].entries) :
                  ring' = [ring EXCEPT !["http"] = Push(Prune(@, aged), record)]
      /\ UNCHANGED <<policyRevision, guards, activeIds, lastConnection, untracked, omitted, begun,
                     reader>>

-----------------------------------------------------------------------------
(* TCP observations. *)

\* An id while there are ids and room; otherwise the connection is only counted.
Begin(g) ==
  /\ guards[g].state = "idle" /\ begun < MaxId + 1
  /\ begun' = begun + 1
  /\ IF lastConnection < MaxId /\ Cardinality(activeIds) < ActiveCapacity
       THEN /\ lastConnection' = lastConnection + 1
            /\ activeIds' = activeIds \cup {lastConnection'}
            /\ guards' = [guards EXCEPT ![g] = [IdleGuard EXCEPT !.state = "tracked",
                                           !.id = lastConnection']]
            /\ UNCHANGED <<untracked, omitted>>
       ELSE /\ lastConnection' = IF lastConnection < MaxId THEN lastConnection + 1 ELSE lastConnection
            /\ untracked' = untracked + 1 /\ omitted' = omitted + 1
            /\ guards' = [guards EXCEPT ![g] = [IdleGuard EXCEPT !.state = "untracked"]]
            /\ UNCHANGED activeIds
  /\ UNCHANGED <<policyRevision, heads, ring, reader>>

\* set_route and set_outcome on the way through the gateway.
Observe(g, outcome, matched) ==
  /\ guards[g].state = "tracked" /\ guards[g].outcome = "interrupted"
  /\ guards' = [guards EXCEPT ![g].outcome = outcome, ![g].matched = matched]
  /\ UNCHANGED <<policyRevision, activeIds, lastConnection, untracked, omitted, begun, heads,
                 ring, reader>>

\* Drop, first half: the current activation decides, before the lock.
Decide(g) ==
  /\ guards[g].state = "tracked"
  /\ guards' = [guards EXCEPT ![g].state = "decided", ![g].revision = policyRevision,
       ![g].action = RecordingAction(RecordingPolicy(policyRevision),
                                     [outcome |-> guards[g].outcome, matched |-> guards[g].matched])]
  /\ UNCHANGED <<policyRevision, activeIds, lastConnection, untracked, omitted, begun, heads,
                 ring, reader>>

\* Drop, second half, under the lock: filtered, out of event ids, or appended.
Finish(g) ==
  LET record == [id |-> 0, outcome |-> guards[g].outcome, matched |-> guards[g].matched,
                 revision |-> guards[g].revision]
  IN  /\ guards[g].state = "decided"
      /\ activeIds' = activeIds \ {guards[g].id}
      /\ guards' = [guards EXCEPT ![g] = IdleGuard]
      /\ \/ /\ guards[g].action = "drop"
            /\ ring' = [ring EXCEPT !["tcp"].filtered = @ + 1] /\ UNCHANGED omitted
         \/ /\ guards[g].action = "record" /\ ring["tcp"].latest = MaxId
            /\ omitted' = omitted + 1 /\ UNCHANGED ring
         \/ /\ guards[g].action = "record" /\ ring["tcp"].latest < MaxId
            /\ UNCHANGED omitted
            /\ \E aged \in 0..Len(ring["tcp"].entries) :
                 ring' = [ring EXCEPT !["tcp"] = Push(Prune(@, aged), record)]
      /\ UNCHANGED <<policyRevision, lastConnection, untracked, begun, heads, reader>>

\* An untracked observation only leaves the gauge.
FinishUntracked(g) ==
  /\ guards[g].state = "untracked"
  /\ untracked' = untracked - 1 /\ guards' = [guards EXCEPT ![g] = IdleGuard]
  /\ UNCHANGED <<policyRevision, activeIds, lastConnection, omitted, begun, heads, ring, reader>>

\* How an exchange ends: cleanly, with an error, or before it matched a route.
Completions == {[outcome |-> "eof", matched |-> TRUE], [outcome |-> "error", matched |-> TRUE],
                [outcome |-> "error", matched |-> FALSE]}

\* The two rings share only the active document, so each is explored by itself.
TcpHistoryNext ==
  \/ Activate \/ TcpRecent
  \/ \E g \in Guards : Begin(g) \/ Decide(g) \/ Finish(g) \/ FinishUntracked(g)
  \/ \E done \in Completions, g \in Guards : Observe(g, done.outcome, done.matched)

HttpHistoryNext ==
  \/ Activate \/ SnapshotSince
  \/ \E done \in Completions : RecordHead(done.outcome, done.matched)

-----------------------------------------------------------------------------
(* Properties. *)

Retained(r) == {r.entries[i] : i \in 1..Len(r.entries)}

\* Every connection is accounted for exactly once however its drop interleaves with
\* prunes, capacity, id exhaustion and policy changes (begin_inner, Guard::drop, prune):
\* begun ones are active, retained, or counted as dropped, filtered or omitted; a
\* retained record was allowed by the policy of the revision it carries; and a reader
\* that follows next_after has seen every event up to its cursor or was told of a gap
\* (recent, snapshot_since), also when age emptied the ring between two reads.
HistoryAccounted ==
  /\ begun = Cardinality(activeIds) + ring["tcp"].latest + ring["tcp"].filtered + omitted
  /\ heads = ring["http"].latest + ring["http"].filtered
  /\ \A name \in Rings :
       /\ ring[name].latest = Len(ring[name].entries) + ring[name].dropped
       /\ \A e \in Retained(ring[name]) :
            RecordingAction(RecordingPolicy(e.revision),
                            [outcome |-> e.outcome, matched |-> e.matched]) = "record"
       /\ reader[name].cursor # None =>
            1..reader[name].cursor \subseteq reader[name].seen \cup reader[name].told
  /\ untracked = Cardinality({g \in Guards : guards[g].state = "untracked"})
  /\ activeIds = {guards[g].id : g \in {h \in Guards : guards[h].state \in {"tracked", "decided"}}}
=============================================================================
