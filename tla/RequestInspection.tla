-------------------------- MODULE RequestInspection --------------------------
(***************************************************************************)
(* Parameter deny profiles (request_blocks.rs).  A request's ingress path  *)
(* fixes the rules it is judged by; its query and its body are inspected,  *)
(* the body in memory under an inspector permit or staged in an anonymous  *)
(* file under a slot and a quota (request_block_spool.rs); Lua may rewrite *)
(* it and a transform may replace its body, after which it is inspected    *)
(* again; and before it leaves, the policy that is then active must judge  *)
(* it by the same rules (PolicyFence).                                     *)
(*                                                                         *)
(* A parameter source (a query or a body) maps some names to values.  How  *)
(* a body is parsed is the second half of this module; a body no parser    *)
(* accepts is one of the failures of its collection.                       *)
(***************************************************************************)
EXTENDS Naturals, FiniteSets, FiniteSetsExt, Sequences, SequencesExt

CONSTANTS
    Inspected,
    BlockPolicies,   \* the values of settings.request_blocks: sets of rules
    Queries,         \* the queries a request may have: functions on names
    Bodies,          \* the bodies: [params, size, big]
    Entries,         \* [path, method] of an arriving request
    Inspectors,      \* request_inspectors
    SpoolSlots, SpoolQuota

ASSUME InspectionConstants == {Inspectors, SpoolSlots, SpoolQuota} \subseteq Nat

VARIABLES
    blocks,        \* the active snapshot's request_blocks
    inspections,   \* the requests
    permitsOf,     \* request -> who holds its inspector permit
    spoolLeases,   \* the spool leases: id -> [owner, charged, holders, content]
    inspectorsFree, slotsFree, spoolUsed   \* the semaphores and Pool::used

inspectVars == <<blocks, inspections, permitsOf, spoolLeases, inspectorsFree, slotsFree, spoolUsed>>

-----------------------------------------------------------------------------
LeaseIds == 1 .. SpoolSlots
NoLease == [owner |-> {}, charged |-> 0, holders |-> {}, content |-> {}]
SpoolLeased(id) == spoolLeases[id].holders # {}
Arriving == [at |-> "new"]
Refusal == [at |-> "refused"]
Stands(q, stages) == inspections[q].at \in stages

(* The rules that judge a request: the ones its ingress path selects, and  *)
(* of those the ones its ingress method selects.                           *)
SelectorMatches(rule, path) == path = rule.path \/ (rule.subpaths /\ path = rule.path + 1)
Scoped(policy, path) == {rule \in policy : SelectorMatches(rule, path)}
Selected(rules, method) == {rule \in rules : rule.methods = {} \/ method \in rule.methods}
ProtectedParams(rules) == {condition.name : condition \in UNION {rule.params : rule \in rules}}

(* insert: a protected name may come from one source only *)
Ambiguous(rules, query, body) ==
    DOMAIN query \cap DOMAIN body \cap ProtectedParams(rules) # {}
Joined(query, body) ==
    [n \in DOMAIN query \cup DOMAIN body |-> IF n \in DOMAIN query THEN query[n] ELSE body[n]]

(* blocked: a rule denies when all of its conditions match.  What is       *)
(* missing matches only when everything has been seen.                     *)
Compare(condition, value) ==
    IF condition.negate THEN value \notin condition.values ELSE value \in condition.values
ConditionHolds(condition, params, complete) ==
    LET defaults == complete /\ condition.default # "none"
    IN  \/ /\ condition.name \in DOMAIN params
           /\ Compare(condition, params[condition.name])
        \/ /\ condition.name \notin DOMAIN params
           /\ defaults /\ Compare(condition, condition.default)
        \/ /\ condition.name \notin DOMAIN params
           /\ ~defaults /\ condition.negate /\ complete
Blocked(rules, params, complete) ==
    \E rule \in rules : \A condition \in rule.params : ConditionHolds(condition, params, complete)

InspectInit ==
    /\ blocks \in BlockPolicies
    /\ inspections = [q \in Inspected |-> Arriving]
    /\ permitsOf = [q \in Inspected |-> {}]
    /\ spoolLeases = [id \in LeaseIds |-> NoLease]
    /\ inspectorsFree = Inspectors /\ slotsFree = SpoolSlots /\ spoolUsed = 0

-----------------------------------------------------------------------------
(* The last reference to a permit or a lease returns what it stands for *)
PermitBecomes(q, holders) ==
    /\ permitsOf' = [permitsOf EXCEPT ![q] = holders]
    /\ inspectorsFree' = inspectorsFree
          + (IF permitsOf[q] # {} THEN 1 ELSE 0) - (IF holders # {} THEN 1 ELSE 0)
LeasesBecome(next, reserved) ==
    LET freed == {id \in LeaseIds : SpoolLeased(id) /\ next[id].holders = {}}
        taken == {id \in LeaseIds : ~SpoolLeased(id) /\ next[id].holders # {}}
    IN  /\ spoolLeases' = [id \in LeaseIds |-> IF id \in freed THEN NoLease ELSE next[id]]
        /\ slotsFree' = slotsFree + Cardinality(freed) - Cardinality(taken)
        /\ spoolUsed' = spoolUsed + reserved - MapThenSumSet(LAMBDA id : next[id].charged, freed)
NothingReturned == UNCHANGED <<permitsOf, inspectorsFree, spoolLeases, slotsFree, spoolUsed>>

Keeps(q, holders) ==
    [id \in LeaseIds |-> IF spoolLeases[id].owner = {q}
                         THEN [spoolLeases[id] EXCEPT !.holders = @ \cap holders] ELSE spoolLeases[id]]

(* The request's future is dropped: blocking tasks keep what they hold *)
Drop(q) ==
    /\ inspections' = [inspections EXCEPT ![q] = Refusal]
    /\ PermitBecomes(q, {})
    /\ LeasesBecome(Keeps(q, {"creator", "writer"}), 0)
    /\ UNCHANGED blocks
Becomes(q, stage) == inspections' = [inspections EXCEPT ![q].at = stage]

PublishBlocks(policy) ==
    /\ policy # blocks
    /\ blocks' = policy
    /\ UNCHANGED inspections /\ NothingReturned

RequestArrives(q, entry, query, body) ==
    /\ Stands(q, {"new"})
    /\ inspections' = [inspections EXCEPT ![q] =
          [at |-> "checking", path |-> entry.path, method |-> entry.method,
           scope |-> Scoped(blocks, entry.path), query |-> query, body |-> body,
           wanted |-> body, cached |-> 0, lease |-> 0, received |-> 0,
           pass |-> 1, rewritten |-> FALSE, retyped |-> FALSE]]
    /\ UNCHANGED blocks /\ NothingReturned

-----------------------------------------------------------------------------
(* check.  What follows is one call, up to its first await. *)
Denied(q, params, complete) ==
    Blocked(Selected(inspections[q].scope, inspections[q].method), params, complete)
BodyMissing(q) == inspections[q].body.size = 0
CacheUsable(q) == inspections[q].cached # 0
                    /\ spoolLeases[inspections[q].cached].owner = {q} /\ SpoolLeased(inspections[q].cached)
SpoolWanted(q) ==
    inspections[q].body.big /\ \A rule \in inspections[q].scope : rule.spool

PassUnscoped(q) ==
    /\ Stands(q, {"checking"})
    /\ inspections[q].scope = {}
    /\ Becomes(q, "inspected")
    /\ UNCHANGED blocks /\ NothingReturned
QueryDenied(q) ==
    /\ Stands(q, {"checking"})
    /\ inspections[q].scope # {}
    /\ \/ Denied(q, inspections[q].query, FALSE)
       \/ BodyMissing(q) /\ Denied(q, inspections[q].query, TRUE)
    /\ Drop(q)
Inspecting(q) ==
    /\ Stands(q, {"checking"})
    /\ inspections[q].scope # {}
    /\ ~Denied(q, inspections[q].query, FALSE)
PassEmpty(q) ==
    /\ Inspecting(q) /\ BodyMissing(q)
    /\ ~Denied(q, inspections[q].query, TRUE)
    /\ Becomes(q, "inspected")
    /\ UNCHANGED blocks /\ NothingReturned

(* The verdict on query and body, shared by every way a body is read *)
Verdict(q, body) ==
    LET r == inspections[q]
    IN  /\ ~Ambiguous(r.scope, r.query, body.params)
        /\ ~Denied(q, Joined(r.query, body.params), TRUE)

(* A body was staged, and the content type or encoding is another now *)
StagedRetyped(q) ==
    /\ Inspecting(q) /\ ~BodyMissing(q)
    /\ inspections[q].cached # 0 /\ inspections[q].retyped
    /\ Drop(q)

(* The staged file is still there: its parameters are judged again and the *)
(* file is replayed, whatever body the request has.                        *)
ReuseSpool(q) ==
    LET content == spoolLeases[inspections[q].cached].content
    IN  /\ Inspecting(q) /\ ~BodyMissing(q) /\ ~inspections[q].retyped /\ CacheUsable(q)
        /\ \/ /\ ~Verdict(q, content) /\ Drop(q)
           \/ /\ Verdict(q, content)
              /\ inspections' = [inspections EXCEPT ![q].at = "inspected", ![q].body = content]
              /\ UNCHANGED blocks /\ NothingReturned

(* A multipart body larger than memory allows is staged *)
BeginSpool(q) ==
    /\ Inspecting(q) /\ ~BodyMissing(q) /\ ~inspections[q].retyped /\ ~CacheUsable(q) /\ SpoolWanted(q)
    /\ \/ slotsFree = 0 /\ Drop(q)
       \/ /\ slotsFree > 0
          /\ \E id \in LeaseIds :
                /\ ~SpoolLeased(id) /\ \A other \in 1 .. id - 1 : SpoolLeased(other)
                /\ LeasesBecome([spoolLeases EXCEPT ![id] =
                      [owner |-> {q}, charged |-> 0, holders |-> {"creator"},
                       content |-> inspections[q].body]], 0)
                /\ inspections' = [inspections EXCEPT
                      ![q].at = "creating", ![q].lease = id, ![q].received = 0]
          /\ UNCHANGED <<blocks, permitsOf, inspectorsFree>>

(* Any other is read into memory; a permit that still lives is shared *)
BeginMemory(q) ==
    /\ Inspecting(q) /\ ~BodyMissing(q) /\ ~inspections[q].retyped /\ ~CacheUsable(q) /\ ~SpoolWanted(q)
    /\ \/ permitsOf[q] = {} /\ inspectorsFree = 0 /\ Drop(q)
       \/ /\ permitsOf[q] # {} \/ inspectorsFree > 0
          /\ PermitBecomes(q, (permitsOf[q] \ {"bytes"}) \cup {"task"})
          /\ Becomes(q, "reading")
          /\ UNCHANGED <<blocks, spoolLeases, slotsFree, spoolUsed>>
MemoryRead(q) ==
    /\ Stands(q, {"reading"})
    /\ \/ ~Verdict(q, inspections[q].body) /\ Drop(q)
       \/ /\ Verdict(q, inspections[q].body)
          /\ PermitBecomes(q, {"bytes"})
          /\ LeasesBecome(Keeps(q, {}), 0)
          /\ Becomes(q, "inspected")
          /\ UNCHANGED blocks

-----------------------------------------------------------------------------
(* collect.  The blocking creator owns the slot even if its caller left. *)
Waits(id, stage) == \E q \in Inspected : /\ spoolLeases[id].owner = {q} /\ Stands(q, {stage})
                                        /\ inspections[q].lease = id
OwnerOf(id) == CHOOSE q \in Inspected : spoolLeases[id].owner = {q}

(* The declared length is charged at once where there is one *)
CreateFile(id, declared) ==
    LET size == IF declared THEN spoolLeases[id].content.size ELSE 0
        waits == Waits(id, "creating")
    IN  /\ spoolLeases[id].holders = {"creator"}
        /\ spoolUsed + size <= SpoolQuota
        /\ LeasesBecome([spoolLeases EXCEPT ![id].charged = size,
                                       ![id].holders = IF waits THEN {"caller"} ELSE {}], size)
        /\ inspections' = IF waits THEN [inspections EXCEPT ![OwnerOf(id)].at = "staging"]
                          ELSE inspections
        /\ UNCHANGED <<blocks, permitsOf, inspectorsFree>>
CreateFails(id) ==
    /\ spoolLeases[id].holders = {"creator"}
    /\ LeasesBecome([spoolLeases EXCEPT ![id].holders = {}], 0)
    /\ IF Waits(id, "creating")
       THEN /\ inspections' = [inspections EXCEPT ![OwnerOf(id)] = Refusal]
            /\ PermitBecomes(OwnerOf(id), {})
       ELSE UNCHANGED <<inspections, permitsOf, inspectorsFree>>
    /\ UNCHANGED blocks

(* Lease::grow, then the frame is written by a blocking task *)
Grown(id, size) == IF size > spoolLeases[id].charged THEN size ELSE spoolLeases[id].charged
StageFrame(q) ==
    LET r == inspections[q]
        grown == Grown(r.lease, r.received + 1)
    IN  /\ Stands(q, {"staging"})
        /\ r.received < r.body.size
        /\ spoolUsed + grown - spoolLeases[r.lease].charged <= SpoolQuota
        /\ LeasesBecome([spoolLeases EXCEPT ![r.lease].charged = grown,
                                       ![r.lease].holders = {"caller", "writer"}],
                        grown - spoolLeases[r.lease].charged)
        /\ Becomes(q, "writing")
        /\ UNCHANGED <<blocks, permitsOf, inspectorsFree>>
WriteDone(id) ==
    /\ "writer" \in spoolLeases[id].holders
    /\ LeasesBecome([spoolLeases EXCEPT ![id].holders = @ \ {"writer"}], 0)
    /\ inspections' = IF Waits(id, "writing")
                      THEN [inspections EXCEPT ![OwnerOf(id)].at = "staging",
                                               ![OwnerOf(id)].received = @ + 1]
                      ELSE inspections
    /\ UNCHANGED <<blocks, permitsOf, inspectorsFree>>
StageDone(q) ==
    LET r == inspections[q]
    IN  /\ Stands(q, {"staging"})
        /\ r.received = r.body.size
        /\ \/ ~Verdict(q, r.body) /\ Drop(q)
           \/ /\ Verdict(q, r.body)
              /\ LeasesBecome([id \in LeaseIds |->
                    IF id = r.lease THEN [spoolLeases[id] EXCEPT !.holders = {"body"}]
                    ELSE Keeps(q, {})[id]], 0)
              /\ PermitBecomes(q, {})
              /\ inspections' = [inspections EXCEPT ![q].at = "inspected", ![q].cached = r.lease]
              /\ UNCHANGED blocks

(* A deadline, a limit, the quota, a body no parser accepts, or a client   *)
(* that went away: at every await the request may end.                     *)
Abandon(q) ==
    /\ Stands(q, {"reading", "creating", "staging", "writing", "routed", "ready"})
    /\ Drop(q)

-----------------------------------------------------------------------------
(* PolicyFence::current: the policy selects the same rules for the request *)
(* as it came in.                                                          *)
FenceCurrent(q) == Scoped(blocks, inspections[q].path) = inspections[q].scope

AdmitInspected(q) ==
    /\ Stands(q, {"inspected"}) /\ inspections[q].pass = 1
    /\ \/ ~FenceCurrent(q) /\ Drop(q)
       \/ /\ FenceCurrent(q)
          /\ Becomes(q, "routed")
          /\ UNCHANGED blocks /\ NothingReturned

(* Lua replaces the query (or the path: the scope stays), or the type of a *)
(* body that was staged                                                    *)
RewriteRequest(q, query, retyped) ==
    /\ Stands(q, {"routed"}) /\ inspections[q].pass = 1
    /\ query # inspections[q].query \/ retyped
    /\ retyped => inspections[q].cached # 0 /\ ~inspections[q].retyped
    /\ inspections' = [inspections EXCEPT ![q].query = query, ![q].rewritten = TRUE,
                                          ![q].retyped = @ \/ retyped]
    /\ UNCHANGED blocks /\ NothingReturned

\* Mutant: a transform leaves the staged file's parameters cached.
InvalidateNothing(q) == inspections[q].cached
InvalidateBodyCache(q) == 0

(* A transform replaces the body; its reader may retain the original *)
TransformBody(q, body, retains) ==
    /\ Stands(q, {"routed"}) /\ inspections[q].pass = 1
    /\ body # inspections[q].body
    /\ inspections' = [inspections EXCEPT
          ![q].body = body, ![q].wanted = body, ![q].rewritten = TRUE,
          ![q].cached = InvalidateBodyCache(q), ![q].retyped = FALSE, ![q].pass = 2, ![q].at = "checking"]
    /\ PermitBecomes(q, IF retains /\ permitsOf[q] # {} THEN {"old"} ELSE {})
    /\ LeasesBecome([id \in LeaseIds |->
          IF spoolLeases[id].owner = {q} /\ "body" \in spoolLeases[id].holders
          THEN [spoolLeases[id] EXCEPT !.holders = IF retains THEN {"old"} ELSE {}]
          ELSE spoolLeases[id]], 0)
    /\ UNCHANGED blocks

(* What was rewritten is inspected again *)
RecheckBody(q) ==
    /\ Stands(q, {"routed"})
    /\ inspections' = [inspections EXCEPT
          ![q].pass = 2, ![q].at = IF inspections[q].rewritten THEN "checking" ELSE "ready"]
    /\ UNCHANGED blocks /\ NothingReturned
Rechecked(q) ==
    /\ Stands(q, {"inspected"}) /\ inspections[q].pass = 2
    /\ Becomes(q, "ready")
    /\ UNCHANGED blocks /\ NothingReturned

(* The fence before the exchange, and then the body is sent *)
SendUpstream(q) ==
    /\ Stands(q, {"ready"})
    /\ \/ ~FenceCurrent(q) /\ Drop(q)
       \/ /\ FenceCurrent(q)
          /\ inspections' = [inspections EXCEPT ![q] =
                [at |-> "left", judges |-> Selected(Scoped(blocks, @.path), @.method),
                 query |-> @.query, body |-> @.body, wanted |-> @.wanted]]
          /\ UNCHANGED blocks /\ NothingReturned

(* Replay: the body ends, and the chunks it gave live on in the network *)
BodySent(q) ==
    /\ Stands(q, {"left"})
    /\ inspections' = [inspections EXCEPT ![q] = [at |-> "sent"]]
    /\ LeasesBecome([id \in LeaseIds |->
          IF spoolLeases[id].owner = {q} /\ "body" \in spoolLeases[id].holders
          THEN [spoolLeases[id] EXCEPT !.holders = {"chunk"}] ELSE spoolLeases[id]], 0)
    /\ UNCHANGED <<blocks, permitsOf, inspectorsFree>>
ChunksDropped(q) ==
    /\ Stands(q, {"sent"})
    /\ Drop(q)

InspectNext ==
    \/ \E policy \in BlockPolicies : PublishBlocks(policy)
    \/ \E id \in LeaseIds : \/ \E declared \in BOOLEAN : CreateFile(id, declared)
                            \/ CreateFails(id) \/ WriteDone(id)
    \/ \E q \in Inspected :
          \/ \E entry \in Entries, query \in Queries, body \in Bodies :
               RequestArrives(q, entry, query, body)
          \/ PassUnscoped(q) \/ QueryDenied(q) \/ PassEmpty(q) \/ StagedRetyped(q) \/ ReuseSpool(q)
          \/ BeginSpool(q) \/ BeginMemory(q) \/ MemoryRead(q)
          \/ StageFrame(q) \/ StageDone(q) \/ Abandon(q)
          \/ AdmitInspected(q) \/ \E query \in Queries, retyped \in BOOLEAN : RewriteRequest(q, query, retyped)
          \/ \E body \in Bodies, retains \in BOOLEAN : TransformBody(q, body, retains)
          \/ RecheckBody(q) \/ Rechecked(q) \/ SendUpstream(q) \/ BodySent(q) \/ ChunksDropped(q)

-----------------------------------------------------------------------------
(* Nothing the active policy denies leaves, and inspection gives back what *)
(* it takes.  A request leaves with the body its last transform produced,  *)
(* and its final query and body, however they were rewritten and whatever  *)
(* policy was published meanwhile, match no rule that the policy then      *)
(* active has for the path and method it came in with; no protected name   *)
(* comes from both.  The spool's counters are the leases that live,        *)
(* including those of blocking tasks whose request has gone, and every     *)
(* inspector permit is held by a living request.  (check, collect, Lease,  *)
(* PolicyFence::current, invalidate_body_cache)                            *)
InspectionSound ==
    /\ \A q \in Inspected : Stands(q, {"left"}) => LET r == inspections[q] IN
          /\ r.body = r.wanted
          /\ ~Ambiguous(r.judges, r.query, r.body.params)
          /\ ~Blocked(r.judges, Joined(r.query, r.body.params), TRUE)
    /\ slotsFree = SpoolSlots - Cardinality({id \in LeaseIds : SpoolLeased(id)})
    /\ spoolUsed = MapThenSumSet(LAMBDA id : spoolLeases[id].charged, LeaseIds)
    /\ spoolUsed <= SpoolQuota
    /\ inspectorsFree = Inspectors - Cardinality({q \in Inspected : permitsOf[q] # {}})
    /\ \A q \in Inspected : permitsOf[q] # {} => ~Stands(q, {"new", "refused"})

-----------------------------------------------------------------------------
(***************************************************************************)
(* The incremental multipart parser of request inspection                  *)
(* (request_block_multipart.rs), fed with whatever pieces the network      *)
(* delivers.  Beside it runs a copy fed with one byte at a time, and the   *)
(* count of the lines an upstream that accepts bare line feeds would take  *)
(* for delimiters.                                                         *)
(*                                                                         *)
(* Bytes are the ones the grammar tells apart: "r" and "n" (CR and LF),    *)
(* "d" (the dash), "b" (the rest of the boundary), and "t" and "f", which  *)
(* where headers are read are a complete block of a text or a file part,   *)
(* and elsewhere any other byte.  A value is represented by its length.    *)
(***************************************************************************)

CONSTANTS
    MaxPiece,      \* longest piece fed at once
    MaxField,      \* max_field_bytes
    MaxParts,      \* MAX_PARTS
    MaxHidden      \* lines counted

ASSUME ParserConstants == {MaxPiece, MaxField, MaxParts, MaxHidden} \subseteq Nat

VARIABLES parser, bytewise, recent, lines, ended

parserVars == <<parser, bytewise, recent, lines, ended>>

-----------------------------------------------------------------------------
(* parse_headers: the blocks it accepts, of a text and of a file part *)
HeaderBlocks == {"t", "f"}
Bytes == {"r", "n", "d", "b"} \cup HeaderBlocks
Marker == <<"d", "b">>
CRLF == <<"r", "n">>
Delimiter == CRLF \o Marker
LineMarker == <<"n">> \o Marker

NoPart == [file |-> FALSE, length |-> 0]
NewParser ==
    [state |-> "opening", pending |-> <<>>, part |-> NoPart, fields |-> <<>>,
     failed |-> FALSE, tail |-> <<>>, before |-> "none"]

(* A failure is final: nothing else of the parser is read again *)
Unparsable(p) == [NewParser EXCEPT !.failed = TRUE]

(* Part::append: a file's bytes are discarded *)
Appended(p, count) ==
    IF p.part.file THEN p
    ELSE IF p.part.length + count > MaxField THEN Unparsable(p)
    ELSE [p EXCEPT !.part.length = @ + count]

FieldEnds(p, state, pending) ==
    [p EXCEPT !.fields = Append(@, p.part), !.part = NoPart, !.state = state, !.pending = pending]

OpeningByte(p, c) ==
    LET pending == Append(p.pending, c)
        suffix == SubSeq(pending, Len(Marker) + 1, Len(pending))
    IN  IF Len(p.pending) < Len(Marker)
        THEN IF c = Marker[Len(pending)] THEN [p EXCEPT !.pending = pending] ELSE Unparsable(p)
        ELSE IF Len(suffix) < 2 THEN [p EXCEPT !.pending = pending]
        ELSE IF suffix = CRLF THEN [p EXCEPT !.state = "headers", !.pending = <<>>]
        ELSE IF suffix = <<"d", "d">> THEN [p EXCEPT !.state = "closing", !.pending = <<>>]
        ELSE Unparsable(p)

(* The header block, at the limit of parts; another one does not parse *)
HeadersByte(p, c) ==
    IF c \in HeaderBlocks /\ Len(p.fields) < MaxParts
    THEN [p EXCEPT !.state = "body", !.part.file = c = "f"]
    ELSE Unparsable(p)

(* flush_pending and restart_or_append: no delimiter starts inside another *)
Mismatch(p, c) ==
    LET flushed == [Appended(p, Len(p.pending)) EXCEPT !.pending = <<>>]
    IN  IF flushed.failed THEN flushed
        ELSE IF c = "r" THEN [flushed EXCEPT !.pending = <<c>>]
        ELSE Appended(flushed, 1)

BodyByte(p, c) ==
    LET length == Len(p.pending)
        longer == [p EXCEPT !.pending = Append(@, c)]
    IN  IF length < Len(Delimiter)
        THEN IF c = Delimiter[length + 1] THEN longer ELSE Mismatch(p, c)
        ELSE IF length = Len(Delimiter)
        THEN IF c \in {"r", "d"} THEN longer ELSE Unparsable(p)
        ELSE IF length = Len(Delimiter) + 1
        THEN IF p.pending[length] = "r" /\ c = "n" THEN FieldEnds(p, "headers", <<>>)
             ELSE IF p.pending[length] = "d" /\ c = "d" THEN longer
             ELSE Unparsable(p)
        ELSE IF length = Len(Delimiter) + 2
        THEN IF c = "r" THEN longer ELSE Unparsable(p)
        ELSE IF c = "n" THEN FieldEnds(p, "closing", CRLF) ELSE Unparsable(p)

ClosingByte(p, c) ==
    IF Len(p.pending) < 2 /\ c = CRLF[Len(p.pending) + 1]
    THEN [p EXCEPT !.pending = Append(@, c)] ELSE Unparsable(p)

FeedByte(p, c) ==
    CASE p.failed -> p
      [] p.state = "opening" -> OpeningByte(p, c)
      [] p.state = "headers" -> HeadersByte(p, c)
      [] p.state = "body" -> BodyByte(p, c)
      [] OTHER -> ClosingByte(p, c)

-----------------------------------------------------------------------------
(* reject_bare_lf_boundaries: a line that starts with the marker after a   *)
(* line feed alone; the piece is searched, and so is the bridge from the   *)
(* end of what came before.                                                *)
BareLine(bytes, before) ==
    \E i \in 1 .. Len(bytes) - Len(LineMarker) + 1 :
        /\ SubSeq(bytes, i, i + Len(LineMarker) - 1) = LineMarker
        /\ (IF i = 1 THEN before ELSE bytes[i - 1]) # "r"

AtMost(n, size) == IF size < n THEN size ELSE n
LastOf(bytes) == IF bytes = <<>> THEN "none" ELSE bytes[Len(bytes)]
KeptLines(p, piece) ==
    LET whole == p.tail \o piece
        cut == Len(whole) - AtMost(Len(LineMarker), Len(whole))
    IN  [p EXCEPT !.tail = SubSeq(whole, cut + 1, Len(whole)),
                  !.before = IF cut > 0 THEN whole[cut] ELSE @]

RejectBareLines(p, piece) ==
    LET bridge == p.tail \o SubSeq(piece, 1, AtMost(Len(LineMarker), Len(piece)))
    IN  IF BareLine(bridge, p.before) \/ BareLine(piece, LastOf(p.tail))
        THEN Unparsable(p) ELSE KeptLines(p, piece)

(* feed: an earlier failure is final *)
Fed(p, piece) ==
    IF p.failed THEN p ELSE FoldLeft(FeedByte, RejectBareLines(p, piece), piece)

(* finish: a closing delimiter may be the very end *)
Finished(p) ==
    IF p.state = "body" /\ p.pending = Delimiter \o <<"d", "d">> THEN FieldEnds(p, "closing", <<>>)
    ELSE p
Accepts(p) ==
    LET f == Finished(p)
    IN  ~f.failed /\ f.state = "closing" /\ f.pending \in {<<>>, CRLF}

-----------------------------------------------------------------------------
ParserInit ==
    /\ parser = NewParser /\ bytewise = NewParser
    /\ recent = <<>> /\ lines = 0 /\ ended = FALSE

(* The upstream's view of one more byte *)
Noted(view, c) ==
    LET whole == Append(view.recent, c)
        kept == SubSeq(whole, Len(whole) - AtMost(Len(LineMarker), Len(whole)) + 1, Len(whole))
    IN  [recent |-> kept, lines |-> view.lines + (IF kept = LineMarker THEN 1 ELSE 0)]

FeedPiece(piece) ==
    LET view == FoldLeft(Noted, [recent |-> recent, lines |-> lines], piece)
    IN  /\ ~ended /\ ~parser.failed
        /\ view.lines <= MaxHidden
        /\ parser' = Fed(parser, piece)
        /\ bytewise' = FoldLeft(LAMBDA p, c : Fed(p, <<c>>), bytewise, piece)
        /\ recent' = view.recent /\ lines' = view.lines
        /\ UNCHANGED ended
EndOfBody ==
    /\ ~ended
    /\ ended' = TRUE
    /\ UNCHANGED <<parser, bytewise, recent, lines>>

ParserNext ==
    \/ \E piece \in UNION {[1 .. n -> Bytes] : n \in 1 .. MaxPiece} : FeedPiece(piece)
    \/ EndOfBody

-----------------------------------------------------------------------------
(* Inspection sees the parts the upstream sees.  However a body is cut     *)
(* into pieces the parser fails, or reaches the state, it reaches byte by  *)
(* byte; and a body it accepts has exactly one field for every line that   *)
(* an upstream which also takes a bare line feed as the end of a line      *)
(* would take for a delimiter.  (feed_inner, reject_bare_lf_boundaries,    *)
(* finish)                                                                 *)
PartsExact ==
    /\ parser.failed = bytewise.failed
    /\ ~parser.failed => parser = bytewise
    /\ ended /\ Accepts(parser) => Len(Finished(parser).fields) = lines
=============================================================================
