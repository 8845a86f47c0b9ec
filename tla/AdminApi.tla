------------------------------ MODULE AdminApi ------------------------------
(***************************************************************************)
(* Admin::handle of src/src/admin.rs and the handlers behind it: admission   *)
(* budgets, authentication, what a handler re-checks after it waited, the    *)
(* configuration edits made with If-Match, the work that outlives its        *)
(* caller, and the event stream.  The accounts (AdminAccounts) and the       *)
(* publication of a document (ConfigPublication) are used by their contract. *)
(* A caller is one request; its body is sent until the client has read it.   *)
(***************************************************************************)
EXTENDS Naturals, Sequences, FiniteSets

CONSTANTS Callers,      \* one request each
          CallSets,        \* the requests considered: what each caller asks and presents
          Budget,       \* Budget[b]: permits of budget b
          Pools,        \* backends of every route: HTTP routes, then TCP routes
          MaxShared,    \* bound on the shared revision
          MaxTurns      \* bound on account, observer and remote changes

Public   == {"asset", "observation", "login"}
Reads    == {"traffic", "cache", "certificates", "retired", "operations", "routes",
             "config", "validate", "hash", "resolve"}
Accounts == {"journal", "users", "audit", "prune", "fleet", "dockerChange"}
GuardedKinds  == {"tcp", "bans", "geoStatus", "geoLookup", "receiptPage", "receipt2", "receipt",
             "proof", "docker", "auditPolicy", "operationRelease"}
Edits    == {"create", "replace", "put", "purge"}
Detached == {"release", "pumgye"}
Others   == {"events", "status", "updateStatus", "metrics", "sso", "me", "logout", "plugins",
             "restart", "updateCheck"}
Kinds    == Public \cup Reads \cup Accounts \cup GuardedKinds \cup Edits \cup Detached \cup Others
Budgets  == {"public", "observer", "auth", "events", "admin", "viewer",
             "certificates", "release", "pumgye"}

ASSUME AdminApiAssumption ==
  /\ CallSets \subseteq [Callers -> [kind : Kinds, cred : {"none", "session", "system"}]]
  /\ Budget \in [Budgets -> Nat \ {0}]
  /\ Pools \in Seq(Nat) /\ MaxShared \in Nat /\ MaxTurns \in Nat

VARIABLES
  standing,   \* the session's account: "admin", "viewer", or "gone"
  observer,   \* generation of the observer credential
  remote,     \* generation of the snapshot's pumgye_remote
  policy,     \* revision of the remote authority's policy
  policyFloor, \* RemoteAuthority::require_revision: the least revision accepted
  revision,   \* revision active on this instance
  shared,     \* revision of the shared authority
  applied,    \* edits committed here: by whom, the revision each replaced, was built from and named
  call,       \* the requests
  task,       \* what runs on behalf of a request, detached from it
  turns

adminApiVars ==
  <<standing, observer, remote, policy, policyFloor, revision, shared, applied, call, task, turns>>

World == <<standing, observer, remote, policy, policyFloor, revision, shared, applied, turns>>

FreshCall(kind, cred) ==
  [pc |-> "idle", kind |-> kind, cred |-> cred, role |-> "none", held |-> {}, answer |-> "none",
   expected |-> 0, base |-> 0, gen |-> 0, live |-> FALSE, rows |-> <<>>, window |-> <<0, 0>>,
   seen |-> FALSE, frame |-> "none", sawTraffic |-> FALSE]

NoTask == [step |-> "none", result |-> "none", base |-> 0, named |-> 0, gen |-> 0, acknowledged |-> 0]

\* The request is over: its future or its body is dropped.
Closed(c) == [FreshCall(call[c].kind, call[c].cred) EXCEPT !.pc = "closed"]

AdminApiInit ==
  /\ standing \in {"admin", "viewer"}
  /\ observer = 0 /\ remote = 0 /\ policy = 1 /\ policyFloor = 0
  /\ revision = 1 /\ shared = 1 /\ applied = {}
  /\ call \in {[c \in Callers |-> FreshCall(asked[c].kind, asked[c].cred)] : asked \in CallSets}
  /\ task = [c \in Callers |-> NoTask]
  /\ turns = 0

-----------------------------------------------------------------------------
(* Admission, authentication and the reply. *)

\* A detached task carries the permit its request took for it.
TaskBudget(step) ==
  CASE step \in {"admitRelease", "release"} -> {"release"}
    [] step \in {"admitPumgye", "pumgye"}   -> {"pumgye"}
    [] step = "certificates"                -> {"certificates"}
    [] OTHER                                -> {}

Holders(b) ==
  Cardinality({c \in Callers : b \in call[c].held})
    + Cardinality({c \in Callers : b \in TaskBudget(task[c].step)})

FreePermit(b) == Holders(b) < Budget[b]

CallAt(c, stage) == call[c].pc = stage
Is(c, kind)  == call[c].kind = kind
CallBecomes(c, next) == call' = [call EXCEPT ![c] = next]
Only(c, next) == CallBecomes(c, next) /\ UNCHANGED <<World, task>>

\* A reply whose permits are the ones in `kept`.
Replied(c, answer, kept) == [call[c] EXCEPT !.pc = "sending", !.answer = answer, !.held = kept]

\* Admin::handle, after handle_inner: 401, 403 and every viewer reply give
\* the administrator permit back before the body is sent.
KeptPermits(c, answer) ==
  IF answer \in {"401", "403"} \/ call[c].role = "viewer"
  THEN call[c].held \ {"admin"} ELSE call[c].held

Reply(c, answer) == Replied(c, answer, KeptPermits(c, answer))

BudgetOf(kind) ==
  CASE kind = "asset"       -> "public"
    [] kind = "observation" -> "observer"
    [] kind = "login"       -> "auth"
    [] kind = "events"      -> "events"
    [] OTHER                -> "admin"

Admit(c) ==
  LET b == BudgetOf(call[c].kind) IN
  /\ CallAt(c, "idle")
  /\ Only(c, IF FreePermit(b) THEN [call[c] EXCEPT !.pc = "admitted", !.held = {b}]
             ELSE Replied(c, "503", {}))

\* A public asset keeps its own permit through the body.
PublicAsset(c) ==
  /\ CallAt(c, "admitted") /\ Is(c, "asset")
  /\ Only(c, Replied(c, "200", call[c].held))

\* handle_public_auth: setup, bootstrap and login give theirs back first.
PublicAuth(c) ==
  /\ CallAt(c, "admitted") /\ Is(c, "login")
  /\ \E answer \in {"200", "401"} : Only(c, Replied(c, answer, {}))

\* handle_fleet_observation: the credential is checked, the value is built ...
Observation(c) ==
  /\ CallAt(c, "admitted") /\ Is(c, "observation")
  /\ \/ Only(c, [call[c] EXCEPT !.pc = "built", !.gen = observer])
     \/ Only(c, Replied(c, "401", {}))

\* ... and it is sent only if the same credential still stands.
ConfirmObservation(c) ==
  /\ CallAt(c, "built")
  /\ Only(c, IF call[c].gen = observer THEN Replied(c, "200", call[c].held)
             ELSE Replied(c, "503", {}))

\* MutationAuthority of the request, judged by the account store now.
Authority(c) == call[c].cred = "system" \/ (call[c].cred = "session" /\ standing = "admin")

Authenticated == Kinds \ Public

\* authenticate, then the viewer's own permit.
Authenticate(c) ==
  LET role == IF call[c].cred = "system" THEN "admin" ELSE standing IN
  /\ CallAt(c, "admitted") /\ call[c].kind \in Authenticated
  /\ \/ /\ call[c].cred = "none" \/ (call[c].cred = "session" /\ standing = "gone")
        /\ Only(c, Replied(c, "401", {}))
     \/ /\ call[c].cred = "session"                     \* the store cannot answer
        /\ Only(c, Replied(c, "503", IF Is(c, "events") THEN {} ELSE call[c].held))
     \/ /\ call[c].cred # "none" /\ role # "gone"
        /\ Only(c, IF role = "admin"
                   THEN [call[c] EXCEPT !.pc = "authenticated", !.role = role]
                   ELSE IF FreePermit("viewer")
                   THEN [call[c] EXCEPT !.pc = "authenticated", !.role = role,
                                        !.held = @ \cup {"viewer"}]
                   ELSE Replied(c, "503", {}))

Entered(c, kind) == CallAt(c, "authenticated") /\ Is(c, kind)

\* viewer_allowed: everything else is refused to a viewer.
ViewerAllowed == {"status", "updateStatus", "metrics"}

ViewerRefused(c) ==
  /\ CallAt(c, "authenticated") /\ call[c].role = "viewer"
  /\ call[c].kind \notin ViewerAllowed \cup {"sso", "me", "logout", "events"}
  /\ Only(c, Reply(c, "403"))

AdminEntered(c, kind) == Entered(c, kind) /\ call[c].role = "admin"

-----------------------------------------------------------------------------
(* Endpoints that answer in one step. *)

Status(c) == Entered(c, "status") /\ Only(c, Reply(c, "200"))

Metrics(c) == Entered(c, "metrics") /\ Only(c, Reply(c, "200"))

\* The file the supervisor writes may be unreadable.
UpdateStatus(c) ==
  /\ Entered(c, "updateStatus")
  /\ \E answer \in {"200", "503"} : Only(c, Reply(c, answer))

Me(c) == Entered(c, "me") /\ Only(c, Reply(c, "200"))

SsoLease(c) ==
  /\ Entered(c, "sso")
  /\ IF call[c].cred # "system" THEN Only(c, Reply(c, "403"))
     ELSE \E answer \in {"200", "403"} : Only(c, Reply(c, answer))

\* The session ends, unless the store cannot be written.
Logout(c) ==
  /\ Entered(c, "logout")
  /\ \/ /\ CallBecomes(c, Reply(c, "204"))
        /\ standing' = IF call[c].cred = "session" THEN "gone" ELSE standing
        /\ UNCHANGED <<observer, remote, policy, policyFloor, revision, shared, applied, task, turns>>
     \/ call[c].cred = "session" /\ Only(c, Reply(c, "503"))

\* Role checked on the authenticated actor, the registry re-checks its own writes.
Plugins(c) == AdminEntered(c, "plugins") /\ Only(c, Reply(c, "200"))

\* A control message to the supervisor, refused when the channel is busy.
ControlMessage(c, kind) ==
  /\ AdminEntered(c, kind)
  /\ \E answer \in {"202", "503"} : Only(c, Reply(c, answer))

Restart(c)     == ControlMessage(c, "restart")
UpdateCheck(c) == ControlMessage(c, "updateCheck")

\* Read of the instance's own state, judged by the role of the authentication.
ReadOwn(c, kind) == AdminEntered(c, kind) /\ Only(c, Reply(c, "200"))

CacheStatus(c)    == ReadOwn(c, "cache")
TrafficPage(c)    == ReadOwn(c, "traffic")
RetiredMembers(c) == ReadOwn(c, "retired")
GetRoutes(c)      == ReadOwn(c, "routes")
GetConfig(c)      == ReadOwn(c, "config")

\* Work on what the body says; nothing is installed whatever its outcome.
Examine(c, kind) ==
  /\ AdminEntered(c, kind)
  /\ \E answer \in {"200", "422"} : Only(c, Reply(c, answer))

ValidateConfig(c) == Examine(c, "validate")
HashPassword(c)   == Examine(c, "hash")
ResolveDocker(c)  == Examine(c, "resolve")

\* What was read is shown; `live` records whether the authority was live at
\* some moment no earlier than the read.
Shown(c, answer) == [Reply(c, answer) EXCEPT !.live = call[c].live \/ Authority(c)]

\* Reads and writes of the account database: authority and effect are one
\* transaction, and the database may not answer.
AccountOperation(c, kind) ==
  /\ AdminEntered(c, kind)
  /\ \/ Only(c, IF Authority(c) THEN Shown(c, "200") ELSE Reply(c, "403"))
     \/ Only(c, Reply(c, "503"))

ConfigOperations(c) == AccountOperation(c, "journal")
PruneOperations(c)  == AccountOperation(c, "prune")
Users(c)            == AccountOperation(c, "users")
UserAudit(c)        == AccountOperation(c, "audit")

\* put_authorized, delete_authorized and test_candidate_authorized: the
\* connection store checks the authority with the write it makes.
DockerChange(c) == AccountOperation(c, "dockerChange")

\* Fleet status: authorized first, then read without waiting.
FleetObservations(c) == AccountOperation(c, "fleet")

\* /v1/operations: pools entirely before the offset are skipped whole, rows
\* of the others one by one, until the page is full.
PageOf(offset, limit) ==
  LET RowsOf(k) == [i \in 1..Pools[k] |-> <<k, i>>]
      Page[k \in 0..Len(Pools)] ==
        IF k = 0 THEN [rows |-> <<>>, position |-> 0]
        ELSE LET before == Page[k - 1]
                 skip   == IF offset > before.position THEN offset - before.position ELSE 0
                 room   == limit - Len(before.rows)
                 last   == IF skip + room < Pools[k] THEN skip + room ELSE Pools[k]
             IN IF room = 0 THEN before
                ELSE IF before.position + Pools[k] <= offset
                THEN [before EXCEPT !.position = @ + Pools[k]]
                ELSE [rows |-> before.rows \o SubSeq(RowsOf(k), skip + 1, last),
                      position |-> before.position + last]
  IN Page[Len(Pools)].rows

JournalPage(c) ==
  /\ AdminEntered(c, "operations")
  /\ \E offset \in 0..4, limit \in 1..3 :
       Only(c, [Reply(c, "200") EXCEPT !.rows = PageOf(offset, limit), !.window = <<offset, limit>>])

-----------------------------------------------------------------------------
(* Endpoints that wait for a reading and check again before they show it. *)

ReadState(c, kind) ==
  /\ AdminEntered(c, kind)
  /\ Only(c, [call[c] EXCEPT !.pc = "observed", !.live = Authority(c)])

\* The reading itself may fail.
ObserveState(c, kind) ==
  \/ ReadState(c, kind)
  \/ AdminEntered(c, kind) /\ Only(c, Reply(c, "503"))

\* Mutant: the role found at authentication is not looked up again.
DisclosableOnce(c) == call[c].role = "admin"

\* authorize_admin after the reading.
Disclosable(c) == Authority(c)

Disclose(c, kind) ==
  /\ CallAt(c, "observed") /\ Is(c, kind)
  /\ \/ Only(c, IF Disclosable(c) THEN Shown(c, "200") ELSE Reply(c, "403"))
     \/ Only(c, Reply(c, "503"))

TcpPage(c)          == ReadState(c, "tcp") \/ Disclose(c, "tcp")
ListBans(c)         == ObserveState(c, "bans") \/ Disclose(c, "bans")
GeoStatus(c)        == ObserveState(c, "geoStatus") \/ Disclose(c, "geoStatus")
GeoLookup(c)        == ObserveState(c, "geoLookup") \/ Disclose(c, "geoLookup")
CommitReceipts(c)   == ObserveState(c, "receiptPage") \/ Disclose(c, "receiptPage")
CommitReceiptV2(c)  == ObserveState(c, "receipt2") \/ Disclose(c, "receipt2")
CommitReceipt(c)    == ObserveState(c, "receipt") \/ Disclose(c, "receipt")
OperationProof(c)   == ObserveState(c, "proof") \/ Disclose(c, "proof")
DockerConnection(c) == ObserveState(c, "docker") \/ Disclose(c, "docker")
AuditPolicy(c)      == ObserveState(c, "auditPolicy") \/ Disclose(c, "auditPolicy")

\* Authorized before the receipt is released, and again before it is told.
ReleaseOperation(c) ==
  \/ Authority(c) /\ ObserveState(c, "operationRelease")
  \/ ~Authority(c) /\ AdminEntered(c, "operationRelease") /\ Only(c, Reply(c, "403"))
  \/ Disclose(c, "operationRelease")

-----------------------------------------------------------------------------
(* Configuration edits. *)

\* The revision the client names is one some member has shown it.
Named == 1..shared

\* Manager.writes: one transaction or catch-up at a time.
Writing == \E c \in Callers : task[c].step = "commit"

\* require_revision: a newer revision than ours makes the instance catch up
\* before the comparison; a failed catch-up is that failure, not a conflict.
RequireRevision(c) ==
  \E named \in Named :
       \/ /\ named <= revision
          /\ Only(c, IF named = revision
                     THEN [call[c] EXCEPT !.pc = "reading", !.expected = named,
                                          !.base = IF Is(c, "replace") THEN revision ELSE 0]
                     ELSE Reply(c, "409"))
       \/ /\ named > revision /\ ~Writing
          /\ CallBecomes(c, IF named = shared
                     THEN [call[c] EXCEPT !.pc = "reading", !.expected = named,
                                          !.base = IF Is(c, "replace") THEN shared ELSE 0]
                     ELSE Reply(c, "409"))
          /\ revision' = shared
          /\ UNCHANGED <<standing, observer, remote, policy, policyFloor, shared, applied, turns, task>>
       \/ named > revision /\ Only(c, Reply(c, "503"))

CreateRoute(c)  == AdminEntered(c, "create") /\ RequireRevision(c)
ReplaceRoute(c) == AdminEntered(c, "replace") /\ RequireRevision(c)

\* /v1/config PUT compares without catching up; the document is the client's.
ConfigPut(c) ==
  /\ AdminEntered(c, "put")
  /\ \E named \in Named :
       Only(c, IF named = revision
               THEN [call[c] EXCEPT !.pc = "reading", !.expected = named, !.base = named]
               ELSE Reply(c, "409"))

\* read_json: the body arrives, is refused, or times out.  A new route is put
\* into the document that is active only now.
ReadBody(c) ==
  /\ CallAt(c, "reading")
  /\ \/ Only(c, [call[c] EXCEPT !.pc = "applying", !.base = IF Is(c, "create") THEN revision ELSE @])
     \/ \E answer \in {"400", "408"} : Only(c, Reply(c, answer))

\* A fleet-wide purge edits the snapshot it has just read.
PurgeFleet(c) ==
  /\ AdminEntered(c, "purge")
  /\ Only(c, [call[c] EXCEPT !.pc = "applying", !.expected = revision, !.base = revision])

-----------------------------------------------------------------------------
(* Work that outlives its caller. *)

Started(c, step, next) ==
  /\ CallBecomes(c, next)
  /\ task' = [task EXCEPT ![c] = [NoTask EXCEPT !.step = step, !.base = call[c].base,
                                    !.named = call[c].expected, !.gen = call[c].gen]]
  /\ UNCHANGED World

TaskMoves(c, next) == task' = [task EXCEPT ![c] = next] /\ UNCHANGED <<World, call>>
Result(result) == [NoTask EXCEPT !.result = result]

\* apply_inner: the transaction runs to its end even if its caller leaves.
StartEdit(c) ==
  /\ CallAt(c, "applying")
  /\ \/ Started(c, "accept", [call[c] EXCEPT !.pc = "waiting"])
     \/ Only(c, Reply(c, "503"))

\* What apply_locked accepts: the document was built on the active revision.
Accepted(c) == task[c].named = revision

\* apply_locked, under the write lock: the revision, the document itself, and
\* the durable acceptance, which is where the authority is judged.
AcceptEdit(c) ==
  /\ task[c].step = "accept" /\ ~Writing
  /\ IF ~Accepted(c) THEN TaskMoves(c, Result("409"))
     ELSE \/ TaskMoves(c, IF Authority(c) THEN [task[c] EXCEPT !.step = "commit"]
                                         ELSE Result("403"))
          \/ \E failure \in {"422", "503"} : TaskMoves(c, Result(failure))

\* The exchange with the shared store: the guarded write and its publication,
\* whose own end may fail; a conflict, which brings the winner's document; no
\* answer; or a write whose acknowledgement or publication was lost.
CommitEdit(c) ==
  LET edit == [by |-> c, at |-> shared, base |-> task[c].base, named |-> task[c].named]
      commit(result, active) ==
        /\ shared = revision /\ shared < MaxShared
        /\ shared' = shared + 1 /\ revision' = active /\ applied' = applied \cup {edit}
        /\ task' = [task EXCEPT ![c] = Result(result)]
        /\ UNCHANGED <<standing, observer, remote, policy, policyFloor, turns, call>>
  IN /\ task[c].step = "commit"
     /\ \/ \E result \in {"ok", "503"} : commit(result, shared + 1)
        \/ commit("500", revision)
        \/ \E failure \in {"500", "503"} : TaskMoves(c, Result(failure))
        \/ /\ shared # revision
           /\ revision' = shared /\ task' = [task EXCEPT ![c] = Result("409")]
           /\ UNCHANGED <<standing, observer, remote, policy, policyFloor, shared, applied, turns, call>>

\* apply_problem tells the caller what became of its edit.
AwaitEdit(c) ==
  /\ CallAt(c, "waiting") /\ call[c].kind \in Edits /\ task[c].result # "none"
  /\ Only(c, IF task[c].result = "ok" THEN Shown(c, "200") ELSE Reply(c, task[c].result))

\* Inventory reading: the permit goes into the blocking task, the request
\* waits for five seconds at most.
CertificateInventory(c) ==
  \/ /\ AdminEntered(c, "certificates")
     /\ IF FreePermit("certificates")
        THEN Started(c, "certificates", [call[c] EXCEPT !.pc = "waiting"])
        ELSE Only(c, Reply(c, "503"))
  \/ /\ CallAt(c, "waiting") /\ Is(c, "certificates")
     /\ \/ task[c].result = "ok" /\ Only(c, Reply(c, "200"))
        \/ task[c].step = "certificates" /\ Only(c, Reply(c, "503"))

\* A ban release takes one of four permits; its admission is a blocking
\* account transaction that runs even if the caller goes away.
ReleaseBans(c) ==
  /\ AdminEntered(c, "release")
  /\ IF FreePermit("release")
     THEN Started(c, "admitRelease", [call[c] EXCEPT !.pc = "waiting"])
     ELSE Only(c, Reply(c, "503"))

\* handle_pumgye: the parent revision and the remote are pinned before the body.
Pumgye(c) ==
  \/ /\ AdminEntered(c, "pumgye")
     /\ \/ Only(c, [call[c] EXCEPT !.pc = "pinned", !.base = revision, !.gen = remote])
        \/ Only(c, Reply(c, "409"))
  \/ /\ CallAt(c, "pinned")
     /\ IF FreePermit("pumgye")
        THEN Started(c, "admitPumgye", [call[c] EXCEPT !.pc = "waiting"])
        ELSE Only(c, Reply(c, "503"))

\* authorized_action: admitted only under live authority, and for Pumgye
\* only while the snapshot it pinned is the active one.
AdmitTask(c) ==
  LET inScope == revision = task[c].base /\ remote = task[c].gen
      refuse  == [NoTask EXCEPT !.result = "refused"] IN
  \/ /\ task[c].step = "admitRelease"
     /\ TaskMoves(c, IF Authority(c) THEN [NoTask EXCEPT !.step = "release"] ELSE refuse)
  \/ /\ task[c].step = "admitPumgye"
     /\ TaskMoves(c, IF Authority(c) /\ inScope THEN [NoTask EXCEPT !.step = "pumgye"] ELSE refuse)

TaskEnds(c) ==
  /\ task[c].step \in {"release", "certificates"}
  /\ \E result \in {"ok", "failed"} :
       task' = [task EXCEPT ![c] = [NoTask EXCEPT !.result = result]]
  /\ call' = [call EXCEPT ![c].live = CallAt(c, "waiting") /\ Authority(c)]
  /\ UNCHANGED World

\* management on the remote: a policy read or publication that is confirmed
\* raises the floor below which the remote's answers are no longer accepted.
RaiseFloor(acknowledged) == IF acknowledged > policyFloor THEN acknowledged ELSE policyFloor

PumgyeEnds(c) ==
  /\ task[c].step = "pumgye"
  /\ \E published \in {0, 1}, confirmed \in BOOLEAN :
       /\ policy + published <= 2
       /\ policy' = policy + published
       /\ IF confirmed
          THEN /\ policyFloor' = RaiseFloor(policy')
               /\ task' = [task EXCEPT ![c] = [NoTask EXCEPT !.result = "ok", !.acknowledged = policy']]
          ELSE policyFloor' = policyFloor
               /\ task' = [task EXCEPT ![c] = [NoTask EXCEPT !.result = "failed"]]
  /\ call' = [call EXCEPT ![c].live = CallAt(c, "waiting") /\ Authority(c)]
  /\ UNCHANGED <<standing, observer, remote, revision, shared, applied, turns>>

\* The caller, if it is still there: revoked authority or a retired remote
\* hides the outcome of work that was done.
AwaitTask(c) ==
  /\ CallAt(c, "waiting") /\ call[c].kind \in Detached /\ task[c].result # "none"
  /\ Only(c, CASE task[c].result = "refused" -> Reply(c, "403")
               [] task[c].result = "failed"  -> Reply(c, "503")
               [] ~Disclosable(c)            -> Reply(c, "403")
               [] Is(c, "pumgye") /\ call[c].gen # remote -> Reply(c, "503")
               [] OTHER                      -> Shown(c, "200"))

-----------------------------------------------------------------------------
(* The event stream. *)

StreamOpens(c) ==
  /\ Entered(c, "events")
  /\ Only(c, [call[c] EXCEPT !.pc = "streaming", !.seen = call[c].role = "admin"])

\* A stream that was privileged ends when the role is withdrawn.
Withdrawn(c, may) == call[c].seen /\ ~may

Tick(c) ==
  LET may == Authority(c) IN
  /\ CallAt(c, "streaming")
  /\ \/ /\ call[c].cred = "session"                     \* the store cannot answer
        /\ Only(c, Closed(c))
     \/ Only(c, IF (call[c].cred = "session" /\ standing = "gone") \/ Withdrawn(c, may)
                THEN [call[c] EXCEPT !.pc = "sending", !.frame = "expired"]
                ELSE [call[c] EXCEPT !.seen = @ \/ may,
                                     !.frame = IF may THEN "traffic" ELSE "status",
                                     !.sawTraffic = @ \/ may])

-----------------------------------------------------------------------------
(* The client and the world. *)

\* The body was read, or the connection is gone.
Sent(c) == CallAt(c, "sending") /\ Only(c, Closed(c))

\* The client leaves while its request is being served: the future is dropped.
Cancel(c) ==
  /\ call[c].pc \notin {"idle", "sending", "closed"}
  /\ Only(c, Closed(c))

Turn == turns < MaxTurns /\ turns' = turns + 1

\* Another administrator demotes, promotes, or signs the account out.
AccountChanges ==
  /\ Turn /\ standing # "gone"
  /\ standing' \in {"admin", "viewer", "gone"} \ {standing}
  /\ UNCHANGED <<observer, remote, policy, policyFloor, revision, shared, applied, call, task>>

ObserverRotates ==
  /\ Turn /\ observer' = observer + 1
  /\ UNCHANGED <<standing, remote, policy, policyFloor, revision, shared, applied, call, task>>

\* Another member publishes; this instance follows, perhaps with another remote.
OthersPublish ==
  /\ shared < MaxShared /\ shared' = shared + 1
  /\ UNCHANGED <<standing, observer, remote, policy, policyFloor, revision, applied, turns, call, task>>

Follow ==
  /\ revision < shared /\ ~Writing /\ revision' = shared
  /\ remote' \in {remote, remote + 1}
  /\ UNCHANGED <<standing, observer, policy, policyFloor, shared, applied, turns, call, task>>

AdminApiNext ==
  \/ \E c \in Callers :
       \/ Admit(c) \/ PublicAsset(c) \/ PublicAuth(c) \/ Observation(c) \/ ConfirmObservation(c)
       \/ Authenticate(c) \/ ViewerRefused(c) \/ Status(c) \/ Me(c) \/ SsoLease(c) \/ Logout(c)
       \/ Plugins(c) \/ Restart(c) \/ UpdateCheck(c) \/ UpdateStatus(c) \/ Metrics(c)
       \/ HashPassword(c) \/ ResolveDocker(c) \/ DockerChange(c) \/ ReleaseOperation(c)
       \/ CacheStatus(c) \/ TrafficPage(c) \/ TcpPage(c)
       \/ RetiredMembers(c) \/ GetRoutes(c) \/ GetConfig(c) \/ ValidateConfig(c)
       \/ ConfigOperations(c) \/ PruneOperations(c) \/ Users(c) \/ UserAudit(c) \/ AuditPolicy(c)
       \/ FleetObservations(c) \/ JournalPage(c) \/ ListBans(c) \/ GeoStatus(c)
       \/ GeoLookup(c) \/ CommitReceipts(c)
       \/ CommitReceiptV2(c) \/ CommitReceipt(c) \/ OperationProof(c) \/ DockerConnection(c)
       \/ CreateRoute(c) \/ ReplaceRoute(c) \/ ConfigPut(c) \/ ReadBody(c) \/ PurgeFleet(c)
       \/ StartEdit(c) \/ AcceptEdit(c) \/ CommitEdit(c) \/ AwaitEdit(c)
       \/ CertificateInventory(c) \/ ReleaseBans(c) \/ Pumgye(c) \/ AdmitTask(c) \/ TaskEnds(c)
       \/ PumgyeEnds(c) \/ AwaitTask(c) \/ StreamOpens(c) \/ Tick(c) \/ Sent(c) \/ Cancel(c)
  \/ AccountChanges \/ ObserverRotates \/ OthersPublish \/ Follow

-----------------------------------------------------------------------------
\* Peers that read slowly pin only their own budget: an administrator permit
\* that is held while a body is sent belongs to an administrator's reply, or to
\* a reply of the account store's failure; login permits are never held then.
BudgetsSeparate ==
  /\ \A b \in Budgets : Holders(b) <= Budget[b]
  /\ \A c \in Callers : CallAt(c, "sending") =>
       /\ "admin" \in call[c].held =>
            call[c].role = "admin" \/ (call[c].cred = "session" /\ call[c].answer = "503")
       /\ "auth" \notin call[c].held
       /\ call[c].answer \in {"401", "403"} => call[c].held \subseteq {"viewer"}

\* What was read on an administrator's behalf is shown only if the authority
\* was live at some moment after the reading, however long it took.
DisclosureLive ==
  \A c \in Callers :
    call[c].kind \in GuardedKinds \cup Detached /\ call[c].answer = "200" => call[c].live

\* Every edit replaced the revision its client named and its document was built
\* from, so no concurrent edit is overwritten; a client that is told of success
\* made its edit, and one that is told of a conflict or a refusal did not, even
\* though the transaction goes on without its caller.
EditsBuiltOnNamed ==
  /\ \A e \in applied : e.base = e.at /\ e.named = e.at
  /\ \A c \in Callers : call[c].kind \in Edits =>
       /\ call[c].answer = "200" => \E e \in applied : e.by = c
       /\ call[c].answer \in {"403", "409"} => \A e \in applied : e.by # c

\* A stream that has shown traffic never goes on as a status-only stream.
StreamHonest == \A c \in Callers : call[c].sawTraffic => call[c].frame # "status"

\* What the remote acknowledged is never again accepted at an older revision,
\* whether or not the caller stayed to hear of it.
FloorHolds == \A c \in Callers : task[c].acknowledged <= policyFloor

\* A page of operations is the window of the rows of all pools in order.
PageExact ==
  LET AllRows[k \in 0..Len(Pools)] ==
        IF k = 0 THEN <<>> ELSE AllRows[k - 1] \o [i \in 1..Pools[k] |-> <<k, i>>]
      all == AllRows[Len(Pools)]
  IN \A c \in Callers : Is(c, "operations") /\ call[c].answer = "200" =>
       LET offset == call[c].window[1]
           limit  == call[c].window[2]
           count  == IF offset >= Len(all) THEN 0
                     ELSE IF offset + limit <= Len(all) THEN limit ELSE Len(all) - offset
       IN call[c].rows = [i \in 1..count |-> all[offset + i]]

\* The administration surface as a whole, see the parts above.
AdminSound ==
  BudgetsSeparate /\ DisclosureLive /\ EditsBuiltOnNamed /\ StreamHonest /\ FloorHolds /\ PageExact
=============================================================================
