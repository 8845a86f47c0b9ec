---------------------------- MODULE AdminAccounts ----------------------------
(***************************************************************************)
(* Administrator accounts, bearer sessions and the account audit of one     *)
(* instance (admin_users.rs).  Every operation is one immediate SQLite      *)
(* transaction, except a login: it reads the account, derives the password  *)
(* hash outside any transaction, and inserts its session in a second one.   *)
(***************************************************************************)
EXTENDS Integers, FiniteSets, FiniteSetsExt

CONSTANTS
  Names,          \* user names
  Logins,         \* concurrent logins
  MaxUsers,       \* MAX_USERS
  MaxPerUser,     \* MAX_SESSIONS_PER_USER
  MaxSessions,    \* MAX_SESSIONS
  SessionTime,    \* SESSION_SECONDS
  LeaseTime,      \* the five seconds of an SSO lease
  AuditCapacity,  \* AUDIT_CAPACITY
  Policies,       \* filters: the sets of account changes a policy drops
  LastUser,       \* bound on user ids
  LastAudit,      \* bound on audit ids
  LastFiltered,   \* bound on filtered changes
  LastPolicy,     \* bound on policy revisions
  AccountClock    \* bound on time

ASSUME AccountBounds ==
  /\ MaxPerUser \in Nat \ {0} /\ AuditCapacity \in Nat \ {0} /\ LeaseTime \in Nat \ {0}
  /\ SessionTime >= LeaseTime /\ MaxSessions \in Nat /\ LastAudit \in Nat

VARIABLES
  users,        \* users: per id its name, role, enabled and password_epoch
  nextUser,     \* admin_audit_meta.next_user_id
  sessions,     \* sessions, with the account state they were granted on
  login,        \* logins between their two transactions
  audit,        \* admin_audit: the stored records
  auditMeta,    \* admin_audit_meta: next id, prune boundary, count, policy
  unexplained,  \* accounts with a change that was filtered or pruned
  accountNow    \* the clock

accountVars == <<users, nextUser, sessions, login, audit, auditMeta, unexplained, accountNow>>

Roles == {"admin", "viewer"}
NoLogin == [at |-> "idle", user |-> 0, epoch |-> 0, role |-> "viewer", since |-> 0]
Gone == [role |-> "none", enabled |-> FALSE]
StateOf(u) == [role |-> u.role, enabled |-> u.enabled]

AccountsInit ==
  /\ users = [u \in {} |-> 0] /\ nextUser = 1 /\ sessions = {} /\ accountNow = 0
  /\ login = [l \in Logins |-> NoLogin]
  /\ audit = {} /\ unexplained = {}
  /\ auditMeta = [next |-> 1, pruned |-> 0, stored |-> 0, revision |-> 0, dropped |-> {},
                  filtered |-> 0]

Enabled(u) == u \in DOMAIN users /\ users[u].enabled
Admins == {u \in DOMAIN users : users[u].role = "admin" /\ users[u].enabled}
SessionsOf(u, ss) == {s \in ss : s.user = u}
LiveSessions(ss) == {s \in ss : s.expires > accountNow}
\* authorize_mutation, inside the transaction: the caller is the instance's own
\* credential (System), or its session is valid and belongs to an enabled
\* administrator.
System == 0
MayMutate(by) == by = System \/ (by \in Admins /\ SessionsOf(by, LiveSessions(sessions)) # {})

----------------------------------------------------------------------------
(* The audit is part of the transaction it records *)

RoomInAudit == auditMeta.stored < AuditCapacity /\ auditMeta.next <= LastAudit
Entry(action, target, after) ==
  [id |-> auditMeta.next, action |-> action, target |-> target, after |-> after]
\* append_audit: a full audit fails the transaction.
AppendAudit(action, target, after) ==
  /\ RoomInAudit
  /\ audit' = audit \cup {Entry(action, target, after)}
  /\ auditMeta' = [auditMeta EXCEPT !.next = @ + 1, !.stored = @ + 1]
\* append_account_audit: a filtered change is counted instead.
AppendAccountAudit(action, target, after) ==
  IF action \in auditMeta.dropped
  THEN /\ auditMeta.filtered < LastFiltered
       /\ auditMeta' = [auditMeta EXCEPT !.filtered = @ + 1]
       /\ unexplained' = unexplained \cup {target} /\ UNCHANGED audit
  ELSE AppendAudit(action, target, after) /\ UNCHANGED unexplained

----------------------------------------------------------------------------
(* Accounts *)

Account(name, role) == [name |-> name, role |-> role, enabled |-> TRUE, epoch |-> 1]
Inserted(name, role) ==
  /\ nextUser <= LastUser /\ nextUser' = nextUser + 1
  /\ users' = [u \in DOMAIN users \cup {nextUser} |->
                 IF u = nextUser THEN Account(name, role) ELSE users[u]]

Bootstrap(name) ==
  /\ DOMAIN users = {} /\ Inserted(name, "admin")
  /\ AppendAudit("bootstrap", nextUser, StateOf(Account(name, "admin")))
  /\ UNCHANGED <<sessions, login, unexplained, accountNow>>

CreateUser(name, role) ==
  /\ Cardinality(DOMAIN users) \in 1..(MaxUsers - 1)
  /\ \A u \in DOMAIN users : users[u].name # name
  /\ Inserted(name, role)
  /\ AppendAccountAudit("create", nextUser, StateOf(Account(name, role)))
  /\ UNCHANGED <<sessions, login, accountNow>>

\* An update or deletion must leave an enabled administrator.
KeepsAdmin(u, role, enabled) ==
  u \in Admins /\ (role # "admin" \/ ~enabled) => Cardinality(Admins) > 1

\* An update fences password checks that are under way whenever it changes
\* what they would grant.
UpdateUser(u, role, enabled, password) ==
  LET changed == enabled # users[u].enabled \/ role # users[u].role
      revoked == password \/ ~enabled \/ role # users[u].role
  IN /\ KeepsAdmin(u, role, enabled)
     /\ users' = [users EXCEPT ![u].role = role, ![u].enabled = enabled,
                               ![u].epoch = IF password \/ changed THEN @ + 1 ELSE @]
     /\ sessions' = IF revoked THEN sessions \ SessionsOf(u, sessions) ELSE sessions
     /\ AppendAccountAudit("update", u, [role |-> role, enabled |-> enabled])
     /\ UNCHANGED <<nextUser, login, accountNow>>

\* Sessions go with their account (ON DELETE CASCADE).
DeleteUser(u) ==
  /\ KeepsAdmin(u, "viewer", FALSE)
  /\ users' = [v \in DOMAIN users \ {u} |-> users[v]]
  /\ sessions' = sessions \ SessionsOf(u, sessions)
  /\ AppendAccountAudit("delete", u, Gone)
  /\ UNCHANGED <<nextUser, login, accountNow>>

----------------------------------------------------------------------------
(* Sessions *)

\* The candidate is read and its password checked, outside a transaction.
LoginReads(l, u) ==
  /\ login[l].at = "idle" /\ users[u].enabled
  /\ login' = [login EXCEPT ![l] = [at |-> "checked", user |-> u, epoch |-> users[u].epoch,
                                    role |-> users[u].role, since |-> accountNow]]
  /\ UNCHANGED <<users, nextUser, sessions, audit, auditMeta, unexplained, accountNow>>

\* Mutant: the second transaction only looks whether the account is enabled.
LoginCandidateById(l) == Enabled(login[l].user)
\* login_candidate: the account is still the one whose password was checked.
LoginCandidate(l) == Enabled(login[l].user) /\ users[login[l].user].epoch = login[l].epoch

\* A session, with the account state `seen` that it was granted on.
\* A token is random; it only matters that no live session has it.
FreshToken == Min((1..(MaxSessions + 1)) \ {s.token : s \in sessions})
Granted(u, seen, now, time) == [token |-> FreshToken, user |-> u, epoch |-> seen.epoch,
                                role |-> seen.role, created |-> now, expires |-> now + time]
\* The sessions of u that stay when only its newest `room` may.
NewestKept(u, ss, room) ==
  {kept \in SUBSET SessionsOf(u, ss) :
     /\ Cardinality(kept) = Min({room, Cardinality(SessionsOf(u, ss))})
     /\ \A k \in kept, d \in SessionsOf(u, ss) \ kept : k.created >= d.created}

\* The session is inserted: at its own limit a user loses its oldest sessions,
\* at the global limit one of its own or the login.  The time `now` is read
\* before the transaction, which may wait for its turn.
LoginInserts(l, now) ==
  LET u == login[l].user
      live == {s \in sessions : s.expires > now}
      others == live \ SessionsOf(u, live)
      granted == Granted(u, login[l], now, SessionTime)
  IN /\ login[l].at = "checked" /\ login' = [login EXCEPT ![l] = NoLogin]
     /\ IF ~LoginCandidate(l) THEN UNCHANGED sessions
        ELSE \E kept \in NewestKept(u, live, MaxPerUser - 1) :
               IF Cardinality(others \cup kept) < MaxSessions
               THEN sessions' = others \cup kept \cup {granted}
               ELSE IF kept = {} THEN UNCHANGED sessions
               ELSE \E fewer \in NewestKept(u, kept, Cardinality(kept) - 1) :
                      sessions' = others \cup fewer \cup {granted}
     /\ UNCHANGED <<users, nextUser, audit, auditMeta, unexplained, accountNow>>

\* sso_lease: the broker's short lease evicts nobody.
SsoLease(u) ==
  /\ users[u].enabled
  /\ Cardinality(LiveSessions(sessions)) < MaxSessions
  /\ Cardinality(SessionsOf(u, LiveSessions(sessions))) < MaxPerUser
  /\ sessions' = LiveSessions(sessions) \cup {Granted(u, users[u], accountNow, LeaseTime)}
  /\ UNCHANGED <<users, nextUser, login, audit, auditMeta, unexplained, accountNow>>

Logout(s) ==
  /\ sessions' = sessions \ {s}
  /\ UNCHANGED <<users, nextUser, login, audit, auditMeta, unexplained, accountNow>>

----------------------------------------------------------------------------
(* Audit controls *)

\* set_audit_policy: the caller names the revision it read.
SetAuditPolicy(dropped) ==
  /\ dropped # auditMeta.dropped /\ auditMeta.revision < LastPolicy /\ RoomInAudit
  /\ audit' = audit \cup {Entry("policy", 0, Gone)}
  /\ auditMeta' = [auditMeta EXCEPT !.next = @ + 1, !.stored = @ + 1, !.revision = @ + 1,
                                    !.dropped = dropped]
  /\ UNCHANGED <<users, nextUser, sessions, login, unexplained, accountNow>>

\* prune_audit: through an id, which must be of the history the caller read.
PruneAudit(through) ==
  LET removed == {r \in audit : r.id <= through}
  IN /\ through \in (auditMeta.pruned + 1)..(auditMeta.next - 1)
     /\ removed # {} /\ auditMeta.next <= LastAudit
     /\ audit' = (audit \ removed) \cup {Entry("prune", 0, Gone)}
     /\ auditMeta' = [auditMeta EXCEPT !.pruned = through, !.next = @ + 1,
                                       !.stored = @ - Cardinality(removed) + 1]
     /\ unexplained' = unexplained \cup {r.target : r \in removed}
     /\ UNCHANGED <<users, nextUser, sessions, login, accountNow>>

AccountTick ==
  /\ accountNow < AccountClock /\ accountNow' = accountNow + 1
  /\ UNCHANGED <<users, nextUser, sessions, login, audit, auditMeta, unexplained>>

AccountsNext ==
  \/ \E n \in Names : Bootstrap(n)
  \/ /\ \E by \in {System} \cup DOMAIN users : MayMutate(by)
     /\ \/ \E n \in Names, r \in Roles : CreateUser(n, r)
        \/ \E u \in DOMAIN users :
             \/ \E r \in Roles, on, password \in BOOLEAN : UpdateUser(u, r, on, password)
             \/ DeleteUser(u)
        \/ \E dropped \in Policies : SetAuditPolicy(dropped)
        \/ \E through \in 1..LastAudit : PruneAudit(through)
  \/ \E u \in DOMAIN users : SsoLease(u) \/ \E l \in Logins : LoginReads(l, u)
  \/ \E l \in Logins, now \in 0..accountNow : now >= login[l].since /\ LoginInserts(l, now)
  \/ \E s \in sessions : Logout(s)
  \/ AccountTick

AccountsSpec == AccountsInit /\ [][AccountsNext]_accountVars

----------------------------------------------------------------------------
(* Properties *)

\* A session speaks for its account as it is now: disabling, demoting,
\* deleting or re-keying an account ends every session, those of logins that
\* were checking the old password included.
RevocationFinal ==
  /\ \A s \in sessions : /\ Enabled(s.user) /\ s.epoch = users[s.user].epoch
                         /\ s.role = users[s.user].role
  /\ Cardinality(sessions) <= MaxSessions
  /\ \A u \in DOMAIN users : Cardinality(SessionsOf(u, sessions)) <= MaxPerUser

\* Every change of an account left its trace: the latest stored record about
\* an account without filtered or pruned changes says what the account is.
AuditExplains ==
  /\ auditMeta.stored = Cardinality(audit) /\ auditMeta.stored <= AuditCapacity
  /\ \A r \in audit : r.id \in (auditMeta.pruned + 1)..(auditMeta.next - 1)
  /\ \A u \in (1..(nextUser - 1)) \ unexplained :
       \E r \in audit :
         /\ r.target = u /\ \A q \in audit : q.target = u => q.id <= r.id
         /\ r.after = IF u \in DOMAIN users THEN StateOf(users[u]) ELSE Gone

\* Sessions speak for accounts as they are, somebody can administer the
\* instance once it has an account, and every account can be traced.
AccountsSound == RevocationFinal /\ (DOMAIN users # {} => Admins # {}) /\ AuditExplains
=============================================================================
