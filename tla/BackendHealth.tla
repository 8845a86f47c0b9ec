---------------------------- MODULE BackendHealth ----------------------------
(***************************************************************************)
(* The health of one discovered HTTP backend (balance.rs): its node keeps   *)
(* the flags of one endpoint epoch, which requests read without a lock      *)
(* while the prober (active_probe.rs) and responses update them under one.  *)
(* Discovery replaces the endpoint at any time; whoever first observes the  *)
(* new epoch resets the node field by field and stores the epoch last.      *)
(*                                                                          *)
(* Admission gates and leases are the subject of MemberRetirement.          *)
(***************************************************************************)
EXTENDS Integers, Sequences

CONSTANTS
  Routed,             \* concurrent requests
  Prober,             \* the probe task of this backend
  Kinds,              \* kinds of failure: status, transport, timeout
  HealthySuccesses,   \* active_health.healthy_successes
  UnhealthyFailures,  \* active_health.unhealthy_*
  PassiveFailures,    \* passive_health.unhealthy_*, health.failure_threshold
  MaxEpoch,           \* bound on endpoints
  MaxEvidence         \* bound on probe results and responses

ASSUME HealthBounds ==
  /\ HealthySuccesses \in Nat \ {0} /\ UnhealthyFailures \in Nat \ {0}
  /\ PassiveFailures \in Nat \ {0} /\ MaxEpoch \in Nat \ {0}
  /\ Prober \notin Routed /\ "nobody" \notin Routed \cup {Prober}

VARIABLES
  policy,       \* "cooldown", "healthy" or "checking" (the initial state)
  discovered,   \* the epoch discovery resolves to, 0 for a missing endpoint
  epochs,       \* epochs handed out so far
  node,         \* Node: its epoch and the health it keeps
  holder,       \* who holds endpoint_lock, if anyone
  actor,        \* requests and prober: step, epoch, check of a read, store of a reset
  own,          \* per epoch, the health its own evidence amounts to
  evidences     \* results applied so far

healthVars == <<policy, discovered, epochs, node, holder, actor, own, evidences>>

Nobody == "nobody"
Actors == Routed \cup {Prober}
Idling == [at |-> "idle", epoch |-> 0, check |-> 1, round |-> 1, store |-> 1, judged |-> TRUE]
Zeroes == [k \in Kinds |-> 0]
\* The health a new endpoint starts with.
Initially == [active |-> policy = "checking", pending |-> policy = "checking",
              passive |-> FALSE, cooling |-> FALSE, successes |-> 0, failures |-> Zeroes,
              passiveFailures |-> Zeroes]
Fit(h) == ~h.pending /\ ~h.active /\ ~h.passive /\ ~h.cooling
\* What a node keeps beside its epoch.
HealthOf(n) == [f \in DOMAIN n \ {"epoch"} |-> n[f]]

HealthInit ==
  /\ policy \in {"cooldown", "healthy", "checking"}
  /\ discovered = 1 /\ epochs = 1 /\ holder = Nobody /\ evidences = 0
  /\ node = [f \in {"epoch"} \cup DOMAIN Initially |-> IF f = "epoch" THEN 0 ELSE Initially[f]]
  /\ actor = [a \in Actors |-> Idling]
  /\ own = [e \in 0..MaxEpoch |-> Initially]

----------------------------------------------------------------------------
(* Evidence *)

\* record_active_status_for, a healthy status.
ProbeHealthy(h) ==
  LET counted == [h EXCEPT !.failures = Zeroes,
                           !.successes = IF @ < HealthySuccesses THEN @ + 1 ELSE @]
  IN IF counted.successes < HealthySuccesses THEN counted
     ELSE [counted EXCEPT !.active = FALSE, !.passive = FALSE, !.pending = FALSE,
                          !.passiveFailures = Zeroes]
\* A neutral status breaks the streak of a backend that is being checked.
ProbeNeutral(h) == IF policy = "checking" THEN [h EXCEPT !.successes = 0] ELSE h
\* An unhealthy status, a transport failure or a timeout.
ProbeFailing(h, k) ==
  LET counted == [h EXCEPT !.successes = 0,
                           !.failures[k] = IF @ < UnhealthyFailures THEN @ + 1 ELSE @]
  IN [counted EXCEPT !.active = @ \/ counted.failures[k] >= UnhealthyFailures]
\* record_http_status, record_transport_failure, record_timeout.
ResponseFailing(h, k) ==
  LET counted == [h EXCEPT !.passiveFailures[k] = IF @ < PassiveFailures THEN @ + 1 ELSE @]
  IN [counted EXCEPT !.passive = @ \/ counted.passiveFailures[k] >= PassiveFailures]
\* The legacy cooldown: one streak whatever the kind.
Streak == CHOOSE k \in Kinds : TRUE
CooldownFailing(h) ==
  LET counted == [h EXCEPT !.failures[Streak] = IF @ < PassiveFailures THEN @ + 1 ELSE @]
  IN [counted EXCEPT !.cooling = @ \/ counted.failures[Streak] >= PassiveFailures]
CooldownHealthy(h) == [h EXCEPT !.failures = Zeroes, !.cooling = FALSE]

\* What one report makes of a health.
Probed(h, report) ==
  IF report = "good" THEN ProbeHealthy(h)
  ELSE IF report = "neutral" THEN ProbeNeutral(h) ELSE ProbeFailing(h, report)
Responded(h, report) ==
  IF policy = "cooldown"
  THEN IF report = "good" THEN CooldownHealthy(h) ELSE CooldownFailing(h)
  ELSE IF report \in {"good", "neutral"} THEN h ELSE ResponseFailing(h, report)
Reports == {"good", "neutral"} \cup Kinds

----------------------------------------------------------------------------
(* Discovery *)

\* A container is replaced, restarted or comes back: publish assigns a new epoch.
Replace ==
  /\ epochs < MaxEpoch /\ epochs' = epochs + 1 /\ discovered' = epochs + 1
  /\ UNCHANGED <<policy, node, holder, actor, own, evidences>>

Vanish ==
  /\ discovered # 0 /\ discovered' = 0
  /\ UNCHANGED <<policy, epochs, node, holder, actor, own, evidences>>

----------------------------------------------------------------------------
(* Resolving and observing an endpoint *)

Refused(a) == [actor EXCEPT ![a] = Idling]
\* The endpoint is observed: the prober probes it, a request checks it.
Observed(a) == [actor EXCEPT ![a].at = IF a = Prober THEN "probing" ELSE "checking",
                             ![a].store = 1]

Resolve(a) ==
  /\ actor[a] = Idling /\ discovered # 0 /\ (a = Prober => policy # "cooldown")
  /\ actor' = [actor EXCEPT ![a] = [Idling EXCEPT !.at = "resolved", !.epoch = discovered]]
  /\ UNCHANGED <<policy, discovered, epochs, node, holder, own, evidences>>

\* observe_epoch: the lock is only taken to move the node forward.
ObserveEpoch(a) ==
  /\ actor[a].at = "resolved"
  /\ actor' = IF node.epoch = actor[a].epoch THEN Observed(a)
              ELSE IF node.epoch > actor[a].epoch THEN Refused(a)
              ELSE [actor EXCEPT ![a].at = "locking"]
  /\ UNCHANGED <<policy, discovered, epochs, node, holder, own, evidences>>

\* ensure_epoch_locked reads the epoch again under the lock.
EnsureEpoch(a) ==
  /\ actor[a].at = "locking" /\ holder = Nobody
  /\ IF node.epoch < actor[a].epoch
     THEN holder' = a /\ actor' = [actor EXCEPT ![a].at = "resetting"]
     ELSE actor' = (IF node.epoch = actor[a].epoch THEN Observed(a) ELSE Refused(a))
          /\ UNCHANGED holder
  /\ UNCHANGED <<policy, discovered, epochs, node, own, evidences>>

\* The order in which a reset stores what readers see.
Stores == <<"cooling", "active", "pending", "passive", "counters", "epoch">>

\* Mutant: a reset clears every flag, also those a backend in checking starts with.
StoreFieldCleared(a, field) ==
  CASE field = "epoch" -> [node EXCEPT !.epoch = actor[a].epoch]
    [] field = "counters" -> [node EXCEPT !.successes = 0, !.failures = Zeroes,
                                          !.passiveFailures = Zeroes]
    [] OTHER -> [node EXCEPT ![field] = FALSE]

StoreField(a, field) ==
  CASE field = "epoch" -> [node EXCEPT !.epoch = actor[a].epoch]
    [] field = "counters" -> [node EXCEPT !.successes = 0, !.failures = Zeroes,
                                          !.passiveFailures = Zeroes]
    [] OTHER -> [node EXCEPT ![field] = Initially[field]]

ResetStep(a) ==
  /\ actor[a].at = "resetting" /\ node' = StoreField(a, Stores[actor[a].store])
  /\ IF actor[a].store = Len(Stores)
     THEN holder' = Nobody /\ actor' = Observed(a)
     ELSE actor' = [actor EXCEPT ![a].store = @ + 1] /\ UNCHANGED holder
  /\ UNCHANGED <<policy, discovered, epochs, own, evidences>>

----------------------------------------------------------------------------
(* A request checks the node, is admitted and reports its outcome *)

\* available_for: the epoch, the flags and the epoch again.
Checks == IF policy = "cooldown" THEN <<"epoch", "cooling", "epoch">>
          ELSE <<"epoch", "pending", "active", "passive", "epoch">>
Passes(r, field) == IF field = "epoch" THEN node.epoch = actor[r].epoch ELSE ~node[field]
\* available_for is asked by the selection, twice by acquire_for, and once
\* more before dispatch, when the endpoint is resolved again.
Rounds == 4
Last(r) == actor[r].round = Rounds
CheckField(r) ==
  /\ actor[r].at = "checking"
  /\ actor' =
       IF ~Passes(r, Checks[actor[r].check]) THEN Refused(r)
       ELSE IF actor[r].check < Len(Checks) THEN [actor EXCEPT ![r].check = @ + 1]
       ELSE [actor EXCEPT ![r].check = 1,
                          ![r].round = IF @ < Rounds - 1 THEN @ + 1 ELSE @,
                          ![r].at = IF Last(r) THEN "sent"
                                    ELSE IF actor[r].round = Rounds - 1 THEN "leased" ELSE @]
  /\ UNCHANGED <<policy, discovered, epochs, node, holder, own, evidences>>

\* Before dispatch the endpoint must still be the one discovery resolves to.
Redispatch(r) ==
  /\ actor[r].at = "leased"
  /\ actor' = IF discovered # actor[r].epoch THEN Refused(r)
              ELSE [actor EXCEPT ![r].at = "checking", ![r].round = Rounds,
                                 ![r].judged = Fit(own[actor[r].epoch])]
  /\ UNCHANGED <<policy, discovered, epochs, node, holder, own, evidences>>

\* with_current_epoch, and the record_active_* functions after their reset.
IsEpochNow(a) == node.epoch = actor[a].epoch

\* A check that is under way when its endpoint becomes fit is justified.
Witnessed(e, h) ==
  [b \in Actors |-> IF actor[b].at = "checking" /\ actor[b].epoch = e /\ Fit(h)
                    THEN [actor[b] EXCEPT !.judged = TRUE] ELSE actor[b]]

Judge(a, h, report) == IF a = Prober THEN Probed(h, report) ELSE Responded(h, report)
\* A report ends its actor's work; it counts for the endpoint it is about.
Report(a) ==
  LET e == actor[a].epoch
  IN \/ /\ IsEpochNow(a) /\ evidences < MaxEvidence /\ evidences' = evidences + 1
        /\ \E report \in Reports :
             LET h == Judge(a, HealthOf(node), report)
             IN /\ node' = [f \in DOMAIN node |-> IF f = "epoch" THEN node.epoch ELSE h[f]]
                /\ own' = [own EXCEPT ![e] = Judge(a, @, report)]
                /\ actor' = [Witnessed(e, Judge(a, own[e], report)) EXCEPT ![a] = Idling]
     \/ ~IsEpochNow(a) /\ actor' = Refused(a) /\ UNCHANGED <<node, own, evidences>>

Respond(r) ==
  /\ actor[r].at = "sent" /\ holder = Nobody /\ Report(r)
  /\ UNCHANGED <<policy, discovered, epochs, holder>>

\* The request is cancelled and reports nothing.
GiveUp(r) ==
  /\ actor[r].at \in {"leased", "sent"} /\ actor' = Refused(r)
  /\ UNCHANGED <<policy, discovered, epochs, node, holder, own, evidences>>

----------------------------------------------------------------------------
(* The prober *)

\* run_backend: a result counts only for the endpoint discovery still has.
ProbeReturns ==
  /\ actor[Prober].at = "probing"
  /\ actor' = IF discovered = actor[Prober].epoch THEN [actor EXCEPT ![Prober].at = "probed"]
              ELSE Refused(Prober)
  /\ UNCHANGED <<policy, discovered, epochs, node, holder, own, evidences>>

RecordProbe ==
  /\ actor[Prober].at = "probed" /\ holder = Nobody /\ Report(Prober)
  /\ UNCHANGED <<policy, discovered, epochs, holder>>

\* unavailable_until has passed.
CooldownEnds(e) ==
  /\ own[e].cooling /\ own' = [own EXCEPT ![e].cooling = FALSE]
  /\ node' = IF node.epoch = e THEN [node EXCEPT !.cooling = FALSE] ELSE node
  /\ actor' = Witnessed(e, [own[e] EXCEPT !.cooling = FALSE])
  /\ UNCHANGED <<policy, discovered, epochs, holder, evidences>>

HealthNext ==
  \/ \E a \in Actors : Resolve(a) \/ ObserveEpoch(a) \/ EnsureEpoch(a) \/ ResetStep(a)
  \/ \E r \in Routed : CheckField(r) \/ Redispatch(r) \/ Respond(r) \/ GiveUp(r)
  \/ ProbeReturns \/ RecordProbe \/ Replace \/ Vanish
  \/ \E e \in 1..MaxEpoch : CooldownEnds(e)

HealthSpec == HealthInit /\ [][HealthNext]_healthVars

----------------------------------------------------------------------------
(* Properties *)

\* Outside a reset the node holds exactly what the evidence on its own
\* endpoint amounts to: no flag, streak or count of a replaced container
\* survives in, or is added to, its successor.
EvidenceOwn == holder = Nobody => HealthOf(node) = own[node.epoch]

\* A backend that starts in checking receives no request before its own
\* endpoint passed its probes, however resets and reads overlap.
Qualified ==
  \A r \in Routed : policy = "checking" /\ actor[r].at \in {"leased", "sent"} =>
    ~own[actor[r].epoch].pending

\* What is kept, and what admits requests, is evidence on the endpoint itself.
OwnHealthOnly == EvidenceOwn /\ Qualified

\* "Health and admission must both apply to the exact endpoint generation":
\* a request is sent to an endpoint only if that endpoint's own health allowed
\* it at some moment of the check that admitted it.
JudgedByOwnHealth == \A r \in Routed : actor[r].at = "sent" => actor[r].judged
=============================================================================
