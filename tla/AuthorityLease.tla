---------------------------- MODULE AuthorityLease ----------------------------
(***************************************************************************)
(* What keeps an authorized stream open.  The permission authority's       *)
(* runtime (pumgye.rs) decides each request over its permissions, probes   *)
(* the authority in the background and lends every stream a lease: its     *)
(* revision is the greatest known and the authority was heard of lately.   *)
(* The identity authority's lease (proxy.rs, Renewal) is renewed at half   *)
(* its life for as long as the same identity is confirmed.                 *)
(*                                                                         *)
(* Both authorities are external: the permission authority publishes       *)
(* revisions that grant a set of permissions, the identity may be revoked, *)
(* and either may stop answering.  A tick is the runtime's probe period.   *)
(***************************************************************************)
EXTENDS Naturals, Sequences, FiniteSets

CONSTANTS
    LeaseStreams,   \* requests and the streams they become
    Permissions,    \* the permissions a route's method needs
    LeaseAge,       \* ticks since the last success within which a lease holds
    Deadline,       \* ticks an exchange with the authority may take
    EvidenceTtl,    \* ticks of x-hopae-evidence-ttl-ms
    MaxGrants, MaxLeaseClock

ASSUME LeaseConstants ==
    /\ {LeaseAge, Deadline, MaxGrants, MaxLeaseClock} \subseteq Nat
    /\ EvidenceTtl \in Nat \ {0}                        \* 1..=1000 ms
    /\ IsFiniteSet(Permissions) /\ Permissions # {}     \* "invalid permission count"

VARIABLES
    leaseClock,
    grants,      \* external: revision -> permissions granted
    granted,     \* external: tick each revision was published
    known,       \* DecisionClient.revision
    runtime,     \* AuthorityRuntime: started, healthy, last (0 = never) success
    leaseProbe,  \* the watch's exchange in flight
    leaseStreams, \* request and stream state
    confirmed,   \* external: tick the identity was revoked, or Unrevoked
    renewals     \* stream -> its Renewal

leaseVars == <<leaseClock, grants, granted, known, runtime, leaseProbe, leaseStreams, confirmed,
               renewals>>

-----------------------------------------------------------------------------
Unrevoked == MaxLeaseClock + EvidenceTtl + LeaseAge + Deadline + 1
Top == Len(grants)
NoExchange == [at |-> "none"]
Raise(r) == IF r > known THEN r ELSE known
NoRenewal == [state |-> "none"]

LeaseInit ==
    /\ leaseClock = 0
    /\ grants \in {<<p>> : p \in SUBSET Permissions}
    /\ granted = <<0>>
    /\ known = 1
    /\ runtime = [started |-> FALSE, healthy |-> FALSE, last |-> 0]
    /\ leaseProbe = NoExchange
    /\ leaseStreams = [s \in LeaseStreams |-> [at |-> "new"]]
    /\ confirmed = Unrevoked
    /\ renewals = [s \in LeaseStreams |-> NoRenewal]

LeaseTick ==
    /\ leaseClock < MaxLeaseClock
    /\ leaseClock' = leaseClock + 1
    /\ UNCHANGED <<grants, granted, known, runtime, leaseProbe, leaseStreams, confirmed, renewals>>

(* External *)
ChangeGrants ==
    /\ Top < MaxGrants
    /\ \E p \in SUBSET Permissions :
          /\ grants' = Append(grants, p)
          /\ granted' = Append(granted, leaseClock)
    /\ UNCHANGED <<leaseClock, known, runtime, leaseProbe, leaseStreams, confirmed, renewals>>
RevokeEvidence ==
    /\ confirmed = Unrevoked
    /\ confirmed' = leaseClock
    /\ UNCHANGED <<leaseClock, grants, granted, known, runtime, leaseProbe, leaseStreams, renewals>>

(* success: the time is stored, then the health *)
Heard == [runtime EXCEPT !.healthy = TRUE, !.last = leaseClock + 1]

-----------------------------------------------------------------------------
(* The watch is started by the first request.  authorize asks a batch of   *)
(* queries, one per permission, answered one after the other, each at the  *)
(* revision the authority then has; authorize_resource asks for one.       *)
AskFor(s, asks) ==
    /\ leaseStreams[s].at = "new"
    /\ runtime' = [runtime EXCEPT !.started = TRUE]
    /\ leaseStreams' = [leaseStreams EXCEPT ![s] =
          [at |-> "asking", asks |-> asks, began |-> leaseClock, replies |-> <<>>]]
    /\ UNCHANGED <<leaseClock, grants, granted, known, leaseProbe, confirmed, renewals>>
AuthorizeRoute(s) == AskFor(s, Permissions)
AuthorizeResource(s, action) == AskFor(s, {action})

(* One query of decide_batch: the reply is held against the floor *)
BatchReply(s) ==
    LET q == leaseStreams[s]
    IN  /\ q.at = "asking"
        /\ Len(q.replies) < Cardinality(q.asks)
        /\ leaseClock < q.began + Deadline
        /\ Top >= known
        /\ known' = Raise(Top)
        /\ leaseStreams' = [leaseStreams EXCEPT ![s].replies = Append(@, Top)]
        /\ UNCHANGED <<leaseClock, grants, granted, runtime, leaseProbe, confirmed, renewals>>

\* Mutant: the replies of a batch need not be of one revision.
OneRevisionUnasked(replies) == TRUE

(* decide_batch's last test: one revision, and still the greatest known *)
OneRevision(replies) ==
    /\ \A i \in DOMAIN replies : replies[i] = replies[1]
    /\ replies[1] >= known

(* A permission is granted by the reply to its own query *)
AllGranted(asks, replies) ==
    \E order \in [DOMAIN replies -> asks] :
        /\ \A i, j \in DOMAIN replies : order[i] = order[j] => i = j
        /\ \A i \in DOMAIN replies : order[i] \in grants[replies[i]]

(* The batch is complete: the stream opens under its revision *)
Conclude(s) ==
    LET q == leaseStreams[s]
    IN  /\ q.at = "asking"
        /\ Len(q.replies) = Cardinality(q.asks)
        /\ leaseClock < q.began + Deadline
        /\ runtime' = IF OneRevision(q.replies) THEN Heard ELSE runtime
        /\ leaseStreams' = [leaseStreams EXCEPT ![s] =
              IF OneRevision(q.replies) /\ AllGranted(q.asks, q.replies)
              THEN [at |-> "open", asks |-> q.asks, rev |-> q.replies[1], seen |-> leaseClock]
              ELSE [at |-> "closed"]]
        /\ UNCHANGED <<leaseClock, grants, granted, known, leaseProbe, confirmed, renewals>>

AuthorizeFails(s) ==
    /\ leaseStreams[s].at = "asking"
    /\ leaseStreams' = [leaseStreams EXCEPT ![s] = [at |-> "closed"]]
    /\ UNCHANGED <<leaseClock, grants, granted, known, runtime, leaseProbe, confirmed, renewals>>

(* start_watch: one probe at a time *)
SendProbe ==
    /\ runtime.started
    /\ leaseProbe = NoExchange
    /\ leaseProbe' = [at |-> "sent", began |-> leaseClock]
    /\ UNCHANGED <<leaseClock, grants, granted, known, runtime, leaseStreams, confirmed, renewals>>
AnswerProbe ==
    /\ leaseProbe.at = "sent"
    /\ Top >= known
    /\ leaseProbe' = [at |-> "answered", began |-> leaseProbe.began, rev |-> Top]
    /\ UNCHANGED <<leaseClock, grants, granted, known, runtime, leaseStreams, confirmed, renewals>>
ProbeSucceeds ==
    /\ leaseProbe.at = "answered"
    /\ leaseClock < leaseProbe.began + Deadline
    /\ leaseProbe.rev >= known
    /\ known' = Raise(leaseProbe.rev)
    /\ runtime' = Heard
    /\ leaseProbe' = NoExchange
    /\ UNCHANGED <<leaseClock, grants, granted, leaseStreams, confirmed, renewals>>
ProbeFails ==
    /\ leaseProbe # NoExchange
    /\ runtime' = [runtime EXCEPT !.healthy = FALSE]
    /\ leaseProbe' = NoExchange
    /\ UNCHANGED <<leaseClock, grants, granted, known, leaseStreams, confirmed, renewals>>

(* lease_current *)
LeaseHolds(rev) ==
    /\ runtime.last > 0 /\ runtime.healthy
    /\ known = rev
    /\ leaseClock + 1 - runtime.last <= LeaseAge

-----------------------------------------------------------------------------
(* Renewal.  start: the evidence's own ttl, counted from when it was asked *)
EvidenceExpiry(began) == began + EvidenceTtl

RestingRenewal(began) ==
    [state |-> "resting", expires |-> EvidenceExpiry(began), failed |-> FALSE, began |-> 0]
EndedRenewal == [state |-> "ended", expires |-> 0, failed |-> TRUE, began |-> 0]

StartRenewal(s) ==
    /\ leaseStreams[s].at = "open" /\ renewals[s] = NoRenewal
    /\ confirmed = Unrevoked
    /\ renewals' = [renewals EXCEPT ![s] = RestingRenewal(leaseClock)]
    /\ UNCHANGED <<leaseClock, grants, granted, known, runtime, leaseProbe, leaseStreams, confirmed>>

RenewalCurrent(s) == ~renewals[s].failed /\ leaseClock < renewals[s].expires

(* Half of the remaining life has passed: the same evidence is verified *)
AskRenewal(s) ==
    /\ renewals[s].state = "resting"
    /\ renewals' = [renewals EXCEPT ![s] =
          IF RenewalCurrent(s) THEN [@ EXCEPT !.state = "verifying", !.began = leaseClock]
          ELSE EndedRenewal]
    /\ UNCHANGED <<leaseClock, grants, granted, known, runtime, leaseProbe, leaseStreams, confirmed>>
ConfirmRenewal(s) ==
    /\ renewals[s].state = "verifying"
    /\ confirmed = Unrevoked
    /\ renewals' = [renewals EXCEPT ![s].state = "confirmed"]
    /\ UNCHANGED <<leaseClock, grants, granted, known, runtime, leaseProbe, leaseStreams, confirmed>>

(* The answer is used only while the old deadline still holds; anything    *)
(* else fails the lease for good.                                          *)
TakeRenewal(s) ==
    LET kept == /\ renewals[s].state = "confirmed" /\ RenewalCurrent(s)
                /\ leaseClock < EvidenceExpiry(renewals[s].began)
    IN  /\ renewals[s].state \in {"verifying", "confirmed"}
        /\ renewals' = [renewals EXCEPT
              ![s] = IF kept THEN RestingRenewal(@.began) ELSE EndedRenewal]
        /\ UNCHANGED <<leaseClock, grants, granted, known, runtime, leaseProbe, leaseStreams, confirmed>>

-----------------------------------------------------------------------------
(* AuthRouteLease::retirement, polled while the stream is open: it goes on *)
(* only if every lease it holds is current; RenewalCurrent also latches.   *)
PollStream(s) ==
    LET goes == /\ LeaseHolds(leaseStreams[s].rev)
                /\ renewals[s] # NoRenewal => RenewalCurrent(s)
    IN  /\ leaseStreams[s].at = "open"
        /\ leaseStreams' = [leaseStreams EXCEPT ![s] =
              IF goes THEN [@ EXCEPT !.seen = leaseClock] ELSE [at |-> "closed"]]
        /\ renewals' = [renewals EXCEPT ![s] =
              IF goes THEN @ ELSE NoRenewal]
        /\ UNCHANGED <<leaseClock, grants, granted, known, runtime, leaseProbe, confirmed>>

EndStream(s) ==
    /\ leaseStreams[s].at = "open"
    /\ leaseStreams' = [leaseStreams EXCEPT ![s] = [at |-> "closed"]]
    /\ renewals' = [renewals EXCEPT ![s] = NoRenewal]
    /\ UNCHANGED <<leaseClock, grants, granted, known, runtime, leaseProbe, confirmed>>

LeaseNext ==
    \/ LeaseTick \/ ChangeGrants \/ RevokeEvidence
    \/ SendProbe \/ AnswerProbe \/ ProbeSucceeds \/ ProbeFails
    \/ \E s \in LeaseStreams :
          \/ AuthorizeRoute(s) \/ \E p \in Permissions : AuthorizeResource(s, p)
          \/ BatchReply(s) \/ Conclude(s) \/ AuthorizeFails(s)
          \/ StartRenewal(s) \/ AskRenewal(s) \/ ConfirmRenewal(s) \/ TakeRenewal(s)
          \/ PollStream(s) \/ EndStream(s)

LeaseSpec == LeaseInit /\ [][LeaseNext]_leaseVars

-----------------------------------------------------------------------------
(* Streams outlive neither their permission nor their identity.  A stream  *)
(* is open under one revision that grants every permission it needs, even  *)
(* though its queries were answered one by one while the policy changed;   *)
(* it was last found current less than the lease's age plus one exchange   *)
(* after a newer revision was published; and, where its identity is        *)
(* renewed, less than the evidence's ttl after the identity was revoked,   *)
(* however the answers were delayed.  (decide_batch, authorize,            *)
(* start_watch, lease_current, Renewal::start, AuthRouteLease::retirement) *)
LeaseSound ==
    \A s \in LeaseStreams : leaseStreams[s].at = "open" => LET q == leaseStreams[s] IN
        /\ q.asks \subseteq grants[q.rev]
        /\ q.rev < Top => q.seen < granted[q.rev + 1] + LeaseAge + Deadline
        /\ (renewals[s] # NoRenewal /\ ~renewals[s].failed) =>
              q.seen < confirmed + EvidenceTtl
=============================================================================
