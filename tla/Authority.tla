----------------------------- MODULE Authority -----------------------------
(***************************************************************************)
(* What the shared configuration authority promises its instances: one     *)
(* durable document per epoch that only a successor of the current         *)
(* revision replaces, and instances that serve documents which were        *)
(* durable, moving forward within the epoch they follow.  How a write gets *)
(* there (acknowledgements, retries, journals, polls) is not visible.      *)
(***************************************************************************)
EXTENDS Integers

CONSTANTS Instances, Documents, None

VARIABLES
  current,   \* the durable [epoch, config], or None while the store is empty
  past,      \* every [epoch, config] that was ever current
  view       \* what instance i serves: [epoch, config], or None

varsA == <<current, past, view>>

\* config.revision orders the documents of one epoch.
AInit == current = None /\ past = {} /\ view = [i \in Instances |-> None]

\* The empty store is bootstrapped under an epoch nobody has seen.
Seed ==
  /\ current = None
  /\ current' \in [epoch : Nat, config : Documents]
  /\ \A p \in past : p.epoch # current'.epoch
  /\ past' = past \cup {current'}

\* A write replaces the current document by one of the next revision.
Commit ==
  /\ current # None
  /\ current' \in [epoch : {current.epoch}, config : Documents]
  /\ current'.config.revision = current.config.revision + 1
  /\ past' = past \cup {current'}
  /\ UNCHANGED view

\* The operator empties the store or restores an earlier document.
Lose == current' = None /\ UNCHANGED <<past, view>>
Rewind == current' \in past /\ UNCHANGED <<past, view>>

\* Instance i begins to serve a document that was durable; without a
\* recorded epoch (None) it has not attached to a history yet.
Attach(i) ==
  /\ \E p \in past' : \E e \in {p.epoch, None} :
       view' = [view EXCEPT ![i] = [epoch |-> e, config |-> p.config]]
  /\ view[i] = None \/ view[i].epoch = None

\* Instance i follows its epoch to a later revision.
Advance(i) ==
  /\ view[i] # None
  /\ \E p \in past :
       /\ p.epoch = view[i].epoch /\ p.config.revision > view[i].config.revision
       /\ view' = [view EXCEPT ![i] = p]
  /\ UNCHANGED <<current, past>>

Leave(i) == view' = [view EXCEPT ![i] = None] /\ UNCHANGED <<current, past>>

ANext ==
  \/ \E i \in Instances :
       \/ Attach(i) /\ (UNCHANGED <<current, past>> \/ Seed)
       \/ Advance(i) \/ Leave(i)
  \/ Commit \/ Lose \/ Rewind

ASpec == AInit /\ [][ANext]_varsA
=============================================================================
