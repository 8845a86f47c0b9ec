---------------------------- MODULE HostOwnership ----------------------------
(***************************************************************************)
(* Which Ingresses may publish their hostnames (kubernetes.rs,              *)
(* authorize_hosts).  An Ingress is numbered by its place in the order of   *)
(* creation timestamp, uid and name that the code sorts by; timestamps have *)
(* whole seconds and may be missing, so that a new Ingress need not come    *)
(* last.  The decision is a function of the Ingresses the cache holds, and  *)
(* Ingresses are created, edited and deleted in any order.  An Ingress      *)
(* whose claims cannot be read is not among them.                           *)
(***************************************************************************)
EXTENDS Integers, FiniteSets

CONSTANTS
  Namespaces,
  Labels,       \* first labels of host names
  Suffixes,     \* what follows the first label
  Ages          \* places in the order of Ingresses, oldest first

ASSUME OwnershipConstants ==
  Ages \subseteq Int /\ "*" \notin Labels /\ "" \notin Labels

VARIABLE
  ingresses    \* the selected Ingresses: namespace and claimed patterns, by age

hostVars == <<ingresses>>

ExactHosts == Labels \X Suffixes
Wildcards == {"*"} \X Suffixes
\* The catch-all of rules without a host and of default backends.
CatchAll == <<"", "">>
Patterns == ExactHosts \cup Wildcards \cup {CatchAll}
Covers(w, e) == w \in Wildcards /\ e \in ExactHosts /\ w[2] = e[2]
Ingress == [namespace : Namespaces, claims : SUBSET Patterns]

\* i is the oldest claimant of p.
Oldest(ings, p, i) ==
  /\ i \in DOMAIN ings /\ p \in ings[i].claims
  /\ \A j \in DOMAIN ings : p \in ings[j].claims => i <= j
\* The namespace of the oldest claimant owns a pattern.
Owns(ings, p, n) == \E i \in DOMAIN ings : Oldest(ings, p, i) /\ ings[i].namespace = n

\* A wildcard w and a host name e that it covers belong to different namespaces.
Conflict(ings, w, e) ==
  /\ Covers(w, e)
  /\ \E i, j \in DOMAIN ings :
       Oldest(ings, w, i) /\ Oldest(ings, e, j) /\ ings[i].namespace # ings[j].namespace
\* Of the pair, e is the older claim.
Older(ings, e, w) == \E i, j \in DOMAIN ings : Oldest(ings, w, i) /\ Oldest(ings, e, j) /\ j < i

\* Mutant: of the two, the wildcard is withdrawn whatever its age.
DroppedWildcards(ings, p) == \E e \in ExactHosts : Conflict(ings, p, e)
\* A wildcard is withdrawn if any host name it conflicts with is older;
\* otherwise all of those host names are.
Dropped(ings, p) ==
  \/ p \in Wildcards /\ \E e \in ExactHosts : Conflict(ings, p, e) /\ Older(ings, e, p)
  \/ \E w \in Wildcards : Conflict(ings, w, p) /\ \A e \in ExactHosts : Conflict(ings, w, e) => ~Older(ings, e, w)

\* authorize_hosts: an Ingress is authorized if its namespace owns all it claims.
Authorized(ings, i) ==
  /\ i \in DOMAIN ings
  /\ \A p \in ings[i].claims : Owns(ings, p, ings[i].namespace) /\ ~Dropped(ings, p)

HostsInit == ingresses = [i \in {} |-> 0]

CreateIngress(k, g) ==
  ingresses' = [i \in DOMAIN ingresses \cup {k} |-> IF i = k THEN g ELSE ingresses[i]]

EditIngress(i, claims) == ingresses' = [ingresses EXCEPT ![i].claims = claims]

DeleteIngress(i) == ingresses' = [j \in DOMAIN ingresses \ {i} |-> ingresses[j]]

HostsNext ==
  \/ \E k \in Ages \ DOMAIN ingresses, g \in Ingress : CreateIngress(k, g)
  \/ \E i \in DOMAIN ingresses : DeleteIngress(i) \/ \E c \in SUBSET Patterns : EditIngress(i, c)

HostsSpec == HostsInit /\ [][HostsNext]_hostVars

----------------------------------------------------------------------------
(* Properties *)

Overlap(p, q) == p = q \/ Covers(p, q) \/ Covers(q, p)

\* No two namespaces publish the same or overlapping hostnames.
Exclusive ==
  \A i, j \in DOMAIN ingresses :
    Authorized(ingresses, i) /\ Authorized(ingresses, j)
      /\ ingresses[i].namespace # ingresses[j].namespace
    => \A p \in ingresses[i].claims, q \in ingresses[j].claims : ~Overlap(p, q)

\* The oldest Ingress is never withdrawn.
OldestServed ==
  \A i \in DOMAIN ingresses :
    (\A j \in DOMAIN ingresses : i <= j) => Authorized(ingresses, i)

\* A new Ingress, younger than all there are, withdraws nobody.
NewcomerHarmless ==
  \A k \in DOMAIN ingresses' \ DOMAIN ingresses :
    (\A i \in DOMAIN ingresses : i < k) =>
      \A i \in DOMAIN ingresses : Authorized(ingresses, i) => Authorized(ingresses', i)

\* Hostnames have one owner, the oldest Ingress is served whatever the others
\* claim, and a younger Ingress takes nothing from those that exist.
HostsOwned == [](Exclusive /\ OldestServed) /\ [][NewcomerHarmless]_hostVars
=============================================================================
