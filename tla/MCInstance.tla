----------------------------- MODULE MCInstance -----------------------------
(***************************************************************************)
(* Small instances of the components that keep an instance going beside its*)
(* requests. They share no state with one another: `subject` names the     *)
(* component whose behaviours an initial state leads to, so that one run   *)
(* explores each of them by itself; the variables of the others keep their *)
(* initial values.                                                         *)
(***************************************************************************)
EXTENDS MemberRetirement, BackendHealth, AdminAccounts, ReceiptRelease, KubernetesController,
        HostOwnership, UpdateInstall, AcmeValidations, TLC

VARIABLE subject

instanceVars == <<memberVars, healthVars, accountVars, releaseVars, kubeVars, hostVars,
                  installVars, challengeVars, orderVars, subject>>

InstanceInit ==
  /\ subject \in {"members", "health", "accounts", "releases", "kubernetes", "hosts", "updates",
                  "challenges", "orders"}
  /\ MembersInit
  /\ HealthInit
  /\ subject = "health" \/ policy = "checking"
  /\ AccountsInit
  /\ ReleaseInit
  /\ KubernetesInit
  /\ HostsInit
  /\ InstallInit
  /\ ChallengesInit
  /\ OrdersInit
  /\ subject = "orders" \/ dnsProvider = "cloudflare"

InstanceNext ==
  /\ UNCHANGED subject
  /\ \/ /\ subject = "members"
        /\ UNCHANGED <<healthVars, accountVars, releaseVars, kubeVars, hostVars, installVars,
                        challengeVars, orderVars>>
        /\ MembersNext
     \/ /\ subject = "health"
        /\ UNCHANGED <<memberVars, accountVars, releaseVars, kubeVars, hostVars, installVars,
                        challengeVars, orderVars>>
        /\ HealthNext
     \/ /\ subject = "accounts"
        /\ UNCHANGED <<memberVars, healthVars, releaseVars, kubeVars, hostVars, installVars,
                        challengeVars, orderVars>>
        /\ AccountsNext
     \/ /\ subject = "releases"
        /\ UNCHANGED <<memberVars, healthVars, accountVars, kubeVars, hostVars, installVars,
                        challengeVars, orderVars>>
        /\ ReleaseNext
     \/ /\ subject = "kubernetes"
        /\ UNCHANGED <<memberVars, healthVars, accountVars, releaseVars, hostVars, installVars,
                        challengeVars, orderVars>>
        /\ KubernetesNext
     \/ /\ subject = "hosts"
        /\ UNCHANGED <<memberVars, healthVars, accountVars, releaseVars, kubeVars, installVars,
                        challengeVars, orderVars>>
        /\ HostsNext
     \/ /\ subject = "updates"
        /\ UNCHANGED <<memberVars, healthVars, accountVars, releaseVars, kubeVars, hostVars,
                        challengeVars, orderVars>>
        /\ InstallNext
     \/ /\ subject = "challenges"
        /\ UNCHANGED <<memberVars, healthVars, accountVars, releaseVars, kubeVars, hostVars,
                        installVars, orderVars>>
        /\ ChallengesNext
     \/ /\ subject = "orders"
        /\ UNCHANGED <<memberVars, healthVars, accountVars, releaseVars, kubeVars, hostVars,
                        installVars, challengeVars>>
        /\ OrdersNext

InstanceSpec == InstanceInit /\ [][InstanceNext]_instanceVars

\* Connections, requests, user names, callers, objects, namespaces and
\* supervisors are the same model values, and no component's behaviour depends
\* on which of them is which.
Symmetry == Permutations(Conns)
=============================================================================
