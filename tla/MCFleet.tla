------------------------------- MODULE MCFleet -------------------------------
(***************************************************************************)
(* Small instances of what processes of one fleet share: the two ways a     *)
(* document reaches a process, through the shared authority and from the    *)
(* supervisor's previous generation, and the certificates that issuers and  *)
(* gateways obtain on one account.  The parts share no state with one       *)
(* another: `subject` names the one whose behaviours an initial state leads *)
(* to, so that one run explores each of them by itself; the variables of    *)
(* the others keep their initial values.                                    *)
(***************************************************************************)
EXTENDS ConfigPublication, SupervisorHandoff, AcmeCertificates

VARIABLE subject

fleetVars == <<vars, handoffVars, issuerVars, bundleVars, subject>>

FleetInit ==
  /\ subject \in {"publication", "handoff", "issuer", "bundles"}
  /\ Init /\ HandoffInit /\ AcmeInit
  /\ subject = "issuer" \/ ~eab

FleetNext ==
  /\ UNCHANGED subject
  /\ \/ subject = "publication" /\ UNCHANGED <<handoffVars, issuerVars, bundleVars>> /\ Next
     \/ subject = "handoff" /\ UNCHANGED <<vars, issuerVars, bundleVars>> /\ HandoffNext
     \/ subject = "issuer" /\ UNCHANGED <<vars, handoffVars, bundleVars>> /\ IssuerNext
     \/ subject = "bundles" /\ UNCHANGED <<vars, handoffVars, issuerVars>> /\ BundlesNext

FleetSpec == FleetInit /\ [][FleetNext]_fleetVars
=============================================================================
