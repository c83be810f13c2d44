------------------------------- MODULE MC_Sdk -------------------------------
(***************************************************************************)
(* The parts of the SDK that keep state, and the script that deploys the   *)
(* contracts, each on its own: a behaviour is one of the part chosen at    *)
(* the start, and the others stay as they are.                             *)
(* Parameters that the initial states choose are fixed for parts that do   *)
(* not run.                                                                *)
(***************************************************************************)
EXTENDS DaemonClient, SiemClient, SiemAlerts, Breaker, SecurityManager,
        Shamir, ThresholdBls, ViewingEscrow, Fido, Deployment

CONSTANTS ann, ben, cem            \* of Accounts

\* Three holders, and three places held by two.
MCHolderLists == {<<ann, ben, cem>>, <<ann, ben, ann>>}

\* One that is posted at once and shown to the daemon, one that is batched and
\* shown to it, one that is only batched, and one that is not reported.
MCRaised == [forgery |-> SecurityError("security.invalid_signature"),
             mev     |-> ILRMError("security.mev_detected", ErrorSeverity.MEDIUM, FALSE),
             crash   |-> PlainError,
             typo    |-> ValidationError]

VARIABLE part

sdkVars == <<part, daemonVars, siemVars, alertVars, breakerVars, managerVars,
             shamirVars, blsVars, escrowVars, fidoVars, deployVars>>

Pinned ==
  /\ part # "manager" => config = [production |-> TRUE, enabled |-> Kinds]
  /\ part # "deploy" => network = "localhost"
  /\ part # "shamir" => /\ secret = CHOOSE s \in Secrets : TRUE
                        /\ threshold = 2
  /\ part # "bls" => commitments = <<1>>
  /\ part # "escrow" => /\ holders = <<ann, ben, cem>>
                        /\ quorum = 2

SdkInit ==
  /\ part \in {"daemon", "siem", "alerts", "breaker", "manager", "shamir", "bls", "escrow", "fido",
              "deploy"}
  /\ DaemonInit /\ SiemInit /\ AlertsInit /\ BreakerInit /\ ManagerInit
  /\ ShamirInit /\ BlsInit /\ EscrowInit /\ FidoInit /\ DeployInit
  /\ Pinned

Securing ==
  \/ /\ part = "daemon" /\ DaemonNext
     /\ UNCHANGED <<siemVars, alertVars, breakerVars, managerVars>>
  \/ /\ part = "siem" /\ SiemNext
     /\ UNCHANGED <<daemonVars, alertVars, breakerVars, managerVars>>
  \/ /\ part = "alerts" /\ AlertsNext
     /\ UNCHANGED <<daemonVars, siemVars, breakerVars, managerVars>>
  \/ /\ part = "breaker" /\ BreakerNext
     /\ UNCHANGED <<daemonVars, siemVars, alertVars, managerVars>>
  \/ /\ part = "manager" /\ ManagerNext
     /\ UNCHANGED <<daemonVars, siemVars, alertVars, breakerVars>>

Keeping ==
  \/ /\ part = "shamir" /\ ShamirNext
     /\ UNCHANGED <<blsVars, escrowVars, fidoVars, deployVars>>
  \/ /\ part = "bls" /\ BlsNext
     /\ UNCHANGED <<shamirVars, escrowVars, fidoVars, deployVars>>
  \/ /\ part = "escrow" /\ EscrowNext
     /\ UNCHANGED <<shamirVars, blsVars, fidoVars, deployVars>>
  \/ /\ part = "fido" /\ FidoNext
     /\ UNCHANGED <<shamirVars, blsVars, escrowVars, deployVars>>
  \/ /\ part = "deploy" /\ DeployNext
     /\ UNCHANGED <<shamirVars, blsVars, escrowVars, fidoVars>>

SdkNext ==
  /\ UNCHANGED part
  /\ \/ Securing /\ UNCHANGED <<shamirVars, blsVars, escrowVars, fidoVars, deployVars>>
     \/ Keeping /\ UNCHANGED <<daemonVars, siemVars, alertVars, breakerVars, managerVars>>

\* In a part that does not run, nothing that must happen can happen.
SdkSpec == SdkInit /\ [][SdkNext]_sdkVars /\ DaemonFairness /\ SiemFairness
           /\ AlertsFairness /\ DeployFairness
=============================================================================
