------------------------------- MODULE Oracle -------------------------------
(***************************************************************************)
(* NatLangChainOracle in front of the ILRM contract.  Operators sign a     *)
(* proposal for one dispute and one nonce; submitProposal checks the       *)
(* signature and hands the proposal to submitLLMProposal, which asks the   *)
(* oracle to check the signature again.                                    *)
(*                                                                         *)
(* Left out: requestProposal, which ILRM never calls, and the public key   *)
(* hashes, which nothing reads.                                            *)
(***************************************************************************)
EXTENDS ILRM

CONSTANTS Operators,    \* accounts the owner may register as oracles
          MaxNonce      \* bound: nonces considered

VARIABLES
  ilrmContract,         \* the contract proposals go to, NoOne until it is set
  isOracle,             \* registered operators
  processedProposals,   \* what each dispute was given, NoProposal for nothing
  pendingRequests,      \* disputes with a request pending
  proposalNonces

oracleVars == <<ilrmContract, isOracle, processedProposals, pendingRequests, proposalNonces>>

Signature == [signer: Operators, disputeId: DisputeIds, proposal: Proposals,
              nonce: 0 .. MaxNonce]

\* What verifySignature answers while the nonces are as given.
VerifySignature(sig, d, text, nonces) ==
  /\ sig.disputeId = d
  /\ sig.proposal = text
  /\ sig.nonce = nonces[d]
  /\ sig.signer \in isOracle

OracleInit ==
  /\ ilrmContract = NoOne
  /\ isOracle = {}
  /\ processedProposals = [d \in DisputeIds |-> NoProposal]
  /\ pendingRequests = {}
  /\ proposalNonces = [d \in DisputeIds |-> 0]

\* One transaction through both contracts.  ILRM verifies in the middle of it, when
\* this dispute's nonce has already moved.
SubmitProposal(op, d, text, sig) ==
  /\ op \in isOracle
  /\ processedProposals[d] = NoProposal
  /\ VerifySignature(sig, d, text, proposalNonces)
  /\ processedProposals' = [processedProposals EXCEPT ![d] = text]
  /\ pendingRequests' = pendingRequests \ {d}
  /\ proposalNonces' = [proposalNonces EXCEPT ![d] = @ + 1]
  /\ ilrmContract = ThisILRM
  /\ VerifySignature(sig, d, text, proposalNonces')
  /\ SubmitLLMProposal(d, text)
  /\ UNCHANGED <<ilrmContract, isOracle>>

----------------------------------------------------------------------------
(* The oracle's owner.                                                     *)

SetILRM == /\ ilrmContract' = ThisILRM
           /\ UNCHANGED <<isOracle, processedProposals, pendingRequests, proposalNonces>>

RegisterOracle(op) ==
  /\ isOracle' = isOracle \cup {op}
  /\ UNCHANGED <<ilrmContract, processedProposals, pendingRequests, proposalNonces>>

RevokeOracle(op) ==
  /\ isOracle' = isOracle \ {op}
  /\ UNCHANGED <<ilrmContract, processedProposals, pendingRequests, proposalNonces>>

ResetProposal(d) ==
  /\ processedProposals[d] # NoProposal
  /\ proposalNonces[d] < MaxNonce                                        \* bound
  /\ processedProposals' = [processedProposals EXCEPT ![d] = NoProposal]
  /\ pendingRequests' = pendingRequests \cup {d}
  /\ proposalNonces' = [proposalNonces EXCEPT ![d] = @ + 1]
  /\ UNCHANGED <<ilrmContract, isOracle>>

CancelPendingRequest(d) ==
  /\ d \in pendingRequests
  /\ pendingRequests' = pendingRequests \ {d}
  /\ UNCHANGED <<ilrmContract, isOracle, processedProposals, proposalNonces>>

OracleOwnerNext ==
  \/ SetILRM
  \/ \E op \in Operators : RegisterOracle(op) \/ RevokeOracle(op)
  \/ \E d \in DisputeIds : ResetProposal(d) \/ CancelPendingRequest(d)

----------------------------------------------------------------------------
AnySubmission(d) ==
  \E op \in Operators, text \in Proposals, sig \in Signature : SubmitProposal(op, d, text, sig)

OracleNext ==
  \/ UsersNext /\ UNCHANGED oracleVars
  \/ OracleOwnerNext /\ UNCHANGED vars
  \/ \E d \in DisputeIds : AnySubmission(d)

\* The operators sign what is needed and submit it as soon as it is accepted.
OracleFairness == \A d \in DisputeIds : WF_<<vars, oracleVars>>(AnySubmission(d))

OracleSpec == Init /\ OracleInit /\ [][OracleNext]_<<vars, oracleVars>> /\ OracleFairness

\* "Oracle signs the proposal and submits to ILRM": a dispute that stays open with
\* both stakes in, while an operator stays registered with an oracle that knows the
\* contract, is given a proposal, across the two contracts' verifications.
Served(d) == /\ Staked(d)
             /\ ~disputes[d].resolved
             /\ isOracle # {}
             /\ ilrmContract = ThisILRM
OracleDelivers ==
  \A d \in DisputeIds : <>[]Served(d) => <>(disputes[d].llmProposal # NoProposal)
=============================================================================
