----------------------------- MODULE Deployment -----------------------------
(***************************************************************************)
(* scripts/deploy.js.  Each contract is deployed once the one before it is *)
(* mined; the calls that link them are sent one after the other without    *)
(* waiting for any to be mined, and the addresses are saved after the last *)
(* is sent.  The script may end at any of its awaits, and run again: it    *)
(* then deploys everything anew, while what an earlier run sent is still   *)
(* to be mined.                                                            *)
(*                                                                         *)
(* External: the chain, which mines what one account sent in the order of  *)
(* its nonces, a local one at once.  No transaction is dropped.            *)
(***************************************************************************)
EXTENDS Naturals, SequencesExt

CONSTANTS Networks,         \* among "localhost" and the live ones
          MaxRuns           \* bound

ASSUME DeploymentAssumption == MaxRuns \in Nat

VARIABLES network,
          runs,             \* times the script was started
          script,           \* "idle", "running", "failed", "done"
          sent,             \* transactions the running script has sent
          mempool,          \* sent and not mined, by nonce
          mined,
          saved             \* runs that wrote their addresses

deployVars == <<network, runs, script, sent, mempool, mined, saved>>

\* An existing token is used, its address given, where the chain is not local.
IsLocal == network = "localhost"

Deployments == (IF IsLocal THEN <<"MockToken">> ELSE <<>>)
                 \o <<"AssetRegistry", "Oracle", "ILRM", "Treasury">>

Links == <<"oracle.setILRM", "registry.authorizeILRM", "treasury.setILRM">>

\* The deployer registers itself as an operator where the network is a test one.
Operator == IF network = "mainnet" THEN <<>> ELSE <<"oracle.registerOracle">>

\* The operator comes first.
ScriptOperatorFirst == Deployments \o Operator \o Links

\* The transactions the script sends.
Script == Deployments \o Links \o Operator

DeployInit ==
  /\ network \in Networks
  /\ runs = 0
  /\ script = "idle"
  /\ sent = 0
  /\ mempool = <<>>
  /\ mined = {}
  /\ saved = {}

\* A live network needs TOKEN_ADDRESS, which may not be set.
Start ==
  /\ script # "running"
  /\ runs < MaxRuns                                                    \* bound
  /\ runs' = runs + 1
  /\ sent' = 0
  /\ \/ script' = "running"
     \/ ~IsLocal /\ script' = "failed"
  /\ UNCHANGED <<network, mempool, mined, saved>>

\* waitForDeployment holds the script back; nothing holds back the links.
Deployed == \A n \in 1 .. Len(Deployments) : n <= sent => <<runs, Script[n]>> \in mined

Send ==
  /\ script = "running"
  /\ sent < Len(Script)
  /\ Deployed
  /\ sent' = sent + 1
  /\ LET transaction == <<runs, Script[sent + 1]>>
     IN IF IsLocal THEN /\ mined' = mined \cup {transaction}
                        /\ UNCHANGED mempool
                   ELSE /\ mempool' = Append(mempool, transaction)
                        /\ UNCHANGED mined
  /\ UNCHANGED <<network, runs, script, saved>>

SaveAddresses ==
  /\ script = "running"
  /\ sent = Len(Script)
  /\ saved' = saved \cup {runs}
  /\ script' = "done"
  /\ UNCHANGED <<network, runs, sent, mempool, mined>>

\* An await throws, or the process is stopped; a transaction sent stays sent.
Abort ==
  /\ script = "running"
  /\ script' = "failed"
  /\ UNCHANGED <<network, runs, sent, mempool, mined, saved>>

Mine ==
  /\ mempool # <<>>
  /\ mined' = mined \cup {Head(mempool)}
  /\ mempool' = Tail(mempool)
  /\ UNCHANGED <<network, runs, script, sent, saved>>

DeployNext == Start \/ Send \/ SaveAddresses \/ Abort \/ Mine

\* The chain mines what it was sent.
DeployFairness == WF_deployVars(Mine)

DeploySpec == DeployInit /\ [][DeployNext]_deployVars /\ DeployFairness

----------------------------------------------------------------------------
\* The ILRM of a run is known to its oracle, its registry and its treasury.
Linked(r) == \A link \in ToSet(Links) : <<r, link>> \in mined

\* The addresses are saved while the links are still under way, and a run that
\* fails leaves its own behind.  Even so the contracts of every saved run are in
\* the end linked, and so are those of every run that registered an operator: a
\* run cut short never leaves an operator to answer for half a system.
DeploymentsLinked ==
  <>[](\A r \in 1 .. MaxRuns :
         r \in saved \/ <<r, "oracle.registerOracle">> \in mined => Linked(r))
=============================================================================
