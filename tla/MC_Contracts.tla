---------------------------- MODULE MC_Contracts ----------------------------
(***************************************************************************)
(* The two contracts that call no other, each on its own: the asset        *)
(* registry under arbitrary calls of authorised contracts, and the bridge. *)
(* A behaviour is one of the contract chosen at the start.                 *)
(***************************************************************************)
EXTENDS RegistryProps, L3BridgeProps

RegistryHorizon == 2     \* bound: days of the registry, fewer than the bridge's

\* Bound: roots that are committed besides bytes32(0), where that is committed.
ZeroCompany == 1
FewWithZero ==
  ZeroCommitted => Cardinality({r \in Roots : committedAt[r] # 0}) <= ZeroCompany

VARIABLE part

contractVars == <<part, now, registryVars, bridgeVars>>

ContractsInit == /\ part \in {"registry", "bridge"}
                 /\ BlockInit /\ RegistryInit /\ BridgeInit

ContractsNext ==
  /\ UNCHANGED part
  /\ \/ /\ part = "registry"
        /\ RegistryNext
        /\ now' <= RegistryHorizon
        /\ UNCHANGED bridgeVars
     \/ /\ part = "bridge"
        /\ BridgeNext
        /\ FewWithZero'
        /\ UNCHANGED registryVars

ContractsSpec == ContractsInit /\ [][ContractsNext]_contractVars

ContractSymmetry == Permutations(Roots)
=============================================================================
