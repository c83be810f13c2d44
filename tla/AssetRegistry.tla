--------------------------- MODULE AssetRegistry ---------------------------
(***************************************************************************)
(* NatLangChainAssetRegistry: who owns which asset, which licences are     *)
(* granted, and which assets a dispute has frozen.                         *)
(*                                                                         *)
(* The operations the ILRM contracts call (FreezeAssets, UnfreezeAssets,   *)
(* ApplyFallbackLicense) are conjuncts that ILRM builds its own            *)
(* transactions from; the operations of users and of the registry's owner  *)
(* are actions by themselves.  What the registry only records for readers  *)
(* off the chain (totalAssets, lastModified, the text of a grant) is left  *)
(* out.  An operator that nothing refers to is a mistake the code could    *)
(* contain, kept above the definition whose place it would take.           *)
(***************************************************************************)
EXTENDS Block, Integers, Sequences, FiniteSets, SequencesExt

CONSTANTS Accounts,             \* parties: asset owners, disputants
          Assets,               \* asset identifiers
          OwnTerms,             \* licence terms owners register assets with
          FallbackTerms,        \* fallback terms that disputes name
          Licensees,            \* the accounts licences are granted to
          Durations,            \* licence durations, in days
          Ilrms,                \* ILRM contracts, authorised when deployed
          DisputeIds,           \* bound: the dispute ids that occur
          NoOne,                \* address(0)
          MAX_ASSETS_PER_OWNER

\* Addresses and identifiers have at most 256 bits: each of these sets is finite.
ASSUME RegistryAssumption ==
  /\ IsFiniteSet(Accounts)
  /\ IsFiniteSet(Assets)
  /\ IsFiniteSet(Licensees)
  /\ IsFiniteSet(DisputeIds)
  /\ NoOne \notin Accounts
  /\ DisputeIds \subseteq Nat
  /\ 0 \in DisputeIds
  /\ Durations \subseteq Nat \ {0}
  /\ OwnTerms # {}
  /\ FallbackTerms # {}
  /\ MAX_ASSETS_PER_OWNER \in Nat

VARIABLES
  owner,            \* _assets[a].owner
  status,           \* _assets[a].status
  assetDispute,     \* _assets[a].disputeId, 0 when there is none
  terms,            \* _assets[a].licenseTermsHash
  ownerAssets,      \* _ownerAssets: the list of each account's assets
  assetOwnerIndex,  \* _assetOwnerIndex, counted from 1
  frozenAssets,     \* _disputeFrozenAssets (an asset is pushed when it becomes
                    \* frozen, so never twice: a set holds the list)
  licenses,         \* _licenses[a][l]: the active flag and the expiry
  totalLicenses,
  authorizedILRM    \* _authorizedILRM

Terms == OwnTerms \cup FallbackTerms

assetVars == <<owner, status, assetDispute, terms, ownerAssets, assetOwnerIndex>>
registryVars == <<assetVars, frozenAssets, licenses, totalLicenses, authorizedILRM>>

NoLicense == [active |-> FALSE, expiresAt |-> 0]

RegistryTypeOK ==
  /\ owner \in [Assets -> Accounts \cup {NoOne}]
  /\ status \in [Assets -> {"Active", "Frozen"}]
  /\ assetDispute \in [Assets -> DisputeIds]
  /\ terms \in [Assets -> Terms]
  /\ ownerAssets \in [Accounts -> Seq(Assets)]
  /\ assetOwnerIndex \in [Assets -> Nat]
  /\ frozenAssets \in [DisputeIds -> SUBSET Assets]
  /\ licenses \in [Assets -> [Licensees -> [active: BOOLEAN, expiresAt: Nat]]]
  /\ totalLicenses \in Int
  /\ authorizedILRM \in SUBSET Ilrms

RegistryInit ==
  /\ owner = [a \in Assets |-> NoOne]
  /\ status = [a \in Assets |-> "Active"]
  /\ assetDispute = [a \in Assets |-> 0]
  /\ terms = [a \in Assets |-> CHOOSE t \in OwnTerms : TRUE]
  /\ ownerAssets = [p \in Accounts |-> <<>>]
  /\ assetOwnerIndex = [a \in Assets |-> 0]
  /\ frozenAssets = [d \in DisputeIds |-> {}]
  /\ licenses = [a \in Assets |-> [l \in Licensees |-> NoLicense]]
  /\ totalLicenses = 0
  /\ authorizedILRM = Ilrms

----------------------------------------------------------------------------
(* Operations of asset owners.                                             *)

\* The modifier assetNotFrozen.  (Zero is also the id of the first dispute.)
Undisputed(a) == assetDispute[a] = 0
NotFrozen(a) == status[a] # "Frozen"

RegisterAsset(a, p, t) ==
  /\ owner[a] = NoOne
  /\ Len(ownerAssets[p]) < MAX_ASSETS_PER_OWNER
  /\ owner' = [owner EXCEPT ![a] = p]
  /\ terms' = [terms EXCEPT ![a] = t]
  /\ status' = [status EXCEPT ![a] = "Active"]
  /\ assetDispute' = [assetDispute EXCEPT ![a] = 0]
  /\ assetOwnerIndex' = [assetOwnerIndex EXCEPT ![a] = Len(ownerAssets[p]) + 1]
  /\ ownerAssets' = [ownerAssets EXCEPT ![p] = Append(@, a)]
  /\ UNCHANGED <<frozenAssets, licenses, totalLicenses, authorizedILRM>>

\* The removal moves the last asset of the list into the hole.
PopOnly(s, i) == Front(s)
SwapAndPop(s, i) == Front([s EXCEPT ![i] = Last(s)])

TransferAsset(a, to) ==
  /\ owner[a] # NoOne
  /\ NotFrozen(a)
  /\ Len(ownerAssets[to]) < MAX_ASSETS_PER_OWNER
  /\ LET from    == owner[a]
         hole    == assetOwnerIndex[a]
         moved   == Last(ownerAssets[from])
         removed == [ownerAssets EXCEPT ![from] = SwapAndPop(@, hole)]
         filled  == [assetOwnerIndex EXCEPT ![moved] = hole]
     IN /\ ownerAssets' = [removed EXCEPT ![to] = Append(@, a)]
        /\ assetOwnerIndex' = [filled EXCEPT ![a] = Len(removed[to]) + 1]
  /\ owner' = [owner EXCEPT ![a] = to]
  /\ UNCHANGED <<status, assetDispute, terms, frozenAssets, licenses,
                 totalLicenses, authorizedILRM>>

IsLicenseValid(a, l) == licenses[a][l].active /\ now < licenses[a][l].expiresAt

\* Granting again to the same licensee updates the grant in place.
CountedUnlessValid(a, l) == IF IsLicenseValid(a, l) THEN 0 ELSE 1
CountedAsNew(a, l) == IF licenses[a][l].active THEN 0 ELSE 1

GrantLicense(a, l, duration) ==
  /\ owner[a] # NoOne
  /\ NotFrozen(a)
  /\ licenses' = [licenses EXCEPT ![a][l] = [active |-> TRUE, expiresAt |-> now + duration]]
  /\ totalLicenses' = totalLicenses + CountedAsNew(a, l)
  /\ UNCHANGED <<assetVars, frozenAssets, authorizedILRM>>

\* By the asset's owner or by an authorised ILRM, frozen or not.
RevokeLicense(a, l) ==
  /\ owner[a] # NoOne
  /\ licenses[a][l].active
  /\ licenses' = [licenses EXCEPT ![a][l] = [active |-> FALSE, expiresAt |-> now]]
  /\ totalLicenses' = totalLicenses - 1
  /\ UNCHANGED <<assetVars, frozenAssets, authorizedILRM>>

----------------------------------------------------------------------------
(* Operations of the registry's owner.                                     *)

AuthorizeILRM(c) == /\ authorizedILRM' = authorizedILRM \cup {c}
                    /\ UNCHANGED <<assetVars, frozenAssets, licenses, totalLicenses>>

RevokeILRM(c) == /\ authorizedILRM' = authorizedILRM \ {c}
                 /\ UNCHANGED <<assetVars, frozenAssets, licenses, totalLicenses>>

----------------------------------------------------------------------------
(* Operations of an authorised ILRM contract c, keyed by the bare dispute  *)
(* id.  Each one says only what it changes: the caller adds the rest.      *)

\* What freezeAssets finds to freeze: the party's assets that are not frozen yet.
FreezableAny(p) == ToSet(ownerAssets[p])
FreezableOfAll(p) == {a \in Assets : owner[a] # NoOne /\ status[a] = "Active"}
Freezable(p) == {a \in ToSet(ownerAssets[p]) : status[a] = "Active"}

FreezeAssets(c, d, p) ==
  /\ c \in authorizedILRM
  /\ status' = [a \in Assets |-> IF a \in Freezable(p) THEN "Frozen" ELSE status[a]]
  /\ assetDispute' = [a \in Assets |-> IF a \in Freezable(p) THEN d ELSE assetDispute[a]]
  /\ frozenAssets' = [frozenAssets EXCEPT ![d] = @ \cup Freezable(p)]

\* Reverts, and the caller's transaction with it, when the dispute froze nothing.
UnfreezeAssets(c, d) ==
  LET mine == {a \in frozenAssets[d] : assetDispute[a] = d}
  IN /\ c \in authorizedILRM
     /\ frozenAssets[d] # {}
     /\ status' = [a \in Assets |-> IF a \in mine THEN "Active" ELSE status[a]]
     /\ assetDispute' = [a \in Assets |-> IF a \in mine THEN 0 ELSE assetDispute[a]]
     /\ frozenAssets' = [frozenAssets EXCEPT ![d] = {}]

\* frozen is the dispute's list as the call finds it.
ApplyFallbackLicense(c, frozen, t) ==
  /\ c \in authorizedILRM
  /\ terms' = [a \in Assets |-> IF a \in frozen THEN t ELSE terms[a]]

\* What no operation of a dispute touches.
DisputesLeaveAlone == <<owner, ownerAssets, assetOwnerIndex, licenses, totalLicenses,
                        authorizedILRM>>

----------------------------------------------------------------------------
(* The registry by itself, under every authorised caller.                  *)

UserNext ==
  \/ \E a \in Assets, p \in Accounts, t \in OwnTerms : RegisterAsset(a, p, t)
  \/ \E a \in Assets, p \in Accounts : TransferAsset(a, p)
  \/ \E a \in Assets, l \in Licensees :
        \/ \E n \in Durations : GrantLicense(a, l, n)
        \/ RevokeLicense(a, l)

OwnerNext == \E c \in Ilrms : AuthorizeILRM(c) \/ RevokeILRM(c)

CallFreeze(c, d) == /\ \E p \in Accounts : FreezeAssets(c, d, p)
                    /\ UNCHANGED <<terms, DisputesLeaveAlone>>

CallUnfreeze(c, d) == /\ UnfreezeAssets(c, d)
                      /\ UNCHANGED <<terms, DisputesLeaveAlone>>

CallApplyFallback(c, d) == /\ \E t \in FallbackTerms : ApplyFallbackLicense(c, frozenAssets[d], t)
                           /\ UNCHANGED <<status, assetDispute, frozenAssets,
                                          DisputesLeaveAlone>>

CallerNext == \E c \in Ilrms, d \in DisputeIds :
                 CallFreeze(c, d) \/ CallUnfreeze(c, d) \/ CallApplyFallback(c, d)

RegistryNext == \/ UserNext /\ UNCHANGED now
                \/ OwnerNext /\ UNCHANGED now
                \/ CallerNext /\ UNCHANGED now
                \/ Tick /\ UNCHANGED registryVars

RegistryAloneInit == BlockInit /\ RegistryInit

RegistrySpec == RegistryAloneInit /\ [][RegistryNext]_<<now, registryVars>>
=============================================================================
