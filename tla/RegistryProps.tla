--------------------------- MODULE RegistryProps ---------------------------
(***************************************************************************)
(* What the asset registry must satisfy under every caller that it has     *)
(* authorised, not only under the ILRM contract as it is written.          *)
(***************************************************************************)
EXTENDS AssetRegistry

RegistryVarsTypeOK == now \in Nat \ {0} /\ RegistryTypeOK

\* The two directions of ownership agree although transferAsset moves an unrelated
\* asset into the hole it leaves: every registered asset is in its owner's list at
\* the place its index names, and every place of a list is named by an asset that
\* is owned by the list's account.  (A wrong index would hide an asset from
\* freezeAssets, which goes by the list.)
OwnershipIndexed ==
  /\ \A a \in Assets : owner[a] # NoOne =>
        /\ assetOwnerIndex[a] \in DOMAIN ownerAssets[owner[a]]
        /\ ownerAssets[owner[a]][assetOwnerIndex[a]] = a
  /\ \A p \in Accounts : \A i \in DOMAIN ownerAssets[p] :
        /\ owner[ownerAssets[p][i]] = p
        /\ assetOwnerIndex[ownerAssets[p][i]] = i

\* An asset is frozen exactly when it is on the list of the one dispute it names,
\* in whatever order authorised callers freeze, unfreeze and freeze again: no asset
\* is left frozen with no list to release it from, none is released twice.
FrozenOnOneList ==
  /\ \A a \in Assets, d \in DisputeIds :
        a \in frozenAssets[d] => status[a] = "Frozen" /\ assetDispute[a] = d
  /\ \A a \in Assets : status[a] = "Frozen" => a \in frozenAssets[assetDispute[a]]

\* totalLicenses counts the grants in force through regrants, revocations by the
\* owner or an ILRM, and expiry, which changes nothing: a grant that has expired
\* still counts until it is revoked.
LicensesCounted ==
  totalLicenses = Cardinality({g \in Assets \X Licensees : licenses[g[1]][g[2]].active})

\* A freeze holds until its own dispute lets go: a frozen asset changes neither
\* hands nor dispute, no licence on it is granted or prolonged, and it becomes
\* active only together with everything else its dispute froze.
StaysPut(a) ==
  /\ owner'[a] = owner[a]
  /\ \A l \in Licensees : licenses'[a][l].expiresAt > licenses[a][l].expiresAt =>
        ~licenses'[a][l].active
  /\ \/ status'[a] = "Frozen" /\ assetDispute'[a] = assetDispute[a]
     \/ \A b \in frozenAssets[assetDispute[a]] : status'[b] = "Active"
FreezeHolds == [][\A a \in Assets : status[a] = "Frozen" => StaysPut(a)]_registryVars
=============================================================================
