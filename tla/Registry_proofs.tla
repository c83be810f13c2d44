--------------------------- MODULE Registry_proofs ---------------------------
(***************************************************************************)
(* Proofs about the asset registry.  Each operation preserves RegInv, from *)
(* any authorised caller; the theorems about the registry by itself and    *)
(* those about the ILRM contract (ILRM_proofs) both rest on these lemmas.  *)
(***************************************************************************)
EXTENDS RegistryProps, FiniteSetTheorems, TLAPS

\* Without this, registering an asset could release it from a dispute's list.
UnownedActive == \A a \in Assets : owner[a] = NoOne => status[a] = "Active"

RegInv == /\ RegistryTypeOK
          /\ OwnershipIndexed
          /\ FrozenOnOneList
          /\ UnownedActive

\* What RegInv depends on.
indexVars == <<owner, ownerAssets, assetOwnerIndex>>
freezeVars == <<status, assetDispute, frozenAssets>>

----------------------------------------------------------------------------
(* Lists of assets.                                                        *)

\* Removing place i of a list moves its last element there and drops the end.
LEMMA SwapAndPopProperty ==
  ASSUME NEW S, NEW s \in Seq(S), NEW i \in 1 .. Len(s)
  PROVE  /\ SwapAndPop(s, i) \in Seq(S)
         /\ Len(SwapAndPop(s, i)) = Len(s) - 1
         /\ \A j \in 1 .. (Len(s) - 1) :
               SwapAndPop(s, i)[j] = IF j = i THEN s[Len(s)] ELSE s[j]
  <1> DEFINE r == [s EXCEPT ![i] = s[Len(s)]]
  <1>1. r \in Seq(S) /\ Len(r) = Len(s)
    OBVIOUS
  <1>2. SwapAndPop(s, i) = SubSeq(r, 1, Len(r) - 1)
    BY DEF SwapAndPop, Front, Last
  <1> QED
    BY <1>1, <1>2

\* What freezeAssets finds are assets of the party, by the list and by the record.
LEMMA FreezableProperty ==
  ASSUME RegInv, NEW p \in Accounts
  PROVE  \A a \in Freezable(p) : a \in Assets /\ owner[a] = p /\ status[a] = "Active"
  BY DEF RegInv, RegistryTypeOK, OwnershipIndexed, Freezable, ToSet

\* The index is right for every asset but a, which is in no list.
IndexedWithout(a, lists, index) ==
  /\ \A b \in Assets \ {a} : owner[b] # NoOne =>
        /\ index[b] \in DOMAIN lists[owner[b]]
        /\ lists[owner[b]][index[b]] = b
  /\ \A q \in Accounts : \A i \in DOMAIN lists[q] :
        /\ lists[q][i] # a
        /\ owner[lists[q][i]] = q
        /\ index[lists[q][i]] = i

\* Pushing a to p's list completes the index: what registering and the second half
\* of a transfer have in common.
LEMMA PushIndexed ==
  ASSUME NEW lists \in [Accounts -> Seq(Assets)], NEW index \in [Assets -> Nat],
         owner \in [Assets -> Accounts \cup {NoOne}],
         NEW a \in Assets, NEW p \in Accounts,
         IndexedWithout(a, lists, index),
         owner' = [owner EXCEPT ![a] = p],
         ownerAssets' = [lists EXCEPT ![p] = Append(@, a)],
         assetOwnerIndex' = [index EXCEPT ![a] = Len(lists[p]) + 1]
  PROVE  OwnershipIndexed'
  <1> DEFINE n == Len(lists[p])
  <1>1. lists[p] \in Seq(Assets) /\ n \in Nat
    OBVIOUS
  <1>2. ownerAssets'[p] = Append(lists[p], a) /\ Len(ownerAssets'[p]) = n + 1
    BY <1>1
  <1>3. \A q \in Accounts : q # p => ownerAssets'[q] = lists[q]
    OBVIOUS
  <1>4. \A b \in Assets : b # a => owner'[b] = owner[b] /\ assetOwnerIndex'[b] = index[b]
    OBVIOUS
  <1>5. owner'[a] = p /\ assetOwnerIndex'[a] = n + 1
    OBVIOUS
  <1>6. ASSUME NEW b \in Assets, owner'[b] # NoOne
        PROVE  /\ assetOwnerIndex'[b] \in DOMAIN ownerAssets'[owner'[b]]
               /\ ownerAssets'[owner'[b]][assetOwnerIndex'[b]] = b
    <2>1. CASE b = a
      BY <2>1, <1>1, <1>2, <1>5
    <2>2. CASE b # a
      <3>1. owner[b] \in Accounts /\ owner'[b] = owner[b]
        BY <2>2, <1>4, <1>6
      <3>2. index[b] \in DOMAIN lists[owner[b]] /\ lists[owner[b]][index[b]] = b
        BY <3>1, <2>2, <1>6 DEF IndexedWithout
      <3> QED
        BY <3>1, <3>2, <2>2, <1>1, <1>2, <1>3, <1>4
    <2> QED
      BY <2>1, <2>2
  <1>7. ASSUME NEW q \in Accounts, NEW i \in DOMAIN ownerAssets'[q]
        PROVE  /\ owner'[ownerAssets'[q][i]] = q
               /\ assetOwnerIndex'[ownerAssets'[q][i]] = i
    <2>1. CASE q = p /\ i = n + 1
      BY <2>1, <1>1, <1>2, <1>5
    <2>2. CASE ~(q = p /\ i = n + 1)
      <3>1. i \in DOMAIN lists[q] /\ ownerAssets'[q][i] = lists[q][i]
        BY <2>2, <1>1, <1>2, <1>3, <1>7
      <3>2. lists[q][i] \in Assets /\ lists[q][i] # a
        BY <3>1 DEF IndexedWithout
      <3> QED
        BY <3>1, <3>2, <1>4 DEF IndexedWithout
    <2> QED
      BY <2>1, <2>2
  <1> QED
    BY <1>6, <1>7 DEF OwnershipIndexed

----------------------------------------------------------------------------
(* One lemma per operation.                                                *)

LEMMA RegisterAssetInv ==
  ASSUME RegInv, RegistryAssumption,
         NEW a \in Assets, NEW p \in Accounts, NEW t \in OwnTerms, RegisterAsset(a, p, t)
  PROVE  RegInv'
  <1> USE DEF RegInv
  <1>1. RegistryTypeOK'
    BY DEF RegistryTypeOK, RegistryAssumption, RegisterAsset, Terms
  <1>2. OwnershipIndexed'
    <2>1. IndexedWithout(a, ownerAssets, assetOwnerIndex)
      BY DEF IndexedWithout, OwnershipIndexed, RegisterAsset, RegistryAssumption
    <2> QED
      BY <2>1, PushIndexed DEF RegistryTypeOK, RegisterAsset
  <1>3. status' = status
    BY DEF RegistryTypeOK, UnownedActive, RegisterAsset
  <1>4. UnownedActive'
    BY <1>3 DEF RegistryTypeOK, UnownedActive, RegisterAsset
  <1>5. FrozenOnOneList'
    <2>1. \A d \in DisputeIds : a \notin frozenAssets[d]
      BY DEF FrozenOnOneList, UnownedActive, RegisterAsset
    <2>2. \A b \in Assets : b # a => assetDispute'[b] = assetDispute[b]
      BY DEF RegistryTypeOK, RegisterAsset
    <2>3. status[a] = "Active" /\ frozenAssets' = frozenAssets
      BY DEF UnownedActive, RegisterAsset
    <2> QED
      BY <1>3, <2>1, <2>2, <2>3 DEF FrozenOnOneList
  <1> QED
    BY <1>1, <1>2, <1>4, <1>5

LEMMA TransferAssetInv ==
  ASSUME RegInv, RegistryAssumption,
         NEW a \in Assets, NEW to \in Accounts, TransferAsset(a, to)
  PROVE  RegInv'
  <1> USE DEF RegInv
  <1> DEFINE from    == owner[a]
             hole    == assetOwnerIndex[a]
             n       == Len(ownerAssets[from])
             moved   == ownerAssets[from][n]
             removed == [ownerAssets EXCEPT ![from] = SwapAndPop(@, hole)]
             filled  == [assetOwnerIndex EXCEPT ![moved] = hole]
             m       == Len(removed[to])
  <1>1. /\ from \in Accounts
        /\ n \in Nat
        /\ hole \in 1 .. n
        /\ ownerAssets[from] \in Seq(Assets)
        /\ ownerAssets[from][hole] = a
    BY DEF RegistryTypeOK, OwnershipIndexed, TransferAsset
  <1>2. moved \in Assets /\ assetOwnerIndex[moved] = n /\ owner[moved] = from
    BY <1>1 DEF RegistryTypeOK, OwnershipIndexed
  <1>3. /\ removed[from] \in Seq(Assets)
        /\ Len(removed[from]) = n - 1
        /\ \A j \in 1 .. (n - 1) :
              removed[from][j] = IF j = hole THEN moved ELSE ownerAssets[from][j]
    <2>1. removed[from] = SwapAndPop(ownerAssets[from], hole)
      BY <1>1 DEF RegistryTypeOK
    <2>2. ownerAssets[from] \in Seq(Assets) /\ hole \in 1 .. Len(ownerAssets[from])
      BY <1>1
    <2> HIDE DEF from, hole
    <2>3. /\ SwapAndPop(ownerAssets[from], hole) \in Seq(Assets)
          /\ Len(SwapAndPop(ownerAssets[from], hole)) = Len(ownerAssets[from]) - 1
          /\ \A j \in 1 .. (Len(ownerAssets[from]) - 1) :
                SwapAndPop(ownerAssets[from], hole)[j] =
                  IF j = hole THEN ownerAssets[from][Len(ownerAssets[from])]
                              ELSE ownerAssets[from][j]
      BY <2>2, SwapAndPopProperty
    <2> HIDE DEF removed
    <2> QED
      BY <2>1, <2>3
  <1>4. removed \in [Accounts -> Seq(Assets)] /\ m \in Nat
    BY <1>1, <1>3 DEF RegistryTypeOK
  <1>5. filled \in [Assets -> Nat]
    BY <1>1, <1>2 DEF RegistryTypeOK
  <1>6. /\ ownerAssets' = [removed EXCEPT ![to] = Append(@, a)]
        /\ assetOwnerIndex' = [filled EXCEPT ![a] = m + 1]
        /\ owner' = [owner EXCEPT ![a] = to]
        /\ UNCHANGED <<status, assetDispute, terms, frozenAssets, licenses,
                       totalLicenses, authorizedILRM>>
    BY DEF TransferAsset, Last
  <1>10. /\ owner[a] = from
         /\ assetOwnerIndex[a] = hole
         /\ Len(ownerAssets[from]) = n
         /\ ownerAssets[from][n] = moved
    OBVIOUS
  <1> HIDE DEF from, hole, n, moved, removed, filled, m
  <1>7. RegistryTypeOK'
    BY <1>4, <1>5, <1>6 DEF RegistryTypeOK
  <1>8. UnownedActive' /\ FrozenOnOneList'
    BY <1>6 DEF RegistryTypeOK, UnownedActive, FrozenOnOneList, RegistryAssumption
  <1>9. OwnershipIndexed'
    <2>1. /\ \A q \in Accounts : q # from => removed[q] = ownerAssets[q]
          /\ \A b \in Assets : b # moved => filled[b] = assetOwnerIndex[b]
          /\ filled[moved] = hole
      BY <1>1, <1>2 DEF RegistryTypeOK, removed, filled
    <2>5. moved = a <=> hole = n
      BY <1>1, <1>2, <1>10
    <2>2. ASSUME NEW b \in Assets \ {a}, owner[b] # NoOne
          PROVE  filled[b] \in DOMAIN removed[owner[b]] /\ removed[owner[b]][filled[b]] = b
      <3>1. /\ owner[b] \in Accounts
            /\ assetOwnerIndex[b] \in DOMAIN ownerAssets[owner[b]]
            /\ ownerAssets[owner[b]][assetOwnerIndex[b]] = b
        BY <2>2 DEF RegistryTypeOK, OwnershipIndexed
      <3>2. CASE owner[b] # from
        BY <3>1, <3>2, <1>2, <2>1
      <3>3. CASE owner[b] = from /\ b = moved
        <4>1. hole \in 1 .. (n - 1)
          BY <3>3, <2>5, <1>1
        <4> QED
          BY <4>1, <3>3, <1>1, <1>3, <2>1
      <3>4. CASE owner[b] = from /\ b # moved
        <4>1. assetOwnerIndex[b] \in 1 .. (n - 1) /\ assetOwnerIndex[b] # hole
          BY <3>1, <3>4, <1>1, <1>10
        <4> QED
          BY <4>1, <3>1, <3>4, <1>1, <1>3, <2>1
      <3> QED
        BY <3>2, <3>3, <3>4
    <2>3. ASSUME NEW q \in Accounts, NEW i \in DOMAIN removed[q]
          PROVE  removed[q][i] # a /\ owner[removed[q][i]] = q /\ filled[removed[q][i]] = i
      <3>1. CASE q # from
        <4>1. i \in DOMAIN ownerAssets[q] /\ removed[q][i] = ownerAssets[q][i]
          BY <3>1, <2>1, <2>3
        <4>2. /\ ownerAssets[q][i] \in Assets
              /\ owner[ownerAssets[q][i]] = q
              /\ assetOwnerIndex[ownerAssets[q][i]] = i
          BY <4>1 DEF RegistryTypeOK, OwnershipIndexed
        <4> QED
          BY <4>1, <4>2, <3>1, <1>2, <1>10, <2>1
      <3>2. CASE q = from
        <4>1. i \in 1 .. (n - 1)
          BY <3>2, <2>3, <1>1, <1>3
        <4>2. CASE i = hole
          BY <4>1, <4>2, <3>2, <1>1, <1>2, <1>3, <2>1, <2>5
        <4>3. CASE i # hole
          <5>1. /\ ownerAssets[from][i] \in Assets
                /\ owner[ownerAssets[from][i]] = from
                /\ assetOwnerIndex[ownerAssets[from][i]] = i
            BY <4>1, <1>1, <1>10 DEF RegistryTypeOK, OwnershipIndexed
          <5> QED
            BY <5>1, <4>1, <4>3, <3>2, <1>1, <1>2, <1>3, <1>10, <2>1
        <4> QED
          BY <4>2, <4>3
      <3> QED
        BY <3>1, <3>2
    <2>4. IndexedWithout(a, removed, filled)
      BY <2>2, <2>3 DEF IndexedWithout
    <2> QED
      BY <2>4, <1>4, <1>5, <1>6, PushIndexed DEF RegistryTypeOK, m
  <1> QED
    BY <1>7, <1>8, <1>9

LEMMA GrantLicenseInv ==
  ASSUME RegInv, RegistryAssumption, now \in Nat,
         NEW a \in Assets, NEW l \in Licensees, NEW duration \in Durations,
         GrantLicense(a, l, duration)
  PROVE  RegInv'
  <1>1. now + duration \in Nat
    BY DEF RegistryAssumption
  <1>2. licenses' \in [Assets -> [Licensees -> [active: BOOLEAN, expiresAt: Nat]]]
    BY <1>1 DEF RegInv, RegistryTypeOK, GrantLicense
  <1>3. totalLicenses' \in Int
    BY DEF RegInv, RegistryTypeOK, GrantLicense, CountedAsNew
  <1> QED
    BY <1>2, <1>3 DEF RegInv, RegistryTypeOK, OwnershipIndexed, FrozenOnOneList, UnownedActive,
                      GrantLicense, assetVars

LEMMA RevokeLicenseInv ==
  ASSUME RegInv, now \in Nat, NEW a \in Assets, NEW l \in Licensees, RevokeLicense(a, l)
  PROVE  RegInv'
  <1>1. licenses' \in [Assets -> [Licensees -> [active: BOOLEAN, expiresAt: Nat]]]
    BY DEF RegInv, RegistryTypeOK, RevokeLicense
  <1> QED
    BY <1>1 DEF RegInv, RegistryTypeOK, OwnershipIndexed, FrozenOnOneList, UnownedActive,
                RevokeLicense, assetVars

LEMMA OwnerInv ==
  ASSUME RegInv, OwnerNext
  PROVE  RegInv'
  BY DEF RegInv, RegistryTypeOK, OwnershipIndexed, FrozenOnOneList, UnownedActive,
         OwnerNext, AuthorizeILRM, RevokeILRM, assetVars

\* Freezing moves assets from no list to the dispute's list.
LEMMA FreezeAssetsInv ==
  ASSUME RegInv, RegistryAssumption,
         NEW c, NEW d \in DisputeIds, NEW p \in Accounts,
         FreezeAssets(c, d, p), UNCHANGED <<terms, DisputesLeaveAlone>>
  PROVE  RegInv'
  <1> DEFINE F == Freezable(p)
  <1>1. \A a \in F : a \in Assets /\ owner[a] = p /\ status[a] = "Active"
    BY FreezableProperty
  <1>2. /\ status' = [a \in Assets |-> IF a \in F THEN "Frozen" ELSE status[a]]
        /\ assetDispute' = [a \in Assets |-> IF a \in F THEN d ELSE assetDispute[a]]
        /\ frozenAssets' = [frozenAssets EXCEPT ![d] = @ \cup F]
        /\ UNCHANGED <<owner, ownerAssets, assetOwnerIndex, terms, licenses,
                       totalLicenses, authorizedILRM>>
    BY DEF FreezeAssets, DisputesLeaveAlone
  <1> HIDE DEF F
  <1>3. RegistryTypeOK'
    BY <1>1, <1>2 DEF RegInv, RegistryTypeOK
  <1>4. OwnershipIndexed'
    BY <1>2 DEF RegInv, OwnershipIndexed
  <1>5. FrozenOnOneList'
    BY <1>1, <1>2 DEF RegInv, RegistryTypeOK, FrozenOnOneList
  <1>6. UnownedActive'
    BY <1>1, <1>2 DEF RegInv, RegistryTypeOK, UnownedActive, RegistryAssumption
  <1> QED
    BY <1>3, <1>4, <1>5, <1>6 DEF RegInv

\* The list of the dispute is deleted, and everything on it becomes active: the
\* test that an asset still names the dispute never fails.
LEMMA UnfreezeAssetsInv ==
  ASSUME RegInv, RegistryAssumption, NEW c, NEW d \in DisputeIds,
         UnfreezeAssets(c, d), terms' \in [Assets -> Terms], UNCHANGED DisputesLeaveAlone
  PROVE  RegInv'
  <1>0. \A a \in frozenAssets[d] : assetDispute[a] = d
    BY DEF RegInv, RegistryTypeOK, FrozenOnOneList
  <1>1. {a \in frozenAssets[d] : assetDispute[a] = d} = frozenAssets[d]
    BY <1>0, Zenon
  <1>2. /\ status' = [a \in Assets |-> IF a \in frozenAssets[d] THEN "Active" ELSE status[a]]
        /\ assetDispute' = [a \in Assets |-> IF a \in frozenAssets[d] THEN 0
                                             ELSE assetDispute[a]]
        /\ frozenAssets' = [frozenAssets EXCEPT ![d] = {}]
        /\ UNCHANGED <<owner, ownerAssets, assetOwnerIndex, licenses,
                       totalLicenses, authorizedILRM>>
    BY <1>1 DEF UnfreezeAssets, DisputesLeaveAlone
  <1>3. RegistryTypeOK'
    BY <1>2 DEF RegInv, RegistryTypeOK, RegistryAssumption
  <1>4. OwnershipIndexed'
    BY <1>2 DEF RegInv, OwnershipIndexed
  <1>5. FrozenOnOneList'
    BY <1>2 DEF RegInv, RegistryTypeOK, FrozenOnOneList
  <1>6. UnownedActive'
    BY <1>2 DEF RegInv, RegistryTypeOK, UnownedActive
  <1> QED
    BY <1>3, <1>4, <1>5, <1>6 DEF RegInv

LEMMA ApplyFallbackType ==
  ASSUME RegInv, NEW c, NEW frozen, NEW t \in FallbackTerms, ApplyFallbackLicense(c, frozen, t)
  PROVE  terms' \in [Assets -> Terms]
  BY DEF RegInv, RegistryTypeOK, Terms, ApplyFallbackLicense

----------------------------------------------------------------------------
(* The registry by itself.                                                 *)

LEMMA RegistryInitInv ==
  ASSUME RegistryAssumption, RegistryInit
  PROVE  RegInv
  <1>1. RegistryTypeOK
    BY DEF RegistryAssumption, RegistryInit, RegistryTypeOK, Terms, NoLicense
  <1>2. OwnershipIndexed
    BY DEF RegistryInit, OwnershipIndexed
  <1>3. FrozenOnOneList /\ UnownedActive
    BY DEF RegistryInit, FrozenOnOneList, UnownedActive
  <1> QED
    BY <1>1, <1>2, <1>3 DEF RegInv

LEMMA UserInv ==
  ASSUME RegInv, RegistryAssumption, now \in Nat, UserNext
  PROVE  RegInv'
  <1>1. CASE \E a \in Assets, p \in Accounts, t \in OwnTerms : RegisterAsset(a, p, t)
    BY <1>1, RegisterAssetInv
  <1>2. CASE \E a \in Assets, p \in Accounts : TransferAsset(a, p)
    BY <1>2, TransferAssetInv
  <1>3. CASE \E a \in Assets, l \in Licensees, n \in Durations : GrantLicense(a, l, n)
    BY <1>3, GrantLicenseInv
  <1>4. CASE \E a \in Assets, l \in Licensees : RevokeLicense(a, l)
    BY <1>4, RevokeLicenseInv
  <1> QED
    BY <1>1, <1>2, <1>3, <1>4 DEF UserNext

LEMMA CallerInv ==
  ASSUME RegInv, RegistryAssumption, CallerNext
  PROVE  RegInv'
  <1> SUFFICES ASSUME NEW c \in Ilrms, NEW d \in DisputeIds,
                      CallFreeze(c, d) \/ CallUnfreeze(c, d) \/ CallApplyFallback(c, d)
               PROVE  RegInv'
    BY DEF CallerNext
  <1>1. CASE CallFreeze(c, d)
    BY <1>1, FreezeAssetsInv DEF CallFreeze
  <1>2. CASE CallUnfreeze(c, d)
    BY <1>2, UnfreezeAssetsInv DEF CallUnfreeze, RegInv, RegistryTypeOK
  <1>3. CASE CallApplyFallback(c, d)
    <2>1. terms' \in [Assets -> Terms]
      BY <1>3, ApplyFallbackType DEF CallApplyFallback
    <2> QED
      BY <1>3, <2>1 DEF CallApplyFallback, DisputesLeaveAlone, RegInv, RegistryTypeOK,
                        OwnershipIndexed, FrozenOnOneList, UnownedActive
  <1> QED
    BY <1>1, <1>2, <1>3

LEMMA RegistryInvariance == RegistrySpec => [](now \in Nat /\ RegInv)
  <1> DEFINE Inv == now \in Nat /\ RegInv
  <1>1. RegistryAloneInit => Inv
    BY RegistryInitInv, RegistryAssumption DEF RegistryAloneInit, BlockInit
  <1>2. Inv /\ [RegistryNext]_<<now, registryVars>> => Inv'
    <2> SUFFICES ASSUME Inv, [RegistryNext]_<<now, registryVars>>
                 PROVE  Inv'
      OBVIOUS
    <2>1. CASE UserNext /\ UNCHANGED now
      BY <2>1, UserInv, RegistryAssumption
    <2>2. CASE OwnerNext /\ UNCHANGED now
      BY <2>2, OwnerInv
    <2>3. CASE CallerNext /\ UNCHANGED now
      BY <2>3, CallerInv, RegistryAssumption
    <2>4. CASE UNCHANGED registryVars /\ (Tick \/ UNCHANGED now)
      BY <2>4 DEF Tick, registryVars, assetVars, RegInv, RegistryTypeOK, OwnershipIndexed,
                  FrozenOnOneList, UnownedActive
    <2> QED
      BY <2>1, <2>2, <2>3, <2>4 DEF RegistryNext
  <1> QED
    BY <1>1, <1>2, PTL DEF RegistrySpec

\* The two directions of ownership agree after any sequence of registrations and
\* transfers, whichever asset is moved into a hole.
THEOREM OwnershipIndexedHolds == RegistrySpec => []OwnershipIndexed
  <1>1. RegInv => OwnershipIndexed
    BY DEF RegInv
  <1> QED
    BY <1>1, RegistryInvariance, PTL

\* Whoever the authorised callers are and in whatever order they call, an asset is
\* frozen exactly when it is on the list of the one dispute it names.
THEOREM FrozenOnOneListHolds == RegistrySpec => []FrozenOnOneList
  <1>1. RegInv => FrozenOnOneList
    BY DEF RegInv
  <1> QED
    BY <1>1, RegistryInvariance, PTL

\* A frozen asset keeps its owner, its dispute and its licences until its own dispute
\* releases everything that it froze.
THEOREM FreezeHoldsHolds == RegistrySpec => FreezeHolds
  <1>1. ASSUME RegInv, [RegistryNext]_<<now, registryVars>>
        PROVE  [\A a \in Assets : status[a] = "Frozen" => StaysPut(a)]_registryVars
    <2> SUFFICES ASSUME RegistryNext, ~UNCHANGED registryVars, NEW a \in Assets,
                        status[a] = "Frozen"
                 PROVE  StaysPut(a)
      BY <1>1
    <2>0. /\ RegistryTypeOK /\ OwnershipIndexed /\ FrozenOnOneList /\ UnownedActive
          /\ owner[a] # NoOne
      BY <1>1 DEF RegInv, UnownedActive
    <2>1. ASSUME NEW b \in Assets, NEW p \in Accounts, NEW t \in OwnTerms, RegisterAsset(b, p, t)
          PROVE  StaysPut(a)
      BY <2>0, <2>1 DEF RegisterAsset, StaysPut, RegistryTypeOK
    <2>2. ASSUME NEW b \in Assets, NEW p \in Accounts, TransferAsset(b, p)
          PROVE  StaysPut(a)
      BY <2>0, <2>2 DEF TransferAsset, NotFrozen, StaysPut, RegistryTypeOK
    <2>3. ASSUME NEW b \in Assets, NEW l \in Licensees, NEW n \in Durations, GrantLicense(b, l, n)
          PROVE  StaysPut(a)
      BY <2>0, <2>3 DEF GrantLicense, NotFrozen, StaysPut, RegistryTypeOK, assetVars
    <2>4. ASSUME NEW b \in Assets, NEW l \in Licensees, RevokeLicense(b, l)
          PROVE  StaysPut(a)
      <3>1. \A k \in Licensees : licenses'[a][k] = licenses[a][k] \/ ~licenses'[a][k].active
        BY <2>0, <2>4 DEF RevokeLicense, RegistryTypeOK
      <3>2. UNCHANGED <<owner, status, assetDispute>>
        BY <2>4 DEF RevokeLicense, assetVars
      <3>3. \A k \in Licensees : licenses[a][k].expiresAt \in Nat
        BY <2>0 DEF RegistryTypeOK
      <3> QED
        BY <3>1, <3>2, <3>3 DEF StaysPut
    <2>5. CASE UNCHANGED <<owner, status, assetDispute, licenses>>
      BY <2>0, <2>5 DEF StaysPut, RegistryTypeOK
    <2>6. ASSUME NEW c, NEW d \in DisputeIds, CallFreeze(c, d)
          PROVE  StaysPut(a)
      <3>1. PICK p \in Accounts : FreezeAssets(c, d, p)
        BY <2>6 DEF CallFreeze
      <3>2. UNCHANGED <<owner, licenses>>
        BY <2>6 DEF CallFreeze, DisputesLeaveAlone
      <3> QED
        BY <2>0, <3>1, <3>2 DEF FreezeAssets, Freezable, StaysPut, RegistryTypeOK
    <2>7. ASSUME NEW c, NEW d \in DisputeIds, CallUnfreeze(c, d)
          PROVE  StaysPut(a)
      <3>1. UnfreezeAssets(c, d) /\ UNCHANGED <<owner, licenses>>
        BY <2>7 DEF CallUnfreeze, DisputesLeaveAlone
      <3>2. CASE assetDispute[a] = d
        BY <2>0, <3>1, <3>2 DEF UnfreezeAssets, StaysPut, RegistryTypeOK, FrozenOnOneList
      <3>3. CASE assetDispute[a] # d
        BY <2>0, <3>1, <3>3 DEF UnfreezeAssets, StaysPut, RegistryTypeOK
      <3> QED
        BY <3>2, <3>3
    <2> QED
      BY <2>1, <2>2, <2>3, <2>4, <2>5, <2>6, <2>7
         DEF RegistryNext, UserNext, OwnerNext, CallerNext, AuthorizeILRM, RevokeILRM,
             CallApplyFallback, DisputesLeaveAlone, assetVars
  <1>2. now \in Nat /\ RegInv => RegInv
    OBVIOUS
  <1> QED
    BY <1>1, <1>2, RegistryInvariance, PTL DEF RegistrySpec, FreezeHolds

----------------------------------------------------------------------------
(* Licences: the counter and the flags.                                    *)

ActiveGrants == {g \in Assets \X Licensees : licenses[g[1]][g[2]].active}

LicensesInv == RegistryTypeOK /\ LicensesCounted

LEMMA GrantsFinite == IsFiniteSet(ActiveGrants) /\ Cardinality(ActiveGrants) \in Nat
  <1>1. IsFiniteSet(Assets \X Licensees)
    BY RegistryAssumption, FS_Product DEF RegistryAssumption
  <1>2. IsFiniteSet(ActiveGrants)
    BY <1>1, FS_Subset DEF ActiveGrants
  <1> QED
    BY <1>2, FS_CardinalityType

\* A step that changes one grant adds it to the active ones or takes it away.
LEMMA OneGrant ==
  ASSUME RegistryTypeOK, NEW a \in Assets, NEW l \in Licensees, NEW x,
         licenses' = [licenses EXCEPT ![a][l] = x]
  PROVE  /\ x.active = TRUE  => ActiveGrants' = ActiveGrants \cup {<<a, l>>}
         /\ x.active = FALSE => ActiveGrants' = ActiveGrants \ {<<a, l>>}
  <1>1. \A b \in Assets, k \in Licensees :
           licenses'[b][k] = IF b = a /\ k = l THEN x ELSE licenses[b][k]
    BY DEF RegistryTypeOK
  <1>2. \A g \in Assets \X Licensees :
           licenses'[g[1]][g[2]] = IF g = <<a, l>> THEN x ELSE licenses[g[1]][g[2]]
    BY <1>1
  <1>3. <<a, l>> \in Assets \X Licensees
    OBVIOUS
  <1> QED
    BY <1>2, <1>3 DEF ActiveGrants

LEMMA CountedOnce ==
  ASSUME NEW g
  PROVE  /\ g \in ActiveGrants =>
              /\ Cardinality(ActiveGrants \cup {g}) = Cardinality(ActiveGrants)
              /\ Cardinality(ActiveGrants \ {g}) = Cardinality(ActiveGrants) - 1
         /\ g \notin ActiveGrants =>
              Cardinality(ActiveGrants \cup {g}) = Cardinality(ActiveGrants) + 1
  <1>1. CASE g \in ActiveGrants
    BY <1>1, GrantsFinite, FS_AddElement, FS_RemoveElement
  <1>2. CASE g \notin ActiveGrants
    BY <1>2, GrantsFinite, FS_AddElement
  <1> QED
    BY <1>1, <1>2

LEMMA CountIs == LicensesCounted <=> totalLicenses = Cardinality(ActiveGrants)
  BY DEF LicensesCounted, ActiveGrants

LEMMA GrantCounted ==
  ASSUME RegistryTypeOK, LicensesCounted, NEW a \in Assets, NEW l \in Licensees, NEW n \in Durations,
         GrantLicense(a, l, n)
  PROVE  totalLicenses' = Cardinality(ActiveGrants')
  <1> DEFINE x == [active |-> TRUE, expiresAt |-> now + n]
  <1>1. x.active = TRUE /\ licenses' = [licenses EXCEPT ![a][l] = x]
    BY DEF GrantLicense
  <1> HIDE DEF x
  <1>2. ActiveGrants' = ActiveGrants \cup {<<a, l>>}
    BY <1>1, OneGrant
  <1>3. <<a, l>> \in ActiveGrants <=> licenses[a][l].active
    BY DEF ActiveGrants
  <1>4. totalLicenses' = Cardinality(ActiveGrants) + CountedAsNew(a, l)
    BY CountIs DEF GrantLicense
  <1>5. CASE <<a, l>> \in ActiveGrants
    <2>1. CountedAsNew(a, l) = 0
      BY <1>3, <1>5 DEF CountedAsNew
    <2> QED
      BY <1>2, <1>4, <1>5, <2>1, CountedOnce, GrantsFinite
  <1>6. CASE <<a, l>> \notin ActiveGrants
    <2>1. CountedAsNew(a, l) = 1
      BY <1>3, <1>6 DEF CountedAsNew
    <2> QED
      BY <1>2, <1>4, <1>6, <2>1, CountedOnce, GrantsFinite
  <1> QED
    BY <1>5, <1>6

LEMMA RevokeCounted ==
  ASSUME RegistryTypeOK, LicensesCounted, NEW a \in Assets, NEW l \in Licensees,
         RevokeLicense(a, l)
  PROVE  totalLicenses' = Cardinality(ActiveGrants')
  <1> DEFINE x == [active |-> FALSE, expiresAt |-> now]
  <1>1. x.active = FALSE /\ licenses' = [licenses EXCEPT ![a][l] = x]
    BY DEF RevokeLicense
  <1> HIDE DEF x
  <1>2. ActiveGrants' = ActiveGrants \ {<<a, l>>}
    BY <1>1, OneGrant
  <1>3. <<a, l>> \in ActiveGrants
    BY DEF ActiveGrants, RevokeLicense
  <1>4. totalLicenses' = Cardinality(ActiveGrants) - 1
    BY CountIs DEF RevokeLicense
  <1> QED
    BY <1>2, <1>3, <1>4, CountedOnce

\* Regrants, revocations and expiries in any order leave the counter at the number of
\* grants whose flag is set.
THEOREM LicensesCountedHolds == RegistrySpec => []LicensesCounted
  <1>1. RegistryAloneInit => LicensesCounted
    <2> SUFFICES ASSUME RegistryAloneInit PROVE LicensesCounted
      OBVIOUS
    <2>1. ActiveGrants = {} /\ totalLicenses = 0
      BY DEF RegistryAloneInit, RegistryInit, ActiveGrants, NoLicense
    <2> QED
      BY <2>1, FS_EmptySet, CountIs
  <1>2. RegInv /\ LicensesCounted /\ [RegistryNext]_<<now, registryVars>> => LicensesCounted'
    <2> SUFFICES ASSUME RegInv, LicensesCounted, [RegistryNext]_<<now, registryVars>>
                 PROVE  LicensesCounted'
      OBVIOUS
    <2>0. RegistryTypeOK
      BY DEF RegInv
    <2>1. CASE UNCHANGED <<licenses, totalLicenses>>
      BY <2>1 DEF LicensesCounted
    <2>2. ASSUME NEW a \in Assets, NEW l \in Licensees, NEW n \in Durations, GrantLicense(a, l, n)
          PROVE  LicensesCounted'
      BY <2>0, <2>2, GrantCounted DEF LicensesCounted, ActiveGrants
    <2>3. ASSUME NEW a \in Assets, NEW l \in Licensees, RevokeLicense(a, l)
          PROVE  LicensesCounted'
      BY <2>0, <2>3, RevokeCounted DEF LicensesCounted, ActiveGrants
    <2> QED
      BY <2>1, <2>2, <2>3
         DEF RegistryNext, UserNext, OwnerNext, CallerNext, RegisterAsset, TransferAsset,
             AuthorizeILRM, RevokeILRM, CallFreeze, CallUnfreeze, CallApplyFallback,
             DisputesLeaveAlone, registryVars
  <1>3. (now \in Nat /\ RegInv) => RegInv
    OBVIOUS
  <1> QED
    BY <1>1, <1>2, <1>3, RegistryInvariance, PTL DEF RegistrySpec
=============================================================================
