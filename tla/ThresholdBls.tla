---------------------------- MODULE ThresholdBls ----------------------------
(***************************************************************************)
(* threshold-bls.ts: Feldman shares of a key, partial signatures under     *)
(* them, and their aggregation.  A point of either group is represented by *)
(* its logarithm modulo the group's order, so that a pairing check is a    *)
(* product; multiplying a point by zero throws.  The order is a small      *)
(* prime here, above the number of participants.                           *)
(*                                                                         *)
(* One participant may hold a share that was altered on its way.           *)
(***************************************************************************)
EXTENDS Integers, FiniteSets, Sequences, SequencesExt, FiniteSetsExt

CONSTANTS order, participants, Thresholds

ASSUME BlsAssumption ==
  /\ order \in Nat /\ \A d \in 2 .. order - 1 : order % d # 0
  /\ participants \in 1 .. order - 1
  /\ Thresholds \subseteq 1 .. participants

Scalars == 0 .. order - 1
PrivateKeys == 1 .. order - 1      \* what randomPrivateKey returns
Signers == 1 .. participants
MessageHash == 3                   \* logarithm of the message's point

----------------------------------------------------------------------------
(* Arithmetic.                                                             *)

SumMod(f) == FoldFunction(LAMBDA x, result : (result + x) % order, 0, f)
ProductMod(f) == FoldFunction(LAMBDA x, result : (result * x) % order, 1, f)

\* Square and multiply: the result, from where the exponent left is e.
modPow(base, exp) ==
  LET from[e \in 0 .. exp] ==
        [b \in Scalars |-> [result \in Scalars |->
           IF e = 0 THEN result
           ELSE from[e \div 2][(b * b) % order]
                              [IF e % 2 = 1 THEN (result * b) % order ELSE result]]]
  IN from[exp][base % order][1]

\* Fermat.
modInverse(a) == modPow(a, order - 2)

polynomialAt(coefficients, x) ==
  SumMod([i \in DOMAIN coefficients |-> coefficients[i] * modPow(x, i - 1)])

\* The coefficient of a signer with the differences the other way round.
LagrangeSwapped(i, all) ==
  LET others == all \ {i}
  IN (ProductMod([j \in others |-> j])
      * modInverse(ProductMod([j \in others |-> (i - j) % order]))) % order

computeLagrangeCoefficient(i, all) ==
  LET others == all \ {i}
  IN (ProductMod([j \in others |-> j])
      * modInverse(ProductMod([j \in others |-> (j - i) % order]))) % order

----------------------------------------------------------------------------
(* The scheme.                                                             *)

\* generateKeyShares; it throws when a share is zero, which has no public key.
Shares(coefficients) == [i \in Signers |-> polynomialAt(coefficients, i)]
Generates(coefficients) == \A i \in Signers : Shares(coefficients)[i] # 0
KeyShares(coefficients) ==
  [i \in Signers |-> [index       |-> i,
                      secretShare |-> Shares(coefficients)[i],
                      publicKey   |-> Shares(coefficients)[i]]]

\* verifyShare compares the share's public key with the commitments alone.
verifyShare(i, share, commitments) ==
  share.publicKey = SumMod([j \in DOMAIN commitments |-> commitments[j] * modPow(i, j - 1)])

signPartial(share) == (share.secretShare * MessageHash) % order
verifyPartialSignature(signature, publicKey) == signature = (publicKey * MessageHash) % order

\* aggregateSignatures, of signatures by distinct signers.
aggregateSignatures(signatures) ==
  LET all == DOMAIN signatures
  IN SumMod([i \in all |-> signatures[i] * computeLagrangeCoefficient(i, all)])

verifyThresholdSignature(signature, commitments) ==
  verifyPartialSignature(signature, commitments[1])

\* reconstructSecret, of a list of shares of which it uses the first ones.
reconstructSecret(list, threshold) ==
  LET used == SubSeq(list, 1, threshold)
      all  == {used[j].index : j \in DOMAIN used}
  IN SumMod([j \in DOMAIN used |->
               used[j].secretShare * computeLagrangeCoefficient(used[j].index, all)])

\* A viewing key is sealed under the hash of a secret, which stands for it.
encryptViewingKey(viewingKey, secret) == [under |-> secret, viewingKey |-> viewingKey]

\* decryptViewingKey returns; otherwise it throws for the authentication tag.
DecryptsViewingKey(encryptedKey, list, threshold) ==
  encryptedKey.under = reconstructSecret(list, threshold)

----------------------------------------------------------------------------
(* A key is shared, a share perhaps altered, and some participants act.    *)

VARIABLES
  commitments,   \* the coefficients, in the exponent; the first is the public key
  shares,
  altered,       \* external: whose share was altered
  acting         \* the participants that sign, or reconstruct

blsVars == <<commitments, shares, altered, acting>>

BlsInit == /\ commitments \in UNION {[1 .. t -> PrivateKeys] : t \in Thresholds}
           /\ Generates(commitments)
           /\ shares = KeyShares(commitments)
           /\ altered = {}
           /\ acting = {}

Alter(i) == /\ altered = {} /\ acting = {}
            /\ altered' = {i}
            /\ \E s \in PrivateKeys, k \in PrivateKeys :
                  shares' = [shares EXCEPT ![i].secretShare = s, ![i].publicKey = k]
            /\ UNCHANGED <<commitments, acting>>

Act == /\ acting = {}
       /\ acting' \in SUBSET Signers \ {{}}
       /\ UNCHANGED <<commitments, shares, altered>>

BlsNext == Act \/ \E i \in Signers : Alter(i)
BlsSpec == BlsInit /\ [][BlsNext]_blsVars

----------------------------------------------------------------------------
Enough == Cardinality(acting) >= Len(commitments)
Partial == [i \in acting |-> signPartial(shares[i])]

\* A quorum whose shares and partial signatures are each verified signs for the
\* group, though a share was altered: the checks leave nothing that only shows
\* in the aggregate.
VerifiedPartsSuffice ==
  Enough /\ (\A i \in acting : /\ verifyShare(i, shares[i], commitments)
                               /\ verifyPartialSignature(Partial[i], shares[i].publicKey))
    => verifyThresholdSignature(aggregateSignatures(Partial), commitments)

\* A quorum of unaltered shares, listed in any order and with any more of them
\* behind, opens a viewing key that was sealed under the group's secret.
QuorumOpensKey ==
  Enough /\ acting \cap altered = {}
    => \A list \in SetToSeqs({shares[i] : i \in acting}) :
         DecryptsViewingKey(encryptViewingKey("viewing key", commitments[1]), list, Len(commitments))

\* Signing and reconstruction together: any quorum acts for the group.
QuorumActs == VerifiedPartsSuffice /\ QuorumOpensKey
=============================================================================
