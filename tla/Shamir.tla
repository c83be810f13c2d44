------------------------------- MODULE Shamir -------------------------------
(***************************************************************************)
(* ShamirSecretSharing over GF(2^Bits): the tables, split and combine.     *)
(* The code has Bits = 8 and the polynomial 0x11b; what matters of that    *)
(* polynomial, that 3 generates the field and 2 does not, is so for        *)
(* x^4 + x^3 + x^2 + x + 1 too.  A secret is one symbol: longer ones are   *)
(* split symbol by symbol, with fresh coefficients.                        *)
(***************************************************************************)
EXTENDS Integers, FiniteSets, Sequences, SequencesExt, FiniteSetsExt

CONSTANTS Bits, GF_PRIMITIVE,      \* the field
          Secrets, MaxShares       \* secrets to split, and into how many shares

ASSUME ShamirAssumption ==
  /\ Bits \in Nat \ {0}
  /\ GF_PRIMITIVE \in 2 ^ Bits .. 2 ^ (Bits + 1) - 1
  /\ Secrets \subseteq 0 .. 2 ^ Bits - 1
  /\ MaxShares \in 2 .. 2 ^ Bits - 1

GF == 0 .. 2 ^ Bits - 1
Order == 2 ^ Bits - 1

----------------------------------------------------------------------------
(* Arithmetic.                                                             *)

\* Bit by bit, from the lowest.
XorTable ==
  LET xor[a \in GF] ==
        [b \in GF |-> IF a = 0 THEN b ELSE 2 * xor[a \div 2][b \div 2] + ((a + b) % 2)]
  IN xor

gfAdd(a, b) == XorTable[a][b]

Double(a) == IF 2 * a \in GF THEN 2 * a
             ELSE gfAdd(2 * a - 2 ^ Bits, GF_PRIMITIVE - 2 ^ Bits)

\* The result, from where b is what is left of the second factor.
gfMultiplyNoTable(a, b) ==
  LET from[left \in GF] ==
        [x \in GF |-> [result \in GF |->
           IF left = 0 THEN result
           ELSE from[left \div 2][Double(x)]
                    [IF left % 2 = 1 THEN gfAdd(result, x) ELSE result]]]
  IN from[b][a][0]

\* The tables with 2 for their generator, which reach only part of the field.
ExpTableOfTwo ==
  LET x[i \in 0 .. Order - 1] == IF i = 0 THEN 1 ELSE gfMultiplyNoTable(x[i - 1], 2)
  IN [i \in 0 .. Order |-> x[i % Order]]

expTable ==
  LET x[i \in 0 .. Order - 1] == IF i = 0 THEN 1 ELSE gfMultiplyNoTable(x[i - 1], 3)
  IN [i \in 0 .. Order |-> x[i % Order]]

\* A later entry overwrites an earlier one; what is never written is 0.
logTable == [x \in GF |-> Max({0} \cup {i \in 0 .. Order - 1 : expTable[i] = x})]

\* The constructor's comment: the powers of 3 are all of the field but 0.
ASSUME GeneratorAssumption ==
  \A x \in GF \ {0} : \E i \in 0 .. Order - 1 : expTable[i] = x

gfMultiply(a, b) == IF a = 0 \/ b = 0 THEN 0
                    ELSE expTable[(logTable[a] + logTable[b]) % Order]

\* For b other than 0; the division by 0 throws.
gfDivide(a, b) == IF a = 0 THEN 0
                  ELSE expTable[((logTable[a] - logTable[b]) + Order) % Order]

\* Horner's loop: its result once the coefficients from i on are in.
\* At 0, where the code returns the first of them at once, the loop would too.
evaluatePolynomial(coefficients, x) ==
  LET n == Len(coefficients)
      result[i \in 1 .. n + 1] ==
        IF i = n + 1 THEN 0 ELSE gfAdd(gfMultiply(result[i + 1], x), coefficients[i])
  IN result[1]

SumOf(f) == FoldFunction(LAMBDA x, value : gfAdd(value, x), 0, f)
ProductOf(f) == FoldFunction(LAMBDA x, product : gfMultiply(product, x), 1, f)

----------------------------------------------------------------------------
(* Sharing.  A set of shares is a function from their indices to the data. *)

\* split, without the last random coefficient.
SplitLow(secret, random, n) ==
  [i \in 1 .. n |-> evaluatePolynomial(<<secret>> \o [random EXCEPT ![Len(random)] = 0], i)]

split(secret, random, n) ==
  [i \in 1 .. n |-> evaluatePolynomial(<<secret>> \o random, i)]

LagrangeTerm(xi, yi, indices) ==
  LET others      == indices \ {xi}
      numerator   == ProductOf([xj \in others |-> xj])
      denominator == ProductOf([xj \in others |-> gfAdd(xi, xj)])
  IN gfMultiply(yi, gfDivide(numerator, denominator))

combine(shares) == SumOf([i \in DOMAIN shares |-> LagrangeTerm(i, shares[i], DOMAIN shares)])

----------------------------------------------------------------------------
(* A dealer splits a secret; some of the holders combine their shares.     *)

VARIABLES secret, threshold, dealt, combined

shamirVars == <<secret, threshold, dealt, combined>>

ShamirInit == /\ secret \in Secrets
              /\ threshold \in 2 .. MaxShares
              /\ dealt = <<>>
              /\ combined = [from |-> {}, value |-> 0]

Random(t) == [1 .. t - 1 -> GF]

Split == /\ dealt = <<>>
         /\ \E random \in Random(threshold) : dealt' = split(secret, random, MaxShares)
         /\ UNCHANGED <<secret, threshold, combined>>

\* combine asks for two shares, whatever the threshold.
Combine == /\ dealt # <<>>
           /\ combined.from = {}
           /\ \E from \in SUBSET DOMAIN dealt :
                 /\ Cardinality(from) >= 2
                 /\ combined' = [from  |-> from,
                                 value |-> combine([i \in from |-> dealt[i]])]
           /\ UNCHANGED <<secret, threshold, dealt>>

ShamirNext == Split \/ Combine
ShamirSpec == ShamirInit /\ [][ShamirNext]_shamirVars

----------------------------------------------------------------------------
\* As many shares as the threshold, or more, give back the secret, whichever
\* they are and whatever the random coefficients: the logarithm tables, with
\* their wrap-around and the zero that has no logarithm, compute the field.
QuorumReconstructs ==
  Cardinality(combined.from) >= threshold => combined.value = secret

\* Fewer shares leave every secret possible: for each there are coefficients
\* that deal the same shares.
BelowQuorumBlind ==
  dealt # <<>> /\ combined.from = {} =>
    \A from \in kSubset(threshold - 1, DOMAIN dealt), other \in Secrets :
       \E random \in Random(threshold) :
          \A i \in from : split(other, random, MaxShares)[i] = dealt[i]

\* The two together: the threshold is where the secret appears, no share later
\* and no share earlier.
SecretByQuorum == QuorumReconstructs /\ BelowQuorumBlind
=============================================================================
