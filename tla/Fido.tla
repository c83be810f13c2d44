-------------------------------- MODULE Fido --------------------------------
(***************************************************************************)
(* Hardware keys of one user: FIDO2SDK makes credentials and signs actions *)
(* with them, FIDOVerifier registers the keys and verifies what was        *)
(* signed.  The challenge of an action is fresh, and stands here for the   *)
(* place of its assertion among all that were signed.  An authenticator    *)
(* either counts its signatures or reports 0 in each.  A signature         *)
(* verifies under the key of its credential and no other; a call that      *)
(* reverts changes nothing and is left out.                                *)
(***************************************************************************)
EXTENDS Naturals, FiniteSets, Sequences, SequencesExt

CONSTANTS Credentials,
          Counting,              \* those whose authenticator counts
          MaxSigned, MaxKeys     \* bounds on assertions and on registrations

ASSUME FidoAssumption == Counting \subseteq Credentials

VARIABLES
  created,          \* credentials that exist
  counter,          \* external: the count in the last signature of each
  signed,           \* assertions: credential, signCount and challenge
  keys,             \* _keys: active and signCount
  userKeyIds,       \* _userKeyIds, with an entry for every registration
  activeKeyCount,
  usedChallenges,
  accepted          \* challenges of the assertions found valid since the
                    \* credential was last registered, in order

fidoVars == <<created, counter, signed, keys, userKeyIds, activeKeyCount,
              usedChallenges, accepted>>

FidoInit ==
  /\ created = {}
  /\ counter = [c \in Credentials |-> 0]
  /\ signed = <<>>
  /\ keys = [c \in Credentials |-> [active |-> FALSE, signCount |-> 0]]
  /\ userKeyIds = <<>>
  /\ activeKeyCount = 0
  /\ usedChallenges = {}
  /\ accepted = [c \in Credentials |-> <<>>]

----------------------------------------------------------------------------
(* The SDK.                                                                *)

\* registerKey of the SDK: the authenticator makes a new credential.
CreateCredential(c) ==
  /\ c \notin created
  /\ created' = created \cup {c}
  /\ UNCHANGED <<counter, signed, keys, userKeyIds, activeKeyCount, usedChallenges, accepted>>

\* A digest of the action, the time and 16 random bytes.
generateActionChallenge == Len(signed) + 1

\* signAction, with this credential or with the one the user picks.
SignAction(c) ==
  /\ c \in created
  /\ Len(signed) < MaxSigned
  /\ counter' = [counter EXCEPT ![c] = IF c \in Counting THEN @ + 1 ELSE 0]
  /\ signed' = Append(signed, [credential |-> c, signCount |-> counter'[c],
                                challenge  |-> generateActionChallenge])
  /\ UNCHANGED <<created, keys, userKeyIds, activeKeyCount, usedChallenges, accepted>>

----------------------------------------------------------------------------
(* The contract.                                                           *)

RegisterKey(c) ==
  /\ c \in created
  /\ ~keys[c].active
  /\ Len(userKeyIds) < MaxKeys
  /\ keys' = [keys EXCEPT ![c] = [active |-> TRUE, signCount |-> 0]]
  /\ userKeyIds' = Append(userKeyIds, c)
  /\ activeKeyCount' = activeKeyCount + 1
  /\ accepted' = [accepted EXCEPT ![c] = <<>>]
  /\ UNCHANGED <<created, counter, signed, usedChallenges>>

RevokeKey(c) ==
  /\ keys[c].active
  /\ keys' = [keys EXCEPT ![c].active = FALSE]
  /\ activeKeyCount' = activeKeyCount - 1
  /\ UNCHANGED <<created, counter, signed, userKeyIds, usedChallenges, accepted>>

\* A count of 0 taken for a count.
FreshAlways(a) == a.signCount > keys[a.credential].signCount

FreshCount(a) == ~(a.signCount > 0 /\ a.signCount <= keys[a.credential].signCount)

\* The search through the user's keys finds one under which the assertion holds.
Matches(a) == /\ a.credential \in ToSet(userKeyIds)
              /\ keys[a.credential].active
              /\ FreshCount(a)

\* verifyAssertion for its user of an assertion against its own challenge: the
\* challenge is used up even when the answer is false.
VerifyAssertion(n) ==
  LET a == signed[n] IN
  /\ a.challenge \notin usedChallenges
  /\ usedChallenges' = usedChallenges \cup {a.challenge}
  /\ IF Matches(a)
     THEN /\ keys' = [keys EXCEPT ![a.credential].signCount = a.signCount]
          /\ accepted' = [accepted EXCEPT ![a.credential] = Append(@, a.challenge)]
     ELSE UNCHANGED <<keys, accepted>>
  /\ UNCHANGED <<created, counter, signed, userKeyIds, activeKeyCount>>

\* verifyAssertion for another user, or of a signature that holds under no key:
\* false is all it answers, and the challenge is used up.
SpendChallenge(n) ==
  /\ signed[n].challenge \notin usedChallenges
  /\ usedChallenges' = usedChallenges \cup {signed[n].challenge}
  /\ UNCHANGED <<created, counter, signed, keys, userKeyIds, activeKeyCount, accepted>>

FidoNext ==
  \/ \E c \in Credentials : \/ CreateCredential(c)
                            \/ SignAction(c)
                            \/ RegisterKey(c)
                            \/ RevokeKey(c)
  \/ \E n \in DOMAIN signed : VerifyAssertion(n) \/ SpendChallenge(n)

FidoSpec == FidoInit /\ [][FidoNext]_fidoVars

----------------------------------------------------------------------------
(* Properties.                                                             *)

\* Under one registration no assertion is accepted twice, and those of a key
\* that counts are accepted in the order in which they were signed, whatever
\* order they arrive in.
AcceptedInOrder ==
  \A c \in Credentials :
    /\ IsInjective(accepted[c])
    /\ c \in Counting => \A i, j \in DOMAIN accepted[c] :
                            i < j => accepted[c][i] < accepted[c][j]

\* No order of signing, registering and revoking locks a user out: the last thing
\* signed with an active key is accepted, unless its challenge was submitted before,
\* by whomever and with whatever signature.
LatestAccepted ==
  \A n \in DOMAIN signed \ usedChallenges :
    /\ keys[signed[n].credential].active
    /\ \A m \in DOMAIN signed : signed[m].credential = signed[n].credential => m <= n
    => Matches(signed[n])

\* hasRegisteredKey, which answers from the counter, agrees with the keys, over
\* revocations and repeated registrations of the same credential.
KeysCounted ==
  activeKeyCount = Cardinality({c \in Credentials : keys[c].active})

\* The three together: what verifyAssertion and hasRegisteredKey promise a user.
FidoKeys == AcceptedInOrder /\ LatestAccepted /\ KeysCounted
=============================================================================
