--------------------------- MODULE ViewingEscrow ---------------------------
(***************************************************************************)
(* ViewingKeySDK and the ComplianceEscrow contract under it: a viewing key *)
(* is split among holders, who vote on requests to reveal it and submit    *)
(* their shares to the coordinator of a request.                           *)
(*                                                                         *)
(* A share is its index and whether it is genuine; shares with distinct    *)
(* indices combine to the viewing key when they are genuine and no fewer   *)
(* than the threshold (Shamir), and to another one if not.  An account     *)
(* stands for its private key; a holder may be listed twice.  Holders seal *)
(* shares handed to them or made up, never one another's.                  *)
(***************************************************************************)
EXTENDS Ecies, FiniteSets, Sequences, SequencesExt, FiniteSetsExt

CONSTANTS Accounts,            \* of the holders
          HolderLists,         \* lists of holders to create an escrow for
          EscrowThresholds,
          Requests, Coordinators,
          MadeUpIndices        \* bound: what shares that are made up say they are

ASSUME EscrowAssumption ==
  /\ HolderLists \subseteq Seq(Accounts)
  /\ \A list \in HolderLists : Len(list) \in 2 .. 10
  /\ EscrowThresholds \subseteq Nat \ {0, 1}
  /\ MadeUpIndices \subseteq Nat

VARIABLES
  holders,       \* _shareHolders: the accounts, in their order
  quorum,        \* escrow.threshold
  revealed,      \* escrow.revealed
  handed,        \* of each position, the encrypted share handed out
  request,       \* status, approvals, rejections, whether the vote has expired
  voters,        \* _hasVoted
  submitted,     \* encrypted shares on chain, by request: [holder, sealed]
  learned        \* coordinators whose reconstructAndDecrypt succeeded

escrowVars == <<holders, quorum, revealed, handed, request, voters, submitted, learned>>

Positions == DOMAIN holders

\* _holderIndex: a later position of the same account overwrites an earlier one.
\* The contract counts from 0, and positions from 1.
HolderIndex(a) == Max({i \in Positions : holders[i] = a}) - 1

----------------------------------------------------------------------------
(* createEscrow: encrypt the metadata, split the key, encrypt a share to   *)
(* each holder, register on chain.                                         *)

ViewingKey == [combined |-> TRUE]

encryptWithViewingKey(key, data) == aesGcmEncrypt(key, "metadata iv", data)

\* decryptWithViewingKey returns; with another key it throws.
DecryptsWithViewingKey(key, sealed) == aesGcmOpens(key, "metadata iv", sealed)

EncryptedMetadata == encryptWithViewingKey(ViewingKey, "metadata")

ShareOf(i) == [index |-> i, genuine |-> TRUE]
HandedOut(i) == encrypt(getPublicKey(holders[i]), ShareOf(i), <<"handed", i>>)

\* decryptShare, of a holder who can decrypt it.
DecryptsShare(a, i) == Decrypts(a, handed[i])
decryptShare(i) == decrypted(handed[i])

NewRequest == [status |-> "None", approvals |-> 0, rejections |-> 0, expired |-> FALSE]

EscrowInit ==
  /\ holders \in HolderLists
  /\ quorum \in {t \in EscrowThresholds : t <= Len(holders)}
  /\ revealed = FALSE
  /\ handed = [i \in Positions |-> HandedOut(i)]
  /\ request = [r \in Requests |-> NewRequest]
  /\ voters = [r \in Requests |-> {}]
  /\ submitted = [r \in Requests |-> {}]
  /\ learned = {}

----------------------------------------------------------------------------
(* Requests and votes.                                                     *)

RequestReveal(r) ==
  /\ request[r].status = "None"
  /\ ~revealed
  /\ request' = [request EXCEPT ![r].status = "Pending"]
  /\ UNCHANGED <<holders, quorum, revealed, handed, voters, submitted, learned>>

\* The status a vote leads to.
TalliedEarly(approvals, rejections) ==
  IF approvals >= quorum THEN "Approved"
  ELSE IF rejections >= Len(holders) - quorum THEN "Rejected" ELSE "Pending"
Tallied(approvals, rejections) ==
  IF approvals >= quorum THEN "Approved"
  ELSE IF rejections > Len(holders) - quorum THEN "Rejected" ELSE "Pending"

VoteOnReveal(r, a, approve) ==
  LET approvals  == request[r].approvals + IF approve THEN 1 ELSE 0
      rejections == request[r].rejections + IF approve THEN 0 ELSE 1
  IN /\ request[r].status = "Pending"
     /\ ~request[r].expired
     /\ a \in ToSet(holders) \ voters[r]
     /\ voters' = [voters EXCEPT ![r] = @ \cup {a}]
     /\ request' = [request EXCEPT ![r] =
                      [status |-> Tallied(approvals, rejections),
                       approvals |-> approvals, rejections |-> rejections, expired |-> FALSE]]
     /\ UNCHANGED <<holders, quorum, revealed, handed, submitted, learned>>

\* The voting period runs out.
Lapse(r) ==
  /\ request[r].status = "Pending"
  /\ ~request[r].expired
  /\ request' = [request EXCEPT ![r].expired = TRUE]
  /\ UNCHANGED <<holders, quorum, revealed, handed, voters, submitted, learned>>

ExpireRequest(r) ==
  /\ request[r].status = "Pending"
  /\ request[r].expired
  /\ request' = [request EXCEPT ![r].status = "Expired"]
  /\ UNCHANGED <<holders, quorum, revealed, handed, voters, submitted, learned>>

----------------------------------------------------------------------------
(* Shares.                                                                 *)

OwnShare(a, shareIndex) == shareIndex = HolderIndex(a)

\* submitShareForReveal, which cannot see what it is given.
SubmitShareForReveal(r, a, shareIndex, sealed) ==
  /\ request[r].status = "Approved"
  /\ a \in ToSet(holders)
  /\ ~ \E s \in submitted[r] : s.holder = a
  /\ OwnShare(a, shareIndex)
  /\ submitted' = [submitted EXCEPT ![r] = @ \cup {[holder |-> a, sealed |-> sealed]}]
  /\ UNCHANGED <<holders, quorum, revealed, handed, request, voters, learned>>

\* What an account can seal: shares it decrypted, and shares it makes up.
SharesOf(a) == {decryptShare(i) : i \in {i \in Positions : DecryptsShare(a, i)}}
               \cup {[index |-> i, genuine |-> FALSE] : i \in MadeUpIndices}

SealedTo(to, share, r, a) == encrypt(getPublicKey(to), share, <<r, a>>)

\* submitShare names the index of the share it seals.
SubmitShare(r, a, share, to) ==
  SubmitShareForReveal(r, a, share.index - 1, SealedTo(to, share, r, a))

\* A holder that calls the contract itself names its own index, whatever it seals.
SubmitDirectly(r, a, share, to) ==
  SubmitShareForReveal(r, a, HolderIndex(a), SealedTo(to, share, r, a))

\* What a coordinator can decrypt of the requests.
OnChain == UNION {submitted[r] : r \in Requests}
Collected(k) == {decrypted(s.sealed) : s \in {s \in OnChain : Decrypts(k, s.sealed)}}

\* combine throws when an index is repeated, or with fewer than two shares.
Combines(shares) == /\ \A s, u \in shares : s.index = u.index => s = u
                    /\ Cardinality(shares) >= 2

combinedKey(shares) ==
  [combined |-> Cardinality(shares) >= quorum /\ \A s \in shares : s.genuine]

Restores(shares) ==
  Combines(shares) /\ DecryptsWithViewingKey(combinedKey(shares), EncryptedMetadata)

ReconstructAndDecrypt(k) ==
  /\ k \notin learned
  /\ \E shares \in SUBSET Collected(k) : Restores(shares)
  /\ learned' = learned \cup {k}
  /\ UNCHANGED <<holders, quorum, revealed, handed, request, voters, submitted>>

\* Any holder may finalize, with any hash: the contract compares it to nothing.
FinalizeReveal(r) ==
  /\ request[r].status = "Approved"
  /\ Cardinality(submitted[r]) >= quorum
  /\ ~revealed
  /\ revealed' = TRUE
  /\ request' = [request EXCEPT ![r].status = "Executed"]
  /\ UNCHANGED <<holders, quorum, handed, voters, submitted, learned>>

----------------------------------------------------------------------------
RequestStep(r) ==
  \/ RequestReveal(r)
  \/ Lapse(r)
  \/ ExpireRequest(r)
  \/ FinalizeReveal(r)
  \/ \E a \in Accounts, approve \in BOOLEAN : VoteOnReveal(r, a, approve)
  \/ \E a \in ToSet(holders), to \in Coordinators : \E share \in SharesOf(a) :
        SubmitShare(r, a, share, to) \/ SubmitDirectly(r, a, share, to)

EscrowNext == \/ \E r \in Requests : RequestStep(r)
              \/ \E k \in Coordinators : ReconstructAndDecrypt(k)

EscrowSpec == EscrowInit /\ [][EscrowNext]_escrowVars

----------------------------------------------------------------------------
(* Properties.                                                             *)

SendersTo(k) == {s.holder : s \in {s \in OnChain : SealedFor(k, s.sealed)}}

\* The places on the list of those senders.
PlacesOfSenders(k) == {i \in Positions : holders[i] \in SendersTo(k)}

\* A coordinator that learned the key was sent shares by accounts that hold a quorum
\* of the places, on a request that a quorum of accounts had approved.  (That is as
\* many senders where each account is listed once; one that is listed twice can hand
\* in its two shares on two requests, though never more than its places.)
LearnsByQuorum ==
  \A k \in learned :
    /\ Cardinality(PlacesOfSenders(k)) >= quorum
    /\ \E r \in Requests : /\ request[r].status \in {"Approved", "Executed"}
                          /\ Cardinality(voters[r]) >= quorum

\* A vote is closed when its outcome is certain: a rejected request could not be
\* approved by all who have not voted.  And not before, where each account is listed
\* once: those who have not voted can still approve a pending request and still
\* reject it.  (An account listed twice has one vote and counts for two shares, so
\* that a request may stay pending until it expires, with nobody left to vote.)
VotesDecide ==
  \A r \in Requests :
    LET q    == request[r]
        left == Cardinality(ToSet(holders) \ voters[r])
    IN /\ q.status = "Pending" => q.approvals < quorum /\ q.rejections <= Len(holders) - quorum
       /\ q.status = "Rejected" => q.approvals + left < quorum
       /\ q.status = "Pending" /\ IsInjective(holders)
            => q.approvals + left >= quorum /\ q.rejections + left > Len(holders) - quorum
       /\ q.status \in {"Approved", "Executed"} => q.approvals >= quorum

\* When a reveal is executed whose holders all sent genuine shares to the same
\* coordinator, that coordinator can open the metadata.
ExecutedOpens ==
  \A r \in Requests, k \in Coordinators :
    request[r].status = "Executed"
    /\ (\A s \in submitted[r] : SealedFor(k, s.sealed) /\ decrypted(s.sealed).genuine)
    => Restores({decrypted(s.sealed) : s \in submitted[r]})

\* The three together: what the holders' threshold decides.
HoldersDecide == LearnsByQuorum /\ VotesDecide /\ ExecutedOpens
=============================================================================
