------------------------------- MODULE Escrow -------------------------------
(***************************************************************************)
(* What the ILRM contract promises about stakes, without disputes, assets  *)
(* or time: whatever was paid into a dispute leaves the pot exactly once,  *)
(* in the step that settles it, nothing of it before; and tokens are burnt *)
(* only when both sides had staked.                                        *)
(***************************************************************************)
EXTENDS Naturals

CONSTANTS Ids,        \* disputes
          Amounts     \* stakes that an initiator may pay in

VARIABLES stage,      \* of each dispute
          paidIn,     \* what each dispute has received
          pot,        \* tokens held for all disputes together
          ash         \* tokens burnt

escrowVars == <<stage, paidIn, pot, ash>>

Stages == {"absent", "open", "matched", "settled"}

Init == /\ stage = [d \in Ids |-> "absent"]
        /\ paidIn = [d \in Ids |-> 0]
        /\ pot = 0
        /\ ash = 0

\* The initiator pays first: no other step brings a dispute into being.
PayIn(d, amount) == /\ stage[d] = "absent"
                    /\ stage' = [stage EXCEPT ![d] = "open"]
                    /\ paidIn' = [paidIn EXCEPT ![d] = amount]
                    /\ pot' = pot + amount
                    /\ UNCHANGED ash

Match(d) == /\ stage[d] = "open"
            /\ stage' = [stage EXCEPT ![d] = "matched"]
            /\ paidIn' = [paidIn EXCEPT ![d] = 2 * @]
            /\ pot' = pot + paidIn[d]
            /\ UNCHANGED ash

\* Only matched stakes may be burnt, in part or in whole.
Settle(d) == /\ stage[d] \in {"open", "matched"}
             /\ stage' = [stage EXCEPT ![d] = "settled"]
             /\ pot' = pot - paidIn[d]
             /\ ash' \in ash .. (ash + paidIn[d])
             /\ stage[d] = "open" => ash' = ash
             /\ UNCHANGED paidIn

Next == \E d \in Ids : \/ \E amount \in Amounts : PayIn(d, amount)
                       \/ Match(d)
                       \/ Settle(d)

Spec == Init /\ [][Next]_escrowVars
=============================================================================
