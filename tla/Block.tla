------------------------------- MODULE Block -------------------------------
(***************************************************************************)
(* The only thing the contracts read of the chain they run on:             *)
(* block.timestamp.  A transaction is one step (it commits or it reverts,  *)
(* and a revert leaves no trace), so the clock moves only between steps.   *)
(* Time is counted in days, the unit of every window in the contracts.     *)
(***************************************************************************)
EXTENDS Naturals

CONSTANT Horizon        \* bound of the model: the last day considered

ASSUME HorizonAssumption == Horizon \in Nat \ {0}

VARIABLE now            \* block.timestamp

\* A timestamp is never zero, which lastDisputeTime uses for "never".
BlockInit == now = 1

Tick == /\ now < Horizon
        /\ now' = now + 1
=============================================================================
