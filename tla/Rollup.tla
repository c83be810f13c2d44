------------------------------- MODULE Rollup -------------------------------
(***************************************************************************)
(* What an optimistic rollup promises about its state roots: a root is     *)
(* final only after it stood unrefuted for the challenge window, and final *)
(* and refuted are for ever.                                               *)
(***************************************************************************)
EXTENDS Naturals

CONSTANTS StateRoots,
          Window        \* the shortest time a root must stand

VARIABLES since,        \* when each standing root was proposed, 0 for the others
          final,
          refuted,
          clock

rollupVars == <<since, final, refuted, clock>>

Init == /\ since = [r \in StateRoots |-> 0]
        /\ final = {}
        /\ refuted = {}
        /\ clock = 1

Propose(r) == /\ since[r] = 0
              /\ r \notin final \cup refuted
              /\ UNCHANGED <<final, refuted, clock>>
              /\ since' = [since EXCEPT ![r] = clock]

Finalize(r) == /\ since[r] # 0
               /\ r \notin final \cup refuted
               /\ clock >= since[r] + Window
               /\ final' = final \cup {r}
               /\ UNCHANGED <<since, refuted, clock>>

\* Nothing that is final can be refuted.
Refute(r) == /\ r \notin final \cup refuted
             /\ refuted' = refuted \cup {r}
             /\ UNCHANGED <<final, clock>>
             /\ since' = [since EXCEPT ![r] = 0]

Pass == clock' = clock + 1 /\ UNCHANGED <<since, final, refuted>>

Next == \/ \E r \in StateRoots : Propose(r) \/ Finalize(r) \/ Refute(r)
        \/ Pass

Spec == Init /\ [][Next]_rollupVars
=============================================================================
