-------------------------- MODULE IdempotentService --------------------------
(***************************************************************************)
(* What an idempotency key promises: of all the attempts that share a      *)
(* slot, at most one takes effect, and whoever is told a result is told    *)
(* that one's.                                                             *)
(***************************************************************************)
CONSTANTS Attempts, Slots, SlotOf, Nobody

VARIABLES effects,  \* per slot, the attempts that took effect
          told      \* per attempt, whose result it was told

vars == <<effects, told>>

Init ==
    /\ effects = [s \in Slots |-> {}]
    /\ told = [a \in Attempts |-> Nobody]

Perform(a) ==
    /\ effects[SlotOf[a]] = {}
    /\ effects' = [effects EXCEPT ![SlotOf[a]] = {a}]
    /\ UNCHANGED told

Tell(a) ==
    /\ told[a] = Nobody
    /\ \E b \in effects[SlotOf[a]] : told' = [told EXCEPT ![a] = b]
    /\ UNCHANGED effects

Next == \E a \in Attempts : Perform(a) \/ Tell(a)

Spec == Init /\ [][Next]_vars
==============================================================================
