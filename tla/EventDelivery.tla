---------------------------- MODULE EventDelivery ----------------------------
(***************************************************************************)
(* What the outbox promises the rest of the system: an event that was      *)
(* recorded is settled once, as published or as dead, and an event that    *)
(* was published is projected exactly once; total counts the projections.  *)
(***************************************************************************)
EXTENDS Naturals, FiniteSets

CONSTANT Messages

VARIABLES recorded, published, dead, projected, total

vars == <<recorded, published, dead, projected, total>>

Unsettled == recorded \ (published \cup dead)

Init ==
    /\ recorded = {} /\ published = {} /\ dead = {} /\ projected = {}
    /\ total = 0

Record(m) ==
    /\ m \notin recorded
    /\ recorded' = recorded \cup {m}
    /\ UNCHANGED <<published, dead, projected, total>>

\* One pass settles some events and projects some published ones.
Pass(P, D, Q) ==
    /\ P \cup D \subseteq Unsettled
    /\ P \cap D = {}
    /\ published' = published \cup P
    /\ dead' = dead \cup D
    /\ Q \subseteq published' \ projected
    /\ projected' = projected \cup Q
    /\ total' = total + Cardinality(Q)
    /\ UNCHANGED recorded

Next ==
    \/ \E m \in Messages : Record(m)
    \/ \E P, D, Q \in SUBSET Messages : Pass(P, D, Q)

Spec == Init /\ [][Next]_vars
==============================================================================
