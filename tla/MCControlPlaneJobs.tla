------------------------- MODULE MCControlPlaneJobs -------------------------
(* Two experiments, one of them without a model to report on, over two     *)
(* cohorts of which the second contains the first.                         *)
EXTENDS ControlPlaneJobs, TLC

CONSTANTS e1, e2, a1, a2

MCExperiments == {e1, e2}
MCAgents == {a1, a2}
MCTargets == (e1 :> {a1}) @@ (e2 :> {a1, a2})
=============================================================================
