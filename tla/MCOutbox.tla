------------------------------ MODULE MCOutbox ------------------------------
(* The outbox pipeline on small instances. *)
EXTENDS OutboxPipeline, TLC

WorkerSymmetry == Permutations(Workers)
=============================================================================
