---------------------------- MODULE MCAgentTurns ----------------------------
(* Two agents of one cohort whose caps allow one or two turns a day. *)
EXTENDS AgentTurns, TLC

CONSTANTS a1, a2, c1

MCSerialPasses == {<<a1>>, <<a2, a1>>}
MCPasses == {<<a1>>, <<a1, a2>>, <<a2, a1>>}
MCAgentCap == [c \in {c1, NoCohort} |-> 5]
RequestSymmetry == Permutations(Requests)
=============================================================================
