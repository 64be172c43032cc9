----------------------------- MODULE MCAgentRun -----------------------------
(* Small instances of AgentRun for TLC.                                    *)
EXTENDS AgentRun, TLC

CONSTANTS m1, m2, c1, c2

MessageSymmetry == Permutations(Messages)
=============================================================================
