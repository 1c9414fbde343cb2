----------------------------- MODULE MCAgentRuns -----------------------------
(* Instances of AgentRuns for TLC: workflows, model values and symmetry. *)
EXTENDS AgentRuns, TLC

CONSTANTS w1, w2

MCWorkers  == {w1, w2}
Symmetry   == Permutations(MCWorkers)
==============================================================================
