---------------------------- MODULE MCPlanBatch ----------------------------
(***************************************************************************)
(* Every batch of up to three tasks with every choice of edges; an id that *)
(* no task of the batch has stands for one the model made up.              *)
(***************************************************************************)
EXTENDS PlanBatch, TLC

IdSymmetry == Permutations(Ids)
=============================================================================
