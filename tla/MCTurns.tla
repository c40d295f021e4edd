------------------------------ MODULE MCTurns ------------------------------
(***************************************************************************)
(* Three calls and a channel with room for two, so that a sender blocks    *)
(* and a turn merges several utterances.  One caller speaks, one types and *)
(* one does not say which.                                                 *)
(***************************************************************************)
EXTENDS Turns

CONSTANTS c1, c2, c3

MCMedium ==
  [c \in Callers |-> CASE c = c1 -> "speech" [] c = c2 -> "text" [] OTHER -> ""]
=============================================================================
