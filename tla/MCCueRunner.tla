---------------------------- MODULE MCCueRunner ----------------------------
(***************************************************************************)
(* A small cue.  Tasks a and b compete for the session s; c is a spawn, it *)
(* waits for a and is the same work as b.                                  *)
(***************************************************************************)
EXTENDS CueRunner, TLC

CONSTANTS a, b, c, s, n1, n2

MCTarget    == [t \in Tasks |-> IF t = c THEN Spawn ELSE s]
MCDeps      == [t \in Tasks |-> IF t = c THEN {a} ELSE {}]
MCRank      == [t \in Tasks |-> CASE t = a -> 1 [] t = b -> 2 [] OTHER -> 0]
MCDedupeKey == [t \in Tasks |-> IF t = a THEN "" ELSE "fix"]

SpawnSymmetry == Permutations({n1, n2})
=============================================================================
