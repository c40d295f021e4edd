----------------------------- MODULE MCSchedule -----------------------------
(***************************************************************************)
(* Three rows for one piece of work: enough for a row and its successors,  *)
(* and for a row that meets the same work in the other table.              *)
(***************************************************************************)
EXTENDS Schedule
=============================================================================
