----------------------------- MODULE MCPaneFeed -----------------------------
(***************************************************************************)
(* A viewport of two rows and a capture of three.  The pane begins empty,  *)
(* in the shell or with a full-screen program; when it is first seen it    *)
(* may have one row, a screen of rows, or one more that scrolled away.     *)
(* The frames share a row at the bottom or at the top, and one has a row   *)
(* less than the others; a difference shows one row, so that the one       *)
(* between frames that share none is cut.                                  *)
(***************************************************************************)
EXTENDS PaneFeed, TLC

MCFrames == {<<101, 102>>, <<103, 102>>, <<101>>}
=============================================================================
