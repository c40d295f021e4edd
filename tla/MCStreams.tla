----------------------------- MODULE MCStreams -----------------------------
(***************************************************************************)
(* Five records: a state of the session, a shell prompt, another state,    *)
(* one that projects to nothing, and the first state again.  An SSE buffer *)
(* of two, a delta of two turns, and a session followed twice.             *)
(***************************************************************************)
EXTENDS Streams

MCRecords == <<"built", "$", "tested", "", "built">>
=============================================================================
