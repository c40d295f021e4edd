---------------------------- MODULE MCClaudePane ----------------------------
(***************************************************************************)
(* A prompt of two questions, the second with several choices, then a lone *)
(* question with one choice, asked twice, and a lone one with several.     *)
(* One request to answer, one watcher, one post.                           *)
(***************************************************************************)
EXTENDS ClaudePane, TLC

CONSTANTS a1, w1, p1

One == [header |-> "size", multi |-> FALSE, opts |-> <<"s", "m">>]
Some == [header |-> "", multi |-> TRUE, opts |-> <<"m", "s">>]

MCScript == << <<One, Some>>, <<One>>, <<One>>, <<Some>> >>

\* The values of a field are given in any order; q2 is the name of a field
\* without a header.  The second answer to the first question passes Validate
\* and is refused by keystrokesFor.
MCAnswers == <<
  {[size |-> <<"s">>, q2 |-> <<"s", "m">>], [size |-> <<"m">>, q2 |-> << >>]},
  {[size |-> <<"m">>]}, {[size |-> <<"s">>]},
  {[q1 |-> <<"s">>]} >>

MCPaneAnswers ==
  << {[answer |-> <<"m">>]}, {[answer |-> <<"m">>]}, {[answer |-> <<"s">>]},
     {[answer |-> <<"s", "m">>]} >>
=============================================================================
