---------------------------- MODULE MCTurnStream ----------------------------
(* Instances of TurnStream for TLC. *)
EXTENDS TurnStream

\* Anthropic's answers: text and calls, alone and together, nothing included.
Mixed == {<<>>, <<"text">>, <<"tool_use">>, <<"text", "tool_use">>, <<"text", "text">>}
=============================================================================
