--------------------------- MODULE MCAgentRuntime ---------------------------
(* Instances of AgentRuntime for TLC. *)
EXTENDS AgentRuntime, TLC

\* In every turn, a tool call or a reply.
CallOrRespond == [t \in Turns |-> {<<"call">>, <<"respond">>}]

\* In one turn, what an answer of a model or a custom engine can combine, nothing included;
\* the engine of any other turn never decides.
Answers ==
  {<<>>, <<"call">>, <<"other", "respond">>, <<"respond", "call">>, <<"respond", "respond">>}
OneDecides == [t \in Turns |-> IF t = CHOOSE u \in Turns : TRUE THEN Answers ELSE {}]

TurnSymmetry == Permutations(Turns)
=============================================================================
