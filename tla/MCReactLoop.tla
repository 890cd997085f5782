---------------------------- MODULE MCReactLoop ----------------------------
(* TLC instance of ReactLoop: two tools calls, one asked for twice or with *)
(* the other in one turn, and answers of every kind of content.            *)
EXTENDS ReactLoop

CONSTANTS k1, k2, h1, h2

MCReply ==
  [finish : {"tool_calls"}, calls : {<<k1>>, <<k2, k1>>, <<k2, k2>>}, content : {"prose"}]
    \cup [finish : {"tool_calls"}, calls : {<<k1>>}, content : {"final"}]
    \cup [finish : {"tool_calls"}, calls : {<<>>}, content : {"prose"}]
    \cup [finish : {"stop"}, calls : {<<>>}, content : Content]

MCOutcome ==
  {[errored |-> FALSE, hashes |-> {}],
   [errored |-> FALSE, hashes |-> {h1}],
   [errored |-> TRUE, hashes |-> {h2}]}
=============================================================================
