---------------------------- MODULE MCLlmGateway ----------------------------
(* TLC instance of LlmGateway: two threads of the chat provider, one of a  *)
(* second provider at the same endpoint, one that runs the command line    *)
(* back end.                                                               *)
EXTENDS LlmGateway

CONSTANTS chat1, chat2, navigator, cli

MCProviderOf ==
  [t \in Thread |-> CASE t \in {chat1, chat2} -> "chat"
                      [] t = navigator -> "navigator"
                      [] OTHER -> "claude_code"]
=============================================================================
