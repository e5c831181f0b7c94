---------------------------- MODULE MCAgentLoop ----------------------------
(* The settings with which mini-tui starts the agent.                      *)
EXTENDS AgentLoop

Worker == [control |-> TRUE, confirm |-> FALSE, worker |-> TRUE, oracle |-> "off",
           workspace |-> TRUE, chat |-> FALSE, child |-> FALSE, dispatcher |-> FALSE]

\* A queue worker; a headless worker with a judge that is always asked; a session of the web;
\* a chat turn of a channel; the dispatcher; a headless run that holds for its subagents; and
\* a subagent, which holds at its exit.
Settings ==
    {Worker,
     [Worker EXCEPT !.oracle = "always", !.control = FALSE],
     [Worker EXCEPT !.worker = FALSE, !.oracle = "model", !.workspace = FALSE],
     [Worker EXCEPT !.worker = FALSE, !.oracle = "model", !.chat = TRUE, !.control = FALSE],
     [Worker EXCEPT !.worker = FALSE, !.dispatcher = TRUE],
     [Worker EXCEPT !.worker = FALSE, !.oracle = "model", !.control = FALSE, !.confirm = TRUE],
     [Worker EXCEPT !.worker = FALSE, !.confirm = TRUE, !.child = TRUE]}
=============================================================================
