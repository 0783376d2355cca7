-------------------------- MODULE MCSessionServer --------------------------
(* Instances of SessionServer: agents that call tools, answer again after  *)
(* a retry, resend, and now and then send what no tokenizer allows.        *)
EXTENDS AgentSessions

CONSTANTS User, Tools

\* user, assistant, tool, assistant, tool ... up to two assistant turns.
ToolRequests ==
    {<<u>> : u \in User}
        \cup {<<u, a, t>> : u \in User, a \in Asst, t \in Tools}
        \cup {<<u, a, t, b, v>> : u \in User, a \in Asst, t \in Tools, b \in Asst, v \in Tools}

\* A user message where only tool messages may be appended.
BadRequests == {<<u, a, u>> : u \in User, a \in Asst}

AgentRequests == ToolRequests \cup BadRequests

=============================================================================
