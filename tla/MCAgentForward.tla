--------------------------- MODULE MCAgentForward ---------------------------
EXTENDS AgentForward

\* One program writes two chunks, the other only connects: enough for a gap or a
\* repetition in one connection and for data that reaches the wrong one.
MCMaxRequests == <<2, 0>>
=============================================================================
