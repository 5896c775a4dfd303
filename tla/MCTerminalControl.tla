-------------------------- MODULE MCTerminalControl --------------------------
EXTENDS TerminalControl

CONSTANTS feishu, dash, cli

\* A cfg chooses Owner among these.
MCkindOf ==
    [o \in Owner |-> CASE o = feishu -> "feishu" [] o = dash -> "dashboard"
                       [] o = cli -> "local-cli"]
=============================================================================
