---------------------------- MODULE McpManagerMC ----------------------------
EXTENDS McpManager, TLC

CONSTANTS x1, x2, s1, s2, npx, uvx

Plain(c) == [cmd |-> c, always |-> FALSE]

\* The file has one server, then another command for it and a second server.
MCDocument == {s1 :> Plain(npx) @@ s2 :> NoCfg, s1 :> Plain(uvx) @@ s2 :> Plain(npx)}
=============================================================================
