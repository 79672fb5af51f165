---------------------------- MODULE SessionRunsMC ----------------------------
(* Two runs of a session, one of them started by the chat command. *)
EXTENDS SessionRuns
CONSTANTS r1, r2, c1, m1

MCRun == {r1, r2}
=============================================================================
