----------------------------- MODULE MCJobTable -----------------------------
(* Three processes, pipelines of two, one exit code or signal.             *)
EXTENDS JobTable

CONSTANT c1

MCPids == 1 .. 3
MCCommands == {c1}
MCValues == {1}
=============================================================================
