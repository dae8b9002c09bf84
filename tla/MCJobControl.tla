---------------------------- MODULE MCJobControl ----------------------------
(* Three processes, pipelines of up to three; orderly sessions, both       *)
(* executors with forks that fail, and monitor mode switched on and off.   *)
EXTENDS JobControl

CONSTANT c1

MCPids == 1 .. 3
MCCodes == {17}
MCCommands == {c1}

MCSession(executors, m, toggles, forksFail) ==
  [executors |-> executors, monitor |-> m, toggles |-> toggles, forksFail |-> forksFail]

MCSessions == {MCSession({"text"}, TRUE, FALSE, FALSE),
               MCSession({"ast", "text"}, TRUE, FALSE, TRUE),
               MCSession({"ast", "text"}, FALSE, TRUE, TRUE)}
MCAstSession == {MCSession({"ast"}, TRUE, FALSE, FALSE)}

MCOperands == {[kind |-> "default"], [kind |-> "current"], [kind |-> "previous"],
               [kind |-> "number", number |-> 1], [kind |-> "invalid"],
               [kind |-> "text", commands |-> {c1}]}
MCFirstJob == {[kind |-> "number", number |-> 1]}
=============================================================================
