---------------------------- MODULE MCTrapEngine ----------------------------
(* What TLC runs: every command that leaves the traps alone in any mixture *)
(* of structures, trap and set in each structure, with startup files and   *)
(* without.                                                                *)
EXTENDS TrapEngine

Scripted(commands, structures) ==
  [commands |-> commands, structures |-> structures, startup |-> FALSE]
AfterStartup(script_) == [script_ EXCEPT !.startup = TRUE]
NoTrap == {"builtin", "async", "wait", "foreground"}

MCScripts == {Scripted(NoTrap, {"list", "loop", "and_or"}),
              Scripted(NoTrap, {"list", "loop"}),
              Scripted({"builtin", "trap", "set", "wait", "async"}, {"list"}),
              Scripted({"builtin", "trap", "set"}, {"loop", "and_or"}),
              AfterStartup(Scripted({"builtin"}, {"list"})),
              AfterStartup(Scripted({"builtin", "set"}, {"loop"}))}
=============================================================================
