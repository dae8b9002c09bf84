------------------------------- MODULE Script -------------------------------
(***************************************************************************)
(* The shell reads a script: it runs the commands of its input one after   *)
(* the other with shell_run_command until the input or the shell ends      *)
(* (shell_run_stream_command, shell.c).  struct shell_state carries over   *)
(* from a command to the next; PortableScript says what they keep.         *)
(***************************************************************************)
EXTENDS PosixExec

CONSTANTS Inputs, \* a script, that is a sequence of commands, and whether
                  \* errexit is set at the start
          Fuel    \* how often "count" holds in one command

VARIABLES script, \* the input
          next,   \* the command to run next
          st,     \* struct shell_state
          errexit \* the option before the last command

vars == <<script, next, st, errexit>>

Init ==
  /\ \E input \in Inputs :
       /\ script = input.script
       /\ errexit = input.errexit
       /\ st = StartState(input.errexit, Fuel)
  /\ next = 1

RunCommand ==
  /\ ~st.should_exit
  /\ next <= Len(script)
  /\ next' = next + 1
  /\ errexit' = st.errexit
  /\ st' = shell_run_command([st EXCEPT !.fuel = Fuel], script[next])
  /\ UNCHANGED script

Next == RunCommand

Spec == Init /\ [][Next]_vars

-----------------------------------------------------------------------------
(* The command run last, and whether there is one.                         *)
Ran == next > 1
Command == script[next - 1]

(* set -e: a simple command that fails ends the shell                      *)
(* (maybe_trigger_errexit), whatever ran before it.                        *)
FailureEndsTheShell ==
  Ran /\ Command.kind = "utility" /\ Command.status # 0 /\ errexit => st.should_exit
=============================================================================
