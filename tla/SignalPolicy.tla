---------------------------- MODULE SignalPolicy ----------------------------
(***************************************************************************)
(* What the shell does with a signal, and what it hands to its children:   *)
(* signals.c, shell_refresh_signal_policy (shell.c), builtin_trap          *)
(* (special.c), the forks of spawn.c and command_subst.c.                  *)
(*                                                                         *)
(* The code treats every signal by itself, in loops over signal numbers,   *)
(* so the model follows one of them, chosen at the start.  It also follows *)
(* one process: after a fork it goes on with the child.  outside and       *)
(* inside remember the last trap commands, as the test matrix of           *)
(* tests/posix/signal.sh names them, and past how the process came about;  *)
(* the code does not have them.                                            *)
(*                                                                         *)
(* Left out: SIGCHLD and the signals no shell can handle, pending signals  *)
(* (see TrapEngine), POSISH_PARENT_INTERACTIVE, and set -i at run time.    *)
(***************************************************************************)
EXTENDS Naturals

CONSTANTS Signals,    \* classes of signals
          Contexts,   \* the forks taken: "subshell", "cmdsub", "async", "pipeline"
          MaxNesting, \* forks of forks
          Interactive \* kinds of shells: TRUE for interactive ones

ASSUME SignalsAssumption == Signals \subseteq {"INT", "QUIT", "TERM", "TSTP", "USR1"}
ASSUME ContextsAssumption == Contexts \subseteq {"subshell", "cmdsub", "async", "pipeline"}
ASSUME MaxNestingAssumption == MaxNesting \in Nat
ASSUME InteractiveAssumption == Interactive \subseteq BOOLEAN

VARIABLES
  signo,       \* the signal followed
  inherited,   \* g_inherited_ignored
  interactive, \* shell_state.interactive
  sh,          \* the process: disposition, trap table and options
  target,      \* "shell", or "utility" once something else is executed
  context,     \* "main" or the last fork
  nesting,     \* forks taken
  outside,     \* the trap in force when the context was entered
  inside,      \* the trap command executed since
  past         \* the forks on the way here, and "set" if set -m or +m was

vars == <<signo, inherited, interactive, sh, target, context, nesting, outside, inside, past>>

Dispositions == {"default", "ignore", "trap"}
TrapActions == {"clear", "ignore", "command"}
Shells == [disp : Dispositions, trap : {"none", "ignore", "command"}, cleared : BOOLEAN,
           policy : BOOLEAN, monitor : BOOLEAN, async : BOOLEAN, main : BOOLEAN]

TypeOK ==
  /\ signo \in Signals
  /\ inherited \in BOOLEAN /\ interactive \in BOOLEAN
  /\ sh \in Shells
  /\ target \in {"shell", "utility"}
  /\ context \in Contexts \cup {"main"}
  /\ nesting \in 0..MaxNesting
  /\ outside \in TrapActions \cup {"keep"} /\ inside \in TrapActions \cup {"keep"}
  /\ past \subseteq Contexts \cup {"set"}

-----------------------------------------------------------------------------
InteractivePolicy == signo \in {"INT", "QUIT", "TERM"}
MonitorPolicy == signo \in {"TSTP"}
InterruptsJobs == signo \in {"INT", "QUIT"}

inherited_ignore_locked == ~interactive /\ inherited

Disposed(s, disp) == [s EXCEPT !.disp = disp]
DefaultOr(ignored) == IF ignored THEN "ignore" ELSE "default"

signals_apply_policy(s) ==
  IF (interactive /\ InteractivePolicy) \/ (s.monitor /\ MonitorPolicy)
  THEN [s EXCEPT !.policy = TRUE, !.disp = "ignore"]
  ELSE [s EXCEPT !.policy = FALSE]

(* In the shell itself, whose policy trap - restores (shell.c).            *)
trap_clear_keeps_ignore(s) ==
  (interactive /\ s.main /\ s.policy) \/ inherited_ignore_locked

(* Mutant: the policy is applied over the traps.                           *)
shell_refresh_signal_policy_TrapsFirst(s) ==
  signals_apply_policy(IF s.trap = "command" THEN Disposed(s, "trap") ELSE s)

shell_refresh_signal_policy(s) ==
  LET t == signals_apply_policy(s)
  IN  CASE t.trap = "ignore" -> Disposed(t, "ignore")
        [] t.trap = "command" /\ inherited_ignore_locked ->
             [t EXCEPT !.trap = "none", !.disp = "ignore"]
        [] t.trap = "command" /\ ~inherited_ignore_locked -> Disposed(t, "trap")
        [] t.trap = "none" /\ t.cleared -> Disposed(t, DefaultOr(trap_clear_keeps_ignore(t)))
        [] OTHER -> t

(* Mutant: trap - is stored like a command.                                *)
builtin_trap_clear_Stored(s) == [s EXCEPT !.trap = "clear", !.disp = "trap"]

(* Mutant: trap - forgets what the shell inherited.                        *)
builtin_trap_clear_Always(s) ==
  [s EXCEPT !.trap = "none", !.cleared = TRUE, !.disp = "default"]

(* trap - signal                                                           *)
builtin_trap_clear(s) ==
  [s EXCEPT !.trap = "none", !.cleared = ~inherited_ignore_locked,
            !.disp = DefaultOr((interactive /\ s.main /\ s.policy) \/ inherited_ignore_locked)]

(* trap '' signal                                                          *)
builtin_trap_ignore(s) == [s EXCEPT !.trap = "ignore", !.cleared = FALSE, !.disp = "ignore"]

(* trap command signal                                                     *)
builtin_trap_command(s) ==
  IF inherited_ignore_locked
  THEN [s EXCEPT !.trap = "none", !.cleared = FALSE, !.disp = "ignore"]
  ELSE [s EXCEPT !.trap = "command", !.cleared = FALSE, !.disp = "trap"]

-----------------------------------------------------------------------------
(* What a child does with the signal; a fork of the shell also gives up    *)
(* the command of the trap, a utility has no trap table to give it up in.  *)
apply_child_signal_disposition(s, keepsTable, resetsPolicy) ==
  CASE s.trap = "ignore" -> Disposed(s, "ignore")
    [] s.trap = "command" ->
         [s EXCEPT !.trap = IF keepsTable THEN @ ELSE "none",
                   !.disp = DefaultOr(inherited_ignore_locked)]
    [] s.trap = "none" /\ s.cleared -> Disposed(s, DefaultOr(inherited_ignore_locked))
    [] s.trap = "none" /\ ~s.cleared /\ resetsPolicy /\ s.policy /\ ~inherited ->
         Disposed(s, "default")
    [] OTHER -> s

exec_prepare_signals_for_exec_child(s) ==
  IF InterruptsJobs /\ s.async /\ ~s.monitor /\ ~s.cleared /\ s.trap # "command"
  THEN Disposed(s, "ignore")
  ELSE apply_child_signal_disposition(s, TRUE, s.main)

signals_reset_traps_for_child(s) == apply_child_signal_disposition(s, FALSE, TRUE)

(* Mutants: the policy of the parent reaches the child; nothing is reset.  *)
spawn_run_subshell_payload_KeepPolicy(s) ==
  apply_child_signal_disposition([s EXCEPT !.main = FALSE], FALSE, FALSE)

spawn_run_subshell_payload_NoReset(s) == [s EXCEPT !.main = FALSE]

spawn_run_subshell_payload(s) == signals_reset_traps_for_child([s EXCEPT !.main = FALSE])

(* Mutant: an asynchronous list is a subshell like any other.              *)
spawn_run_async_payload_NotIgnored(s) ==
  signals_reset_traps_for_child([s EXCEPT !.main = FALSE, !.async = TRUE])

spawn_run_async_payload(s) ==
  LET t == signals_reset_traps_for_child([s EXCEPT !.main = FALSE, !.async = TRUE])
  IN  IF InterruptsJobs /\ ~s.monitor THEN [t EXCEPT !.disp = "ignore", !.cleared = FALSE] ELSE t

(* A command substitution keeps the trap table, for trap to print.         *)
reset_signal_traps_for_cmdsub(s) ==
  CASE s.trap = "ignore" -> Disposed(s, "ignore")
    [] s.trap = "command" -> Disposed(s, DefaultOr(inherited_ignore_locked))
    [] s.trap = "none" /\ s.cleared -> Disposed(s, "default")
    [] s.trap = "none" /\ ~s.cleared /\ s.disp = "ignore" /\ s.policy /\ ~inherited ->
         Disposed(s, "default")
    [] OTHER -> s

command_subst_child(s) == reset_signal_traps_for_cmdsub([s EXCEPT !.main = FALSE])

(* A member of a pipeline: nothing is reset.                               *)
spawn_exec_child_payload(s) == [s EXCEPT !.main = FALSE]

-----------------------------------------------------------------------------
(* signals_init and the refreshes of main.                                 *)
Init ==
  /\ signo \in Signals
  /\ inherited \in BOOLEAN /\ interactive \in Interactive
  /\ \E monitor \in BOOLEAN :
       sh = shell_refresh_signal_policy(
              [disp |-> DefaultOr(inherited), trap |-> "none", cleared |-> FALSE,
               policy |-> FALSE, monitor |-> monitor, async |-> FALSE, main |-> TRUE])
  /\ target = "shell" /\ context = "main" /\ nesting = 0
  /\ outside = "keep" /\ inside = "keep" /\ past = {}

Trap(action) ==
  /\ target = "shell"
  /\ sh' = CASE action = "clear" -> builtin_trap_clear(sh)
             [] action = "ignore" -> builtin_trap_ignore(sh)
             [] action = "command" -> builtin_trap_command(sh)
  /\ inside' = action
  /\ UNCHANGED <<signo, inherited, interactive, target, context, nesting, outside, past>>

SetMonitor(on) ==
  /\ target = "shell"
  /\ sh' = IF on # sh.monitor THEN shell_refresh_signal_policy([sh EXCEPT !.monitor = on]) ELSE sh
  /\ past' = past \cup {"set"}
  /\ UNCHANGED <<signo, inherited, interactive, target, context, nesting, outside, inside>>

(* The trap in force: a trap command executed in this context, an async    *)
(* list's own ignoring, or what was ignored outside (signal.sh).           *)
FinalTrap ==
  CASE inherited /\ ~interactive -> "ignore"
    [] ~(inherited /\ ~interactive) /\ inside # "keep" -> inside
    [] ~(inherited /\ ~interactive) /\ inside = "keep" /\ context = "async" /\ ~sh.monitor
         /\ InterruptsJobs -> "ignore"
    [] OTHER -> IF context = "main" \/ outside = "ignore" THEN outside ELSE "keep"

Enter(fork) ==
  /\ target = "shell" /\ nesting < MaxNesting
  /\ sh' = CASE fork = "subshell" -> spawn_run_subshell_payload(sh)
             [] fork = "async" -> spawn_run_async_payload(sh)
             [] fork = "cmdsub" -> command_subst_child(sh)
             [] fork = "pipeline" -> spawn_exec_child_payload(sh)
  /\ context' = fork
  /\ nesting' = nesting + 1
  /\ outside' = CASE FinalTrap = "ignore" -> "ignore"
                  [] FinalTrap # "ignore" /\ inside # "keep" -> inside
                  [] OTHER -> outside
  /\ inside' = "keep"
  /\ past' = past \cup {fork}
  /\ UNCHANGED <<signo, inherited, interactive, target>>

(* A utility is executed, in a child or with exec: execve resets handlers. *)
RunUtility ==
  /\ target = "shell"
  /\ target' = "utility"
  /\ LET s == exec_prepare_signals_for_exec_child(sh)
     IN  sh' = IF s.disp = "trap" THEN Disposed(s, "default") ELSE s
  /\ UNCHANGED <<signo, inherited, interactive, context, nesting, outside, inside, past>>

Next ==
  \/ \E action \in TrapActions : Trap(action)
  \/ \E on \in BOOLEAN : SetMonitor(on)
  \/ \E fork \in Contexts : Enter(fork)
  \/ RunUtility

Spec == Init /\ [][Next]_vars

-----------------------------------------------------------------------------
(* The test matrix of tests/posix/signal.sh, for any nesting of contexts:  *)
(* the disposition is the one its $default_action, $final_trap and         *)
(* $final_action tell from the options, the action inherited, the trap set *)
(* outside the context and the trap set inside.                            *)
DefaultAction ==
  DefaultOr(/\ target = "shell" /\ context = "main"
            /\ (interactive /\ InteractivePolicy) \/ (sh.monitor /\ MonitorPolicy))

FinalAction ==
  CASE FinalTrap = "keep" ->
         IF inherited /\ ~(interactive /\ outside # "keep") THEN "ignore" ELSE DefaultAction
    [] FinalTrap = "clear" -> DefaultAction
    [] FinalTrap = "ignore" -> "ignore"
    [] FinalTrap = "command" -> IF target = "shell" THEN "trap" ELSE DefaultAction

AsTested == ~(target = "shell" /\ MonitorPolicy) => sh.disp = FinalAction

(* The matrix sets the options at the start, has each context once, and no *)
(* pipelines; subshells and command substitutions may be nested here.      *)
ActionIsAsTested ==
  past \subseteq {"subshell", "cmdsub"} \/ (past = {"async"} /\ nesting = 1) => AsTested

(* An asynchronous list without job control ignores SIGINT and SIGQUIT,    *)
(* and so does everything below it until a trap is set: any utility, and   *)
(* whatever subshells, substitutions, pipelines and further lists it is in *)
(* (spawn_run_async_payload).  Interactive shells lose it, see README.     *)
AsyncIgnoresInterrupts ==
  "async" \in past /\ "set" \notin past /\ ~interactive /\ ~sh.monitor /\ InterruptsJobs
    /\ inside = "keep" /\ outside = "ignore"
    => sh.disp = "ignore"

(* A child runs no trap command of its parent, in any nesting: handlers    *)
(* are only for commands set in the same context (spawn_exec_child_payload *)
(* aside, which starts the members of pipelines and resets nothing, see    *)
(* README; signals_reset_traps_for_child, reset_signal_traps_for_cmdsub).  *)
TrapsEndAtForks ==
  "pipeline" \notin past /\ ~({"cmdsub", "set"} \subseteq past)
    => (sh.disp = "trap" => inside = "command")

(* A signal that a shell that is not interactive found ignored stays       *)
(* ignored, in the shell, in every child and in every utility, whatever    *)
(* trap and set do (inherited_ignore_locked in signals.c and special.c).   *)
InheritedIgnoreSticks == inherited /\ ~interactive => sh.disp = "ignore"

(* A handler is only installed for a command trap of the table, and every  *)
(* command of the table is installed, except below a command substitution, *)
(* which keeps the table for trap to print (shell_refresh_signal_policy).  *)
HandlerHasItsCommand ==
  target = "shell" =>
    /\ sh.disp = "trap" => sh.trap = "command"
    /\ "cmdsub" \notin past /\ sh.trap = "command" => sh.disp = "trap"
=============================================================================
