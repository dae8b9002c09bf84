----------------------------- MODULE TrapEngine -----------------------------
(***************************************************************************)
(* How caught signals reach their trap commands: the handler and the flags *)
(* it sets (signals.c), shell_run_pending_traps, which takes the signals   *)
(* and runs the commands (shell.c), the places that call it (after each    *)
(* command of a list; after a turn of a loop only if g_any_pending is set; *)
(* when waitpid is interrupted) and the end of the shell (main.c).         *)
(*                                                                         *)
(* The handler runs between any two steps of the shell, so the scans of    *)
(* g_pending are taken apart.  One asynchronous and one foreground child   *)
(* stand for all.  Every signal has a command trap from the beginning on,  *)
(* set in a startup file if there is one; "trap" among the commands        *)
(* replaces it by another, and "set" is set with -m, +m, -i or +i, which   *)
(* refreshes the signal policy, as main does after the startup files.  The *)
(* commands of a trap are one step around the call of                      *)
(* shell_run_pending_traps they make.  The EXIT trap is a state.           *)
(***************************************************************************)
EXTENDS Naturals

CONSTANTS NSIG,          \* signals are 1..NSIG; the scans go upwards
          MaxDeliveries, \* how often each signal is delivered
          Scripts        \* what the shell may be given to run

ASSUME ScriptsAssumption ==
  Scripts \subseteq [commands : SUBSET {"builtin", "async", "wait", "foreground", "trap", "set"},
                     structures : SUBSET {"list", "loop", "and_or"},
                     startup : BOOLEAN] \* after startup files, or without

ASSUME NSIGAssumption == NSIG \in Nat \ {0}
ASSUME MaxDeliveriesAssumption == MaxDeliveries \in Nat

Signals == 1..NSIG

VARIABLES
  script,      \* what is run: commands, and what they stand in
  g_pending, g_any_pending,
  last_handled_signal, should_exit, running_signal_trap,
  pc,          \* where the shell is
  startup,     \* the startup files: "running", "refresh" behind them, or "over"
  signo,       \* the scan of signals_take_next_pending, then what it took;
               \* also the loop of shell_refresh_signal_policy
  scan,        \* the scan of refresh_any_pending
  back,        \* where shell_run_pending_traps returns to
  previous,    \* previous_signal of wait
  waiting_for, \* the child waitpid is called for
  children,    \* "none", "running" or "ended"
  turn,        \* flips with every command
  delivered,   \* history: how often each signal was delivered,
  ran,         \* how often its trap began to run,
  owed,        \* the signals whose trap neither began nor was replaced
               \* since a delivery, nor the policy refreshed for them,
  late         \* and those delivered since the shell began to end

flags == <<g_pending, g_any_pending>>
state == <<last_handled_signal, should_exit, running_signal_trap>>
waits == <<previous, waiting_for, children>>
history == <<delivered, ran, owed, late, script>>
vars == <<flags, state, pc, startup, signo, scan, back, waits, turn, history>>

TypeOK ==
  /\ g_pending \in [Signals -> BOOLEAN] /\ g_any_pending \in BOOLEAN
  /\ last_handled_signal \in Signals \cup {0} /\ previous \in Signals \cup {0}
  /\ should_exit \in BOOLEAN /\ running_signal_trap \in BOOLEAN
  /\ pc \in {"ready", "take", "refresh", "run", "trap", "set_refresh", "set_end", "policy",
             "policy_refresh", "wait", "blocked", "interrupted", "waited", "exit_trap", "gone"}
  /\ startup \in {"running", "refresh", "over"}
  /\ signo \in 1..NSIG + 1 /\ scan \in 1..NSIG + 1
  /\ back \in {"ready", "waited", "exit_trap"}
  /\ waiting_for \in {"async", "foreground"}
  /\ children \in [{"async", "foreground"} -> {"none", "running", "ended"}]
  /\ turn \in BOOLEAN
  /\ delivered \in [Signals -> 0..MaxDeliveries] /\ ran \in [Signals -> 0..MaxDeliveries]
  /\ owed \subseteq Signals /\ late \subseteq Signals

Init ==
  /\ script \in Scripts
  /\ g_pending = [s \in Signals |-> FALSE] /\ g_any_pending = FALSE
  /\ last_handled_signal = 0 /\ should_exit = FALSE /\ running_signal_trap = FALSE
  /\ pc = "ready" /\ signo = 1 /\ scan = 1 /\ back = "ready"
  /\ startup = IF script.startup THEN "running" ELSE "over"
  /\ previous = 0 /\ waiting_for = "async"
  /\ children = [c \in {"async", "foreground"} |-> "none"]
  /\ turn = FALSE
  /\ delivered = [s \in Signals |-> 0] /\ ran = [s \in Signals |-> 0]
  /\ owed = {} /\ late = {}

-----------------------------------------------------------------------------
(* The kernel delivers a signal: the handler runs, and waitpid returns     *)
(* EINTR if the shell sleeps in it.                                        *)
trap_handler(s) ==
  /\ pc # "gone" /\ delivered[s] < MaxDeliveries
  /\ g_pending' = [g_pending EXCEPT ![s] = TRUE]
  /\ g_any_pending' = TRUE
  /\ pc' = IF pc = "blocked" THEN "interrupted" ELSE pc
  /\ delivered' = [delivered EXCEPT ![s] = @ + 1]
  /\ owed' = owed \cup {s}
  /\ late' = IF back = "exit_trap" THEN late \cup {s} ELSE late
  /\ UNCHANGED <<startup, state, signo, scan, back, waits, turn, ran, script>>

(* A child ends, and wakes the shell that waits for it.                    *)
ChildEnds(c) ==
  /\ children[c] = "running"
  /\ children' = [children EXCEPT ![c] = "ended"]
  /\ pc' = IF pc = "blocked" /\ waiting_for = c THEN "wait" ELSE pc
  /\ UNCHANGED <<startup, flags, state, signo, scan, back, previous, waiting_for, turn,
                 history>>

-----------------------------------------------------------------------------
(* Mutants: every caller trusts g_any_pending, as the loops do; traps may  *)
(* interrupt traps.                                                        *)
shell_run_pending_traps_IfAny(caller) ==
  IF running_signal_trap \/ ~g_any_pending
  THEN /\ pc' = caller
       /\ UNCHANGED <<running_signal_trap, signo, back>>
  ELSE /\ running_signal_trap' = TRUE
       /\ signo' = 1 /\ back' = caller
       /\ pc' = "take"
shell_run_pending_traps_Nested(caller) ==
  /\ running_signal_trap' = TRUE
  /\ signo' = 1 /\ back' = caller
  /\ pc' = "take"

(* The call of shell_run_pending_traps by caller, which does nothing while *)
(* a trap is running.                                                      *)
shell_run_pending_traps(caller) ==
  IF running_signal_trap
  THEN /\ pc' = caller
       /\ UNCHANGED <<running_signal_trap, signo, back>>
  ELSE /\ running_signal_trap' = TRUE
       /\ signo' = 1 /\ back' = caller
       /\ pc' = "take"

(* Mutants: the signal stays pending; everything pending is dropped.       *)
Take_KeepPending ==
  /\ signo \in Signals /\ g_pending[signo]
  /\ scan' = 1 /\ pc' = "refresh"
  /\ UNCHANGED <<g_pending, signo, running_signal_trap>>
Take_DropAll ==
  /\ signo \in Signals /\ g_pending[signo]
  /\ g_pending' = [s \in Signals |-> FALSE]
  /\ scan' = 1 /\ pc' = "refresh"
  /\ UNCHANGED <<signo, running_signal_trap>>

(* signals_take_next_pending finds a signal, ...                           *)
Take ==
  /\ signo \in Signals /\ g_pending[signo]
  /\ g_pending' = [g_pending EXCEPT ![signo] = FALSE]
  /\ scan' = 1 /\ pc' = "refresh"
  /\ UNCHANGED <<signo, running_signal_trap>>

(* ... or looks at the next, ...                                           *)
Skip ==
  /\ signo \in Signals /\ ~g_pending[signo]
  /\ signo' = signo + 1
  /\ UNCHANGED <<g_pending, pc, scan, running_signal_trap>>

(* ... or finds none, and shell_run_pending_traps returns.                 *)
NoneLeft ==
  /\ signo = NSIG + 1
  /\ running_signal_trap' = FALSE
  /\ pc' = back
  /\ UNCHANGED <<g_pending, signo, scan>>

signals_take_next_pending ==
  /\ pc = "take"
  /\ Take \/ Skip \/ NoneLeft
  /\ UNCHANGED <<startup, g_any_pending, last_handled_signal, should_exit, back, waits,
                 turn, history>>

(* refresh_any_pending stops at the first pending signal; one that arrives *)
(* behind its scan is overwritten.                                         *)
refresh_any_pending ==
  /\ pc \in {"refresh", "set_refresh", "policy_refresh"}
  /\ \/ /\ scan \in Signals /\ ~g_pending[scan]
        /\ scan' = scan + 1
        /\ UNCHANGED <<g_any_pending, pc>>
     \/ /\ scan \in Signals => g_pending[scan]
        /\ g_any_pending' = (scan \in Signals)
        /\ pc' = CASE pc = "refresh" -> "run"
                   [] pc = "set_refresh" -> "set_end"
                   [] pc = "policy_refresh" -> "policy"
        /\ UNCHANGED scan
  /\ UNCHANGED <<startup, g_pending, state, signo, back, waits, turn, history>>

(* The trap command begins.                                                *)
RunTrap ==
  /\ pc = "run"
  /\ last_handled_signal' = signo
  /\ ran' = [ran EXCEPT ![signo] = @ + 1]
  /\ owed' = owed \ {signo}
  /\ shell_run_pending_traps("trap")
  /\ UNCHANGED <<startup, flags, should_exit, scan, waits, turn, delivered, late, script>>

(* It ends, possibly by exit, and the next pending signal is looked for.   *)
TrapEnds ==
  /\ pc = "trap"
  /\ should_exit' \in {should_exit, TRUE}
  /\ signo' = 1
  /\ pc' = "take"
  /\ UNCHANGED <<startup, flags, last_handled_signal, running_signal_trap, scan, back,
                 waits, turn, history>>

-----------------------------------------------------------------------------
(* After a command: in a list, the call is unconditional; the single       *)
(* command in the body of a loop is followed by a look at g_any_pending;   *)
(* between the commands of an AND-OR list there is no call.                *)
CommandEnds ==
  \/ /\ "list" \in script.structures \/ ("loop" \in script.structures /\ g_any_pending)
     /\ shell_run_pending_traps("ready")
  \/ /\ "and_or" \in script.structures \/ ("loop" \in script.structures /\ ~g_any_pending)
     /\ pc' = "ready"
     /\ UNCHANGED <<running_signal_trap, signo, back>>

Builtin ==
  /\ pc = "ready" /\ ~should_exit /\ "builtin" \in script.commands
  /\ turn' = ~turn
  /\ should_exit' \in {FALSE, TRUE}
  /\ CommandEnds
  /\ UNCHANGED <<startup, flags, last_handled_signal, scan, waits, history>>

(* trap with a command and a caught signal: signals_clear_pending, the new *)
(* command, then signals_set_trap, which clears and refreshes once more.   *)
(* What arrives between the two is dropped like what was pending before,   *)
(* so they are one.                                                        *)
SetTrap(s) ==
  /\ pc = "ready" /\ ~should_exit /\ "trap" \in script.commands
  /\ g_pending' = [g_pending EXCEPT ![s] = FALSE]
  /\ scan' = 1 /\ pc' = "set_refresh"
  /\ turn' = ~turn
  /\ owed' = owed \ {s}
  /\ UNCHANGED <<startup, g_any_pending, state, signo, back, waits, delivered, ran, late,
                 script>>

SetTrapEnds ==
  /\ pc = "set_end"
  /\ CommandEnds
  /\ UNCHANGED <<startup, flags, last_handled_signal, should_exit, scan, waits, turn, history>>

(* set with -m, +m, -i or +i, where the option changes, and main behind    *)
(* the startup files, which is no command: no call follows it.             *)
SetPolicy ==
  /\ pc = "ready" /\ ~should_exit /\ "set" \in script.commands
  /\ signo' = 1 /\ pc' = "policy"
  /\ turn' = ~turn
  /\ UNCHANGED <<startup, flags, state, scan, back, waits, history>>

StartupEnds ==
  /\ pc = "ready" /\ ~should_exit /\ startup = "running"
  /\ signo' = 1 /\ pc' = "policy"
  /\ startup' = "refresh"
  /\ UNCHANGED <<flags, state, scan, back, waits, turn, history>>

(* shell_refresh_signal_policy installs the handler of one signal after    *)
(* the other; signals_set_trap and signals_clear_pending both clear and    *)
(* refresh, and are one for the same reason.  What is pending is dropped   *)
(* though the trap stays.  (signals_apply_policy, before the loop, clears  *)
(* some of the same signals, and is one with it.)                          *)
shell_refresh_signal_policy ==
  /\ pc = "policy"
  /\ \/ /\ signo \in Signals
        /\ g_pending' = [g_pending EXCEPT ![signo] = FALSE]
        /\ owed' = owed \ {signo}
        /\ signo' = signo + 1 /\ scan' = 1 /\ pc' = "policy_refresh"
        /\ UNCHANGED <<startup, running_signal_trap, back>>
     \/ /\ signo = NSIG + 1 /\ startup # "refresh"
        /\ CommandEnds
        /\ UNCHANGED <<startup, g_pending, owed, scan>>
     \/ /\ signo = NSIG + 1 /\ startup = "refresh"
        /\ startup' = "over" /\ pc' = "ready"
        /\ UNCHANGED <<g_pending, owed, signo, scan, running_signal_trap, back>>
  /\ UNCHANGED <<g_any_pending, last_handled_signal, should_exit, waits, turn,
                 delivered, ran, late, script>>

StartAsync ==
  /\ pc = "ready" /\ ~should_exit /\ "async" \in script.commands
  /\ children["async"] = "none"
  /\ children' = [children EXCEPT !["async"] = "running"]
  /\ turn' = ~turn
  /\ CommandEnds
  /\ UNCHANGED <<startup, flags, last_handled_signal, should_exit, scan, previous,
                 waiting_for, history>>

(* A child is started in the foreground, or wait is called.                *)
StartForeground ==
  /\ pc = "ready" /\ ~should_exit /\ "foreground" \in script.commands
  /\ children' = [children EXCEPT !["foreground"] = "running"]
  /\ waiting_for' = "foreground"
  /\ pc' = "wait"
  /\ UNCHANGED <<startup, flags, state, signo, scan, back, previous, turn, history>>

builtin_wait ==
  /\ pc = "ready" /\ ~should_exit /\ "wait" \in script.commands
  /\ children["async"] # "none"
  /\ waiting_for' = "async"
  /\ previous' = last_handled_signal
  /\ pc' = "wait"
  /\ UNCHANGED <<startup, flags, state, signo, scan, back, children, turn, history>>

(* waitpid reaps the child, or goes to sleep.                              *)
Reap ==
  /\ pc = "wait" /\ children[waiting_for] = "ended"
  /\ children' = [children EXCEPT ![waiting_for] = "none"]
  /\ turn' = ~turn
  /\ CommandEnds
  /\ UNCHANGED <<startup, flags, last_handled_signal, should_exit, scan, previous,
                 waiting_for, history>>

Sleep ==
  /\ pc = "wait" /\ children[waiting_for] = "running"
  /\ pc' = "blocked"
  /\ UNCHANGED <<startup, flags, state, signo, scan, back, waits, turn, history>>

(* EINTR: the pending traps are run, ...                                   *)
Interrupted ==
  /\ pc = "interrupted"
  /\ shell_run_pending_traps("waited")
  /\ UNCHANGED <<startup, flags, last_handled_signal, should_exit, scan, waits, turn, history>>

(* ... then wait returns 128 + last_handled_signal if that has changed;    *)
WaitReturns ==
  /\ pc = "waited" /\ waiting_for = "async" /\ last_handled_signal # previous
  /\ turn' = ~turn
  /\ CommandEnds
  /\ UNCHANGED <<startup, flags, last_handled_signal, should_exit, scan, waits, history>>

(* otherwise, and for a foreground child, waitpid is called again.         *)
WaitAgain ==
  /\ pc = "waited"
  /\ waiting_for = "foreground" \/ last_handled_signal = previous
  /\ pc' = "wait"
  /\ previous' = last_handled_signal
  /\ UNCHANGED <<startup, flags, state, signo, scan, back, waiting_for, children, turn,
                 history>>

(* Mutant: no drain before the EXIT trap.                                  *)
Drain_Not ==
  /\ pc = "ready" /\ should_exit
  /\ pc' = "exit_trap" /\ back' = "exit_trap"
  /\ UNCHANGED <<startup, flags, state, signo, scan, waits, turn, history>>

(* main drains what is pending, then runs the EXIT trap, during which      *)
(* shell_run_pending_traps does nothing, and the process ends.             *)
Drain ==
  /\ pc = "ready" /\ should_exit
  /\ shell_run_pending_traps("exit_trap")
  /\ UNCHANGED <<startup, flags, last_handled_signal, should_exit, scan, waits, turn, history>>

shell_run_exit_trap ==
  /\ pc = "exit_trap"
  /\ pc' = "gone"
  /\ UNCHANGED <<startup, flags, state, signo, scan, back, waits, turn, history>>

Shell ==
  \/ signals_take_next_pending \/ refresh_any_pending \/ RunTrap \/ TrapEnds
  \/ Builtin \/ StartAsync \/ StartForeground \/ builtin_wait
  \/ (\E s \in Signals : SetTrap(s)) \/ SetTrapEnds
  \/ SetPolicy \/ StartupEnds \/ shell_refresh_signal_policy
  \/ Reap \/ Sleep \/ Interrupted \/ WaitReturns \/ WaitAgain
  \/ Drain \/ shell_run_exit_trap

Next ==
  \/ Shell
  \/ \E s \in Signals : trap_handler(s)
  \/ \E c \in {"async", "foreground"} : ChildEnds(c)

Spec == Init /\ [][Next]_vars

(* The shell is a running process, and its children end.                   *)
FairSpec ==
  /\ Spec
  /\ WF_vars(Shell)
  /\ \A c \in {"async", "foreground"} : WF_vars(ChildEnds(c))

-----------------------------------------------------------------------------
Pending == {s \in Signals : g_pending[s]}
InHand == IF pc \in {"refresh", "run"} THEN {signo} ELSE {}
One(b) == IF b THEN 1 ELSE 0

(* However the handler interleaves with the scans, a delivered signal is   *)
(* pending, or about to run, until its trap has begun or is replaced, or   *)
(* shell_refresh_signal_policy has come to it: set -m forgets caught       *)
(* signals, and so does main behind the startup files (see README).        *)
NoneIsLost == owed \subseteq Pending \cup InHand

(* A trap runs at most once for each delivery.                             *)
NotMoreOftenThanDelivered ==
  \A s \in Signals : ran[s] + One(s \in InHand) + One(g_pending[s]) <= delivered[s]

(* When the EXIT trap runs, only signals that arrived after the drain of   *)
(* main had begun can still be pending ("Drain late-arriving pending       *)
(* signals before shutdown/final EXIT trap", main.c).                      *)
DrainedBeforeExit == pc = "exit_trap" => Pending \subseteq late

(* A pending signal is taken, unless the shell ends first: also in a loop, *)
(* where only g_any_pending tells that there is one and refresh_any_pending*)
(* can overwrite it.  Left out are loops that replace traps, where that    *)
(* refresh is the last (see README), or refresh the policy, which has the  *)
(* same end, and AND-OR lists that never end.                              *)
PendingIsTaken ==
  \/ "and_or" \in script.structures
  \/ "loop" \in script.structures /\ (script.startup \/ script.commands \cap {"trap", "set"} # {})
  \/ \A s \in Signals : g_pending[s] ~> (~g_pending[s] \/ pc \in {"exit_trap", "gone"})
=============================================================================
