------------------------- MODULE SignalPolicy_proofs -------------------------
(***************************************************************************)
(* What holds of the disposition of a signal in every shell, for any       *)
(* nesting of its children.                                                *)
(***************************************************************************)
EXTENDS SignalPolicy, TLAPS

USE SignalsAssumption, ContextsAssumption, MaxNestingAssumption, InteractiveAssumption
       DEF Dispositions, TrapActions

(* A locked signal is ignored and cannot have a command or be cleared.     *)
LockedState(s) == s.disp = "ignore" /\ s.trap # "command" /\ ~s.cleared
Locked == inherited_ignore_locked => LockedState(sh)

-----------------------------------------------------------------------------
(* The default or the ignored disposition is a disposition.                *)
LEMMA DefaultOrType == \A b \in BOOLEAN : DefaultOr(b) \in Dispositions
BY DEF DefaultOr

(* The operators on a shell keep the types, and a locked signal ignored.   *)
LEMMA PolicyKeeps ==
  ASSUME NEW s \in Shells, interactive \in BOOLEAN, inherited \in BOOLEAN
  PROVE  /\ signals_apply_policy(s) \in Shells
         /\ s.trap = signals_apply_policy(s).trap
         /\ LockedState(s) => LockedState(signals_apply_policy(s))
BY DEF signals_apply_policy, Shells, LockedState

(* Refreshing the policy leaves a locked signal locked.                    *)
LEMMA RefreshKeeps ==
  ASSUME NEW s \in Shells, interactive \in BOOLEAN, inherited \in BOOLEAN
  PROVE  /\ shell_refresh_signal_policy(s) \in Shells
         /\ (inherited_ignore_locked /\ LockedState(s)) => LockedState(shell_refresh_signal_policy(s))
<1> DEFINE t == signals_apply_policy(s)
<1>1. t \in Shells /\ (LockedState(s) => LockedState(t))
  BY PolicyKeeps
<1> HIDE DEF t
<1>2. CASE t.trap = "ignore"
  BY <1>1, <1>2 DEF t, shell_refresh_signal_policy, Disposed, Shells, LockedState
<1>3. CASE t.trap = "command"
  BY <1>1, <1>3 DEF t, shell_refresh_signal_policy, Disposed, Shells, LockedState
<1>4. CASE t.trap = "none"
  BY <1>1, <1>4 DEF t, shell_refresh_signal_policy, Disposed, Shells, LockedState, DefaultOr
<1> QED BY <1>1, <1>2, <1>3, <1>4 DEF Shells

(* So does trap in each of its three forms.                                *)
LEMMA TrapKeeps ==
  ASSUME NEW s \in Shells, interactive \in BOOLEAN, inherited \in BOOLEAN
  PROVE  /\ builtin_trap_clear(s) \in Shells
         /\ builtin_trap_ignore(s) \in Shells
         /\ builtin_trap_command(s) \in Shells
         /\ inherited_ignore_locked => /\ LockedState(builtin_trap_clear(s))
                                       /\ LockedState(builtin_trap_ignore(s))
                                       /\ LockedState(builtin_trap_command(s))
BY DEF builtin_trap_clear, builtin_trap_ignore, builtin_trap_command, Shells, LockedState,
       DefaultOr, inherited_ignore_locked

(* So does what a child does to its dispositions.                          *)
LEMMA ApplyKeeps ==
  ASSUME NEW s \in Shells, NEW k \in BOOLEAN, NEW r \in BOOLEAN,
         interactive \in BOOLEAN, inherited \in BOOLEAN
  PROVE  /\ apply_child_signal_disposition(s, k, r) \in Shells
         /\ (inherited_ignore_locked /\ LockedState(s))
              => LockedState(apply_child_signal_disposition(s, k, r))
<1>1. CASE s.trap = "ignore"
  BY <1>1 DEF apply_child_signal_disposition, Disposed, Shells, LockedState
<1>2. CASE s.trap = "command"
  BY <1>2 DEF apply_child_signal_disposition, Disposed, Shells, LockedState, DefaultOr
<1>3. CASE s.trap = "none"
  BY <1>3 DEF apply_child_signal_disposition, Disposed, Shells, LockedState, DefaultOr,
              inherited_ignore_locked
<1> QED BY <1>1, <1>2, <1>3 DEF Shells

(* What a fork makes of a shell.                                           *)
LEMMA ForksKeep ==
  ASSUME NEW s \in Shells, interactive \in BOOLEAN, inherited \in BOOLEAN
  PROVE  /\ spawn_run_subshell_payload(s) \in Shells
         /\ spawn_run_async_payload(s) \in Shells
         /\ command_subst_child(s) \in Shells
         /\ spawn_exec_child_payload(s) \in Shells
         /\ exec_prepare_signals_for_exec_child(s) \in Shells
         /\ (inherited_ignore_locked /\ LockedState(s)) =>
              /\ LockedState(spawn_run_subshell_payload(s))
              /\ LockedState(spawn_run_async_payload(s))
              /\ LockedState(command_subst_child(s))
              /\ LockedState(spawn_exec_child_payload(s))
              /\ LockedState(exec_prepare_signals_for_exec_child(s))
<1>1. spawn_run_subshell_payload(s) \in Shells
      /\ ((inherited_ignore_locked /\ LockedState(s)) => LockedState(spawn_run_subshell_payload(s)))
  <2> DEFINE t == [s EXCEPT !.main = FALSE]
  <2>1. t \in Shells /\ (LockedState(s) => LockedState(t))
    BY DEF Shells, LockedState
  <2> HIDE DEF t
  <2>2. spawn_run_subshell_payload(s) = apply_child_signal_disposition(t, FALSE, TRUE)
    BY DEF t, spawn_run_subshell_payload, signals_reset_traps_for_child
  <2> QED BY <2>1, <2>2, ApplyKeeps
<1>2. spawn_run_async_payload(s) \in Shells
      /\ ((inherited_ignore_locked /\ LockedState(s)) => LockedState(spawn_run_async_payload(s)))
  <2> DEFINE t == [s EXCEPT !.main = FALSE, !.async = TRUE]
             u == apply_child_signal_disposition(t, FALSE, TRUE)
  <2>1. t \in Shells /\ (LockedState(s) => LockedState(t))
    BY DEF Shells, LockedState
  <2>2. u \in Shells /\ ((inherited_ignore_locked /\ LockedState(t)) => LockedState(u))
    BY <2>1, ApplyKeeps
  <2>3. spawn_run_async_payload(s) = u
        \/ spawn_run_async_payload(s) = [u EXCEPT !.disp = "ignore", !.cleared = FALSE]
    BY DEF spawn_run_async_payload, signals_reset_traps_for_child
  <2> HIDE DEF t, u
  <2> QED BY <2>1, <2>2, <2>3 DEF Shells, LockedState
<1>3. command_subst_child(s) \in Shells
      /\ ((inherited_ignore_locked /\ LockedState(s)) => LockedState(command_subst_child(s)))
  <2> DEFINE t == [s EXCEPT !.main = FALSE]
  <2>1. t \in Shells /\ (LockedState(s) => LockedState(t))
    BY DEF Shells, LockedState
  <2>2. command_subst_child(s) = reset_signal_traps_for_cmdsub(t)
    BY DEF command_subst_child
  <2> HIDE DEF t
  <2>3. CASE t.trap = "ignore"
    BY <2>1, <2>2, <2>3 DEF reset_signal_traps_for_cmdsub, Disposed, Shells, LockedState
  <2>4. CASE t.trap = "command"
    BY <2>1, <2>2, <2>4 DEF reset_signal_traps_for_cmdsub, Disposed, Shells, LockedState, DefaultOr
  <2>5. CASE t.trap = "none"
    BY <2>1, <2>2, <2>5 DEF reset_signal_traps_for_cmdsub, Disposed, Shells, LockedState,
                            inherited_ignore_locked
  <2> QED BY <2>1, <2>3, <2>4, <2>5 DEF Shells
<1>4. spawn_exec_child_payload(s) \in Shells
      /\ (LockedState(s) => LockedState(spawn_exec_child_payload(s)))
  BY DEF spawn_exec_child_payload, Shells, LockedState
<1>5. exec_prepare_signals_for_exec_child(s) \in Shells
      /\ ((inherited_ignore_locked /\ LockedState(s))
            => LockedState(exec_prepare_signals_for_exec_child(s)))
  <2>1. s.main \in BOOLEAN
    BY DEF Shells
  <2>2. exec_prepare_signals_for_exec_child(s) = Disposed(s, "ignore")
        \/ exec_prepare_signals_for_exec_child(s) = apply_child_signal_disposition(s, TRUE, s.main)
    BY DEF exec_prepare_signals_for_exec_child
  <2>3. Disposed(s, "ignore") \in Shells /\ (LockedState(s) => LockedState(Disposed(s, "ignore")))
    BY DEF Disposed, Shells, LockedState
  <2> QED BY <2>1, <2>2, <2>3, ApplyKeeps
<1> QED BY <1>1, <1>2, <1>3, <1>4, <1>5

-----------------------------------------------------------------------------
(* The first policy of main, over the dispositions it was started with.    *)
LEMMA InitKeeps ==
  ASSUME Init
  PROVE  TypeOK /\ Locked
<1>1. PICK monitor \in BOOLEAN :
        sh = shell_refresh_signal_policy(
               [disp |-> DefaultOr(inherited), trap |-> "none", cleared |-> FALSE,
                policy |-> FALSE, monitor |-> monitor, async |-> FALSE, main |-> TRUE])
  BY DEF Init
<1> DEFINE s == [disp |-> DefaultOr(inherited), trap |-> "none", cleared |-> FALSE,
                 policy |-> FALSE, monitor |-> monitor, async |-> FALSE, main |-> TRUE]
<1>2. interactive \in BOOLEAN /\ inherited \in BOOLEAN
  BY DEF Init
<1>3. s \in Shells /\ (inherited_ignore_locked => LockedState(s))
  BY <1>2 DEF Shells, LockedState, DefaultOr, inherited_ignore_locked
<1> HIDE DEF s
<1>4. sh \in Shells /\ (inherited_ignore_locked => LockedState(sh))
  BY <1>1, <1>2, <1>3, RefreshKeeps DEF s
<1> QED BY <1>2, <1>4 DEF Init, TypeOK, Locked

(* Every step leaves a locked signal locked.                               *)
LEMMA StepKeeps ==
  ASSUME TypeOK, Locked, [Next]_vars
  PROVE  (TypeOK /\ Locked)'
<1>1. sh \in Shells /\ interactive \in BOOLEAN /\ inherited \in BOOLEAN
  BY DEF TypeOK
<1>2. ASSUME NEW action \in TrapActions, Trap(action) PROVE (TypeOK /\ Locked)'
  <2>1. sh' \in Shells /\ (inherited_ignore_locked => LockedState(sh'))
    BY <1>1, <1>2, TrapKeeps DEF Trap
  <2>2. inherited_ignore_locked' = inherited_ignore_locked
    BY <1>2 DEF Trap, inherited_ignore_locked
  <2> QED BY <1>2, <2>1, <2>2 DEF Trap, TypeOK, Locked
<1>3. ASSUME NEW on \in BOOLEAN, SetMonitor(on) PROVE (TypeOK /\ Locked)'
  <2> DEFINE s == [sh EXCEPT !.monitor = on]
  <2>1. s \in Shells /\ (LockedState(sh) => LockedState(s))
    BY <1>1 DEF Shells, LockedState
  <2>2. sh' = sh \/ sh' = shell_refresh_signal_policy(s)
    BY <1>3 DEF SetMonitor
  <2> HIDE DEF s
  <2>3. sh' \in Shells /\ (inherited_ignore_locked => LockedState(sh'))
    BY <1>1, <2>1, <2>2, RefreshKeeps DEF Locked
  <2>4. inherited_ignore_locked' = inherited_ignore_locked
    BY <1>3 DEF SetMonitor, inherited_ignore_locked
  <2> QED BY <1>3, <2>3, <2>4 DEF SetMonitor, TypeOK, Locked
<1>4. ASSUME NEW fork \in Contexts, Enter(fork) PROVE (TypeOK /\ Locked)'
  <2>1. sh' \in Shells /\ (inherited_ignore_locked => LockedState(sh'))
    BY <1>1, <1>4, ForksKeep DEF Enter, Locked
  <2>2. inherited_ignore_locked' = inherited_ignore_locked
    BY <1>4 DEF Enter, inherited_ignore_locked
  <2>3. outside' \in TrapActions \cup {"keep"}
    BY <1>4 DEF Enter, TypeOK
  <2>4. nesting' \in 0..MaxNesting
    BY <1>4 DEF Enter, TypeOK
  <2> QED BY <1>4, <2>1, <2>2, <2>3, <2>4 DEF Enter, TypeOK, Locked
<1>5. CASE RunUtility
  <2> DEFINE s == exec_prepare_signals_for_exec_child(sh)
  <2>1. s \in Shells /\ (inherited_ignore_locked => LockedState(s))
    BY <1>1, ForksKeep DEF Locked
  <2>2. sh' = IF s.disp = "trap" THEN Disposed(s, "default") ELSE s
    BY <1>5 DEF RunUtility
  <2> HIDE DEF s
  <2>3. sh' \in Shells /\ (inherited_ignore_locked => LockedState(sh'))
    BY <2>1, <2>2 DEF Disposed, Shells, LockedState
  <2>4. inherited_ignore_locked' = inherited_ignore_locked
    BY <1>5 DEF RunUtility, inherited_ignore_locked
  <2> QED BY <1>5, <2>3, <2>4 DEF RunUtility, TypeOK, Locked
<1>6. CASE UNCHANGED vars
  BY <1>6 DEF vars, TypeOK, Locked, LockedState, inherited_ignore_locked
<1> QED BY <1>2, <1>3, <1>4, <1>5, <1>6 DEF Next

(* The disposition, the trap table and the options stay in their types.    *)
THEOREM TypesHold == Spec => []TypeOK
<1>1. Init => TypeOK /\ Locked
  BY InitKeeps
<1>2. TypeOK /\ Locked /\ [Next]_vars => (TypeOK /\ Locked)'
  BY StepKeeps
<1> QED BY <1>1, <1>2, PTL DEF Spec

(* A shell that is not interactive, its children at any depth and every    *)
(* utility they execute keep ignoring what was ignored at the start.       *)
THEOREM InheritedIgnoresHold == Spec => []InheritedIgnoreSticks
<1>1. Init => TypeOK /\ Locked
  BY InitKeeps
<1>2. TypeOK /\ Locked /\ [Next]_vars => (TypeOK /\ Locked)'
  BY StepKeeps
<1>3. Locked => InheritedIgnoreSticks
  BY DEF Locked, LockedState, InheritedIgnoreSticks, inherited_ignore_locked
<1> QED BY <1>1, <1>2, <1>3, PTL DEF Spec

-----------------------------------------------------------------------------
(* The table and the dispositions agree, up to commands that only trap     *)
(* prints when there was a command substitution (keeps).                   *)
Installed(s, keeps) == /\ s.disp = "trap" => s.trap = "command"
                       /\ ~keeps => (s.trap = "command" => s.disp = "trap")

Keeps == "cmdsub" \in past

(* A child that resets traps has no handlers, and its table no commands    *)
(* unless it is that of a command substitution.                            *)
LEMMA ForksDisarm ==
  ASSUME NEW s \in Shells, s.disp = "trap" => s.trap = "command",
         interactive \in BOOLEAN, inherited \in BOOLEAN
  PROVE  /\ spawn_run_subshell_payload(s).disp # "trap" /\ spawn_run_subshell_payload(s).trap # "command"
         /\ spawn_run_async_payload(s).disp # "trap" /\ spawn_run_async_payload(s).trap # "command"
         /\ command_subst_child(s).disp # "trap"
<1>1. ASSUME NEW t \in Shells, t.disp = "trap" => t.trap = "command"
      PROVE  /\ apply_child_signal_disposition(t, FALSE, TRUE) \in Shells
             /\ apply_child_signal_disposition(t, FALSE, TRUE).trap # "command"
             /\ apply_child_signal_disposition(t, FALSE, TRUE).disp # "trap"
  <2>1. apply_child_signal_disposition(t, FALSE, TRUE) \in Shells
    BY ApplyKeeps
  <2>2. CASE t.trap = "ignore"
    BY <1>1, <2>1, <2>2 DEF apply_child_signal_disposition, Disposed, Shells
  <2>3. CASE t.trap = "command"
    BY <1>1, <2>1, <2>3 DEF apply_child_signal_disposition, DefaultOr, Shells
  <2>4. CASE t.trap = "none"
    BY <1>1, <2>1, <2>4 DEF apply_child_signal_disposition, Disposed, DefaultOr, Shells
  <2> QED BY <2>1, <2>2, <2>3, <2>4 DEF Shells
<1>2. spawn_run_subshell_payload(s).disp # "trap" /\ spawn_run_subshell_payload(s).trap # "command"
  <2> DEFINE t == [s EXCEPT !.main = FALSE]
  <2>1. t \in Shells /\ (t.disp = "trap" => t.trap = "command")
    BY DEF Shells
  <2>2. spawn_run_subshell_payload(s) = apply_child_signal_disposition(t, FALSE, TRUE)
    BY DEF spawn_run_subshell_payload, signals_reset_traps_for_child
  <2> HIDE DEF t
  <2> QED BY <1>1, <2>1, <2>2
<1>3. spawn_run_async_payload(s).disp # "trap" /\ spawn_run_async_payload(s).trap # "command"
  <2> DEFINE t == [s EXCEPT !.main = FALSE, !.async = TRUE]
             u == apply_child_signal_disposition(t, FALSE, TRUE)
  <2>1. t \in Shells /\ (t.disp = "trap" => t.trap = "command")
    BY DEF Shells
  <2>2. u \in Shells /\ u.trap # "command" /\ u.disp # "trap"
    BY <1>1, <2>1
  <2>3. spawn_run_async_payload(s) = u
        \/ spawn_run_async_payload(s) = [u EXCEPT !.disp = "ignore", !.cleared = FALSE]
    BY DEF spawn_run_async_payload, signals_reset_traps_for_child
  <2> HIDE DEF t, u
  <2> QED BY <2>2, <2>3 DEF Shells
<1>4. command_subst_child(s).disp # "trap"
  <2> DEFINE t == [s EXCEPT !.main = FALSE]
  <2>1. t \in Shells /\ (t.disp = "trap" => t.trap = "command")
    BY DEF Shells
  <2>2. command_subst_child(s) = reset_signal_traps_for_cmdsub(t)
    BY DEF command_subst_child
  <2> HIDE DEF t
  <2> QED BY <2>1, <2>2 DEF reset_signal_traps_for_cmdsub, Disposed, DefaultOr, Shells
<1> QED BY <1>2, <1>3, <1>4

(* A refresh installs no other handlers and enters no commands.            *)
LEMMA RefreshInstalls ==
  ASSUME NEW s \in Shells, NEW on \in BOOLEAN, interactive \in BOOLEAN, inherited \in BOOLEAN
  PROVE  LET r == shell_refresh_signal_policy([s EXCEPT !.monitor = on])
         IN  /\ r.trap = "command" => s.trap = "command" /\ r.disp = "trap"
             /\ r.disp = "trap" => r.trap = "command" \/ (s.disp = "trap" /\ s.trap # "command")
<1> DEFINE m == [s EXCEPT !.monitor = on]
           t == signals_apply_policy(m)
           r == shell_refresh_signal_policy(m)
<1>1. m \in Shells /\ m.trap = s.trap /\ m.disp = s.disp
  BY DEF Shells
<1> HIDE DEF m
<1>2. t \in Shells /\ t.trap = s.trap /\ (t.disp = "trap" => s.disp = "trap")
  BY <1>1 DEF signals_apply_policy, Shells
<1>3. r = CASE t.trap = "ignore" -> Disposed(t, "ignore")
            [] t.trap = "command" /\ inherited_ignore_locked -> [t EXCEPT !.trap = "none", !.disp = "ignore"]
            [] t.trap = "command" /\ ~inherited_ignore_locked -> Disposed(t, "trap")
            [] t.trap = "none" /\ t.cleared -> Disposed(t, DefaultOr(trap_clear_keeps_ignore(t)))
            [] OTHER -> t
  BY DEF shell_refresh_signal_policy
<1> HIDE DEF t, r
<1>4. /\ r.trap = "command" => t.trap = "command" /\ r.disp = "trap"
      /\ r.disp = "trap" => r.trap = "command" \/ (t.disp = "trap" /\ t.trap # "command")
  <2>1. CASE t.trap = "ignore"
    BY <1>2, <1>3, <2>1 DEF Disposed, Shells
  <2>2. CASE t.trap = "command"
    BY <1>2, <1>3, <2>2 DEF Disposed, Shells
  <2>3. CASE t.trap = "none"
    BY <1>2, <1>3, <2>3 DEF Disposed, DefaultOr, Shells
  <2> QED BY <1>2, <2>1, <2>2, <2>3 DEF Shells
<1> QED BY <1>2, <1>4 DEF m, r

HandlersInv == TypeOK /\ Locked /\ (target = "shell" => Installed(sh, Keeps))

(* The shell starts without traps.                                         *)
LEMMA NoTrapAtFirst == Init => sh.disp # "trap" /\ sh.trap = "none"
BY DEF Init, shell_refresh_signal_policy, signals_apply_policy, DefaultOr, Disposed

(* After every step a handler stands for a trap in the table.              *)
LEMMA HandlersStep == HandlersInv /\ [Next]_vars => HandlersInv'
<1> SUFFICES ASSUME TypeOK, Locked, target = "shell" => Installed(sh, Keeps), [Next]_vars,
                    target' = "shell"
    PROVE  Installed(sh', Keeps')
  BY StepKeeps DEF HandlersInv
<1>1. sh \in Shells /\ interactive \in BOOLEAN /\ inherited \in BOOLEAN
  BY DEF TypeOK
<1>2. ASSUME NEW action \in TrapActions, Trap(action) PROVE Installed(sh', Keeps')
  BY <1>1, <1>2 DEF Trap, Keeps, Installed, Shells, builtin_trap_clear, builtin_trap_ignore,
                    builtin_trap_command, DefaultOr
<1>3. ASSUME NEW on \in BOOLEAN, SetMonitor(on) PROVE Installed(sh', Keeps')
  <2> DEFINE r == shell_refresh_signal_policy([sh EXCEPT !.monitor = on])
  <2>1. Installed(sh, Keeps) /\ Keeps' = Keeps /\ (sh' = sh \/ sh' = r)
    BY <1>3 DEF SetMonitor, Keeps
  <2>2. /\ r.trap = "command" => sh.trap = "command" /\ r.disp = "trap"
        /\ r.disp = "trap" => r.trap = "command" \/ (sh.disp = "trap" /\ sh.trap # "command")
    BY <1>1, RefreshInstalls
  <2> HIDE DEF r
  <2> QED BY <2>1, <2>2 DEF Installed
<1>4. ASSUME NEW fork \in Contexts, Enter(fork) PROVE Installed(sh', Keeps')
  <2>1. Installed(sh, Keeps) /\ (Keeps' = (Keeps \/ fork = "cmdsub"))
    BY <1>4 DEF Enter, Keeps
  <2>2. CASE fork = "pipeline"
    BY <1>1, <1>4, <2>1, <2>2 DEF Enter, spawn_exec_child_payload, Installed, Shells
  <2>3. CASE fork # "pipeline"
    <3>1. sh'.disp # "trap" /\ (fork # "cmdsub" => sh'.trap # "command")
      BY <1>1, <1>4, <2>1, <2>3, ForksDisarm DEF Enter, Installed
    <3> QED BY <2>1, <3>1 DEF Installed
  <2> QED BY <2>2, <2>3
<1>5. CASE RunUtility
  BY <1>5 DEF RunUtility
<1>6. CASE UNCHANGED vars
  BY <1>6 DEF vars, Keeps
<1> QED BY <1>2, <1>3, <1>4, <1>5, <1>6 DEF Next

(* Except below command substitutions a command trap in the table is       *)
(* installed, and nothing else is anywhere, whatever set -m, pipelines and *)
(* forks did before.                                                       *)
THEOREM HandlersHaveCommands == Spec => []HandlerHasItsCommand
<1>1. Init => HandlersInv
  BY InitKeeps, NoTrapAtFirst DEF HandlersInv, Installed
<1>2. HandlersInv => HandlerHasItsCommand
  BY DEF HandlersInv, HandlerHasItsCommand, Installed, Keeps
<1> QED BY <1>1, <1>2, HandlersStep, PTL DEF Spec

-----------------------------------------------------------------------------
(* Handlers are for commands of this context, and, as set -m installs      *)
(* those of the table, so are these; but a command substitution keeps the  *)
(* table of its parent.                                                    *)
OfThisContext ==
  "pipeline" \notin past /\ ~({"cmdsub", "set"} \subseteq past) =>
    /\ sh.disp = "trap" => inside = "command"
    /\ target = "shell" /\ "cmdsub" \notin past /\ sh.trap = "command" => inside = "command"

(* After every step the traps and handlers are those of this context.      *)
LEMMA OfThisContextStep == HandlersInv /\ OfThisContext /\ [Next]_vars => OfThisContext'
<1> SUFFICES ASSUME HandlersInv, OfThisContext, [Next]_vars,
                    "pipeline" \notin past', ~({"cmdsub", "set"} \subseteq past')
             PROVE  /\ sh'.disp = "trap" => inside' = "command"
                    /\ target' = "shell" /\ "cmdsub" \notin past' /\ sh'.trap = "command" => inside' = "command"
  BY DEF OfThisContext
<1>1. /\ sh \in Shells /\ interactive \in BOOLEAN /\ inherited \in BOOLEAN
      /\ target = "shell" => (sh.disp = "trap" => sh.trap = "command")
  BY DEF HandlersInv, TypeOK, Installed
<1>2. ASSUME NEW action \in TrapActions, Trap(action)
      PROVE  (sh'.disp = "trap" \/ sh'.trap = "command") => inside' = "command"
  BY <1>1, <1>2 DEF Trap, Shells, builtin_trap_clear, builtin_trap_ignore, builtin_trap_command, DefaultOr
<1>3. ASSUME NEW on \in BOOLEAN, SetMonitor(on)
      PROVE  (sh'.disp = "trap" \/ sh'.trap = "command") => inside' = "command"
  <2> DEFINE r == shell_refresh_signal_policy([sh EXCEPT !.monitor = on])
  <2>1. /\ "cmdsub" \notin past /\ "pipeline" \notin past /\ target = "shell" /\ inside' = inside
        /\ sh' = sh \/ sh' = r
    BY <1>3 DEF SetMonitor
  <2>2. /\ r.trap = "command" => sh.trap = "command" /\ r.disp = "trap"
        /\ r.disp = "trap" => r.trap = "command" \/ (sh.disp = "trap" /\ sh.trap # "command")
    BY <1>1, RefreshInstalls
  <2>3. sh.trap = "command" => inside = "command"
    BY <2>1 DEF OfThisContext
  <2> HIDE DEF r
  <2> QED BY <1>1, <2>1, <2>2, <2>3
<1>4. ASSUME NEW fork \in Contexts, Enter(fork)
      PROVE  sh'.disp # "trap" /\ ("cmdsub" \notin past' => sh'.trap # "command")
  <2>1. fork # "pipeline" /\ target = "shell" /\ (fork = "cmdsub" => "cmdsub" \in past')
    BY <1>4 DEF Enter
  <2> QED BY <1>1, <1>4, <2>1, ForksDisarm DEF Enter
<1>5. CASE RunUtility
  <2> DEFINE s == exec_prepare_signals_for_exec_child(sh)
  <2>1. s \in Shells /\ sh' = (IF s.disp = "trap" THEN Disposed(s, "default") ELSE s) /\ target' = "utility"
    BY <1>1, <1>5, ForksKeep DEF RunUtility
  <2> HIDE DEF s
  <2>2. sh'.disp # "trap"
    BY <2>1 DEF Disposed, Shells
  <2> QED BY <2>1, <2>2
<1>6. CASE UNCHANGED vars
  BY <1>6 DEF vars, OfThisContext
<1> QED BY <1>2, <1>3, <1>4, <1>5, <1>6 DEF Next

(* Without pipelines, and set -m below command substitutions, no process   *)
(* runs a trap command that was not set in its own context, at any depth.  *)
THEOREM NoTrapCrossesAFork == Spec => []TrapsEndAtForks
<1>1. Init => HandlersInv /\ OfThisContext
  BY InitKeeps, NoTrapAtFirst DEF HandlersInv, Installed, OfThisContext
<1>2. OfThisContext => TrapsEndAtForks
  BY DEF OfThisContext, TrapsEndAtForks
<1> QED BY <1>1, <1>2, HandlersStep, OfThisContextStep, PTL DEF Spec

-----------------------------------------------------------------------------
(* In a shell that is not interactive the policy leaves alone what         *)
(* interrupts jobs.  It is ignored, without a command and not as cleared,  *)
(* where it was ignored by a trap, here or outside, or by the list itself. *)
Passive == inside = "ignore" \/ (inside = "keep" /\ (outside = "ignore" \/ context = "async"))

AsyncInv ==
  ~interactive /\ InterruptsJobs =>
    /\ ~sh.policy
    /\ "set" \notin past /\ ~sh.monitor /\ Passive => LockedState(sh)

(* Nothing but a trap or the policy changes what is ignored like that.     *)
LEMMA ForksStayIgnored ==
  ASSUME NEW s \in Shells, interactive \in BOOLEAN, inherited \in BOOLEAN, ~s.policy, LockedState(s)
  PROVE  /\ LockedState(spawn_run_subshell_payload(s))
         /\ LockedState(command_subst_child(s))
         /\ LockedState(spawn_exec_child_payload(s))
         /\ LockedState(exec_prepare_signals_for_exec_child(s))
<1>1. ASSUME NEW t \in Shells, NEW k \in BOOLEAN, NEW r \in BOOLEAN, ~t.policy, LockedState(t)
      PROVE  LockedState(apply_child_signal_disposition(t, k, r))
  <2>1. CASE t.trap = "ignore"
    BY <1>1, <2>1 DEF apply_child_signal_disposition, Disposed, Shells, LockedState
  <2>2. CASE t.trap = "none"
    BY <1>1, <2>2 DEF apply_child_signal_disposition, Shells, LockedState
  <2> QED BY <1>1, <2>1, <2>2 DEF Shells, LockedState
<1> DEFINE t == [s EXCEPT !.main = FALSE]
<1>2. t \in Shells /\ ~t.policy /\ LockedState(t)
  BY DEF Shells, LockedState
<1>3. /\ spawn_run_subshell_payload(s) = apply_child_signal_disposition(t, FALSE, TRUE)
      /\ command_subst_child(s) = reset_signal_traps_for_cmdsub(t)
      /\ spawn_exec_child_payload(s) = t
  BY DEF spawn_run_subshell_payload, signals_reset_traps_for_child, command_subst_child, spawn_exec_child_payload
<1> HIDE DEF t
<1>4. LockedState(reset_signal_traps_for_cmdsub(t))
  <2>1. CASE t.trap = "ignore"
    BY <1>2, <2>1 DEF reset_signal_traps_for_cmdsub, Disposed, Shells, LockedState
  <2>2. CASE t.trap = "none"
    BY <1>2, <2>2 DEF reset_signal_traps_for_cmdsub, Shells, LockedState
  <2> QED BY <1>2, <2>1, <2>2 DEF Shells, LockedState
<1>5. LockedState(exec_prepare_signals_for_exec_child(s))
  <2>1. s.main \in BOOLEAN /\ LockedState(Disposed(s, "ignore"))
    BY DEF Shells, Disposed, LockedState
  <2>2. exec_prepare_signals_for_exec_child(s) = Disposed(s, "ignore")
        \/ exec_prepare_signals_for_exec_child(s) = apply_child_signal_disposition(s, TRUE, s.main)
    BY DEF exec_prepare_signals_for_exec_child
  <2> QED BY <1>1, <2>1, <2>2
<1> QED BY <1>1, <1>2, <1>3, <1>4, <1>5

(* An asynchronous list without job control.                               *)
LEMMA AsyncIgnores ==
  ASSUME NEW s \in Shells, interactive \in BOOLEAN, inherited \in BOOLEAN,
         s.disp = "trap" => s.trap = "command", InterruptsJobs, ~s.monitor
  PROVE  LockedState(spawn_run_async_payload(s))
<1> DEFINE t == [s EXCEPT !.main = FALSE, !.async = TRUE]
           u == apply_child_signal_disposition(t, FALSE, TRUE)
<1>1. t \in Shells /\ t.monitor = s.monitor
  BY DEF Shells
<1>2. u \in Shells /\ u.monitor = t.monitor
  <2>1. u \in Shells
    BY <1>1, ApplyKeeps
  <2> HIDE DEF t
  <2> QED BY <1>1, <2>1 DEF apply_child_signal_disposition, Disposed, Shells
<1>3. spawn_run_async_payload(s) = IF InterruptsJobs /\ ~s.monitor THEN [u EXCEPT !.disp = "ignore", !.cleared = FALSE] ELSE u
  BY <1>1, <1>2 DEF spawn_run_async_payload, signals_reset_traps_for_child
<1>4. spawn_run_async_payload(s).trap # "command"
  BY ForksDisarm
<1> HIDE DEF u
<1> QED BY <1>2, <1>3, <1>4 DEF LockedState, Shells

(* Forks leave the policy and the options alone.                           *)
LEMMA OptionsStay ==
  ASSUME NEW s \in Shells, NEW t, interactive \in BOOLEAN, inherited \in BOOLEAN,
         \/ t = spawn_run_subshell_payload(s) \/ t = spawn_run_async_payload(s)
         \/ t = command_subst_child(s) \/ t = spawn_exec_child_payload(s)
  PROVE  t.policy = s.policy /\ t.monitor = s.monitor
<1>1. ASSUME NEW u \in Shells
      PROVE  LET v == apply_child_signal_disposition(u, FALSE, TRUE)
             IN  v.policy = u.policy /\ v.monitor = u.monitor
  BY DEF apply_child_signal_disposition, Disposed, Shells
<1>2. ASSUME NEW u \in Shells
      PROVE  LET v == reset_signal_traps_for_cmdsub(u) IN v.policy = u.policy /\ v.monitor = u.monitor
  BY DEF reset_signal_traps_for_cmdsub, Disposed, Shells
<1> DEFINE p == [s EXCEPT !.main = FALSE]
           q == [s EXCEPT !.main = FALSE, !.async = TRUE]
<1>3. p \in Shells /\ p.policy = s.policy /\ p.monitor = s.monitor
  BY DEF Shells
<1>4. q \in Shells /\ q.policy = s.policy /\ q.monitor = s.monitor
  BY DEF Shells
<1> HIDE DEF p, q
<1>5. CASE t = spawn_run_subshell_payload(s)
  BY <1>1, <1>3, <1>5 DEF p, spawn_run_subshell_payload, signals_reset_traps_for_child
<1>6. CASE t = command_subst_child(s)
  BY <1>2, <1>3, <1>6 DEF p, command_subst_child
<1>7. CASE t = spawn_exec_child_payload(s)
  BY <1>3, <1>7 DEF p, spawn_exec_child_payload
<1>8. CASE t = spawn_run_async_payload(s)
  <2> DEFINE u == apply_child_signal_disposition(q, FALSE, TRUE)
  <2>1. u \in Shells /\ u.policy = s.policy /\ u.monitor = s.monitor
    BY <1>1, <1>4, ApplyKeeps
  <2>2. t = u \/ t = [u EXCEPT !.disp = "ignore", !.cleared = FALSE]
    BY <1>8 DEF q, spawn_run_async_payload, signals_reset_traps_for_child
  <2> HIDE DEF u
  <2> QED BY <2>1, <2>2 DEF Shells
<1> QED BY <1>5, <1>6, <1>7, <1>8

(* After every step an asynchronous list ignores the signals it has to     *)
(* ignore.                                                                 *)
LEMMA AsyncStep == HandlersInv /\ AsyncInv /\ [Next]_vars => AsyncInv'
<1> SUFFICES ASSUME HandlersInv, AsyncInv, [Next]_vars, ~interactive', InterruptsJobs'
             PROVE  /\ ~sh'.policy
                    /\ "set" \notin past' /\ ~sh'.monitor /\ Passive' => LockedState(sh')
  BY DEF AsyncInv, LockedState
<1>1. /\ sh \in Shells /\ interactive \in BOOLEAN /\ inherited \in BOOLEAN
      /\ target = "shell" => (sh.disp = "trap" => sh.trap = "command")
      /\ Locked
  BY DEF HandlersInv, TypeOK, Installed
<1>2. ~interactive /\ InterruptsJobs /\ signo' = signo
  <2>1. UNCHANGED <<interactive, signo>>
    <3>1. ASSUME NEW action \in TrapActions, Trap(action) PROVE UNCHANGED <<interactive, signo>>
      BY <3>1 DEF Trap
    <3>2. ASSUME NEW fork \in Contexts, Enter(fork) PROVE UNCHANGED <<interactive, signo>>
      BY <3>2 DEF Enter
    <3> QED BY <3>1, <3>2 DEF Next, SetMonitor, RunUtility, vars
  <2> QED BY <2>1 DEF InterruptsJobs
<1>3. ~sh.policy /\ ("set" \notin past /\ ~sh.monitor /\ Passive => LockedState(sh))
  BY <1>2 DEF AsyncInv
<1>4. ASSUME NEW action \in TrapActions, Trap(action)
      PROVE  ~sh'.policy /\ (Passive' => LockedState(sh'))
  <2>1. sh'.policy = sh.policy
    BY <1>1, <1>4 DEF Trap, builtin_trap_clear, builtin_trap_ignore, builtin_trap_command, Shells
  <2>2. Passive' => action = "ignore"
    BY <1>4 DEF Trap, Passive
  <2>3. action = "ignore" => LockedState(sh')
    BY <1>1, <1>4 DEF Trap, builtin_trap_ignore, LockedState, Shells
  <2> QED BY <1>3, <2>1, <2>2, <2>3
<1>5. ASSUME NEW on \in BOOLEAN, SetMonitor(on)
      PROVE  ~sh'.policy /\ "set" \in past'
  <2> DEFINE m == [sh EXCEPT !.monitor = on]
             t == signals_apply_policy(m)
             r == shell_refresh_signal_policy(m)
  <2>1. m \in Shells
    BY <1>1 DEF Shells
  <2> HIDE DEF m
  <2>2. t \in Shells /\ t.policy = FALSE
    BY <1>2, <2>1 DEF signals_apply_policy, InterruptsJobs, MonitorPolicy, Shells
  <2>3. r.policy = t.policy
    <3> HIDE DEF t
    <3> QED BY <2>2 DEF t, shell_refresh_signal_policy, Disposed, Shells
  <2> HIDE DEF r, t
  <2>4. sh' = sh \/ sh' = r
    BY <1>5 DEF SetMonitor, m, r
  <2> QED BY <1>3, <1>5, <2>2, <2>3, <2>4 DEF SetMonitor
<1>6. ASSUME NEW fork \in Contexts, Enter(fork)
      PROVE  ~sh'.policy /\ ("set" \notin past' /\ ~sh'.monitor /\ Passive' => LockedState(sh'))
  <2>1. sh'.policy = sh.policy /\ sh'.monitor = sh.monitor /\ target = "shell"
    BY <1>1, <1>6, OptionsStay DEF Enter
  <2>2. /\ inside' = "keep" /\ context' = fork /\ past' = past \cup {fork}
        /\ outside' = CASE FinalTrap = "ignore" -> "ignore"
                        [] FinalTrap # "ignore" /\ inside # "keep" -> inside
                        [] OTHER -> outside
    BY <1>6 DEF Enter
  <2>3. CASE fork = "async"
    BY <1>1, <1>2, <1>3, <1>6, <2>1, <2>3, AsyncIgnores DEF Enter
  <2>4. CASE fork # "async"
    <3> SUFFICES ASSUME "set" \notin past', ~sh'.monitor, Passive'
                 PROVE  LockedState(sh')
      BY <1>3, <2>1
    <3>1. outside' = "ignore"
      BY <2>2, <2>4 DEF Passive
    <3>2. inherited_ignore_locked \/ Passive
      BY <2>2, <3>1 DEF FinalTrap, Passive, inherited_ignore_locked
    <3>3. "set" \notin past /\ ~sh.monitor
      BY <2>1, <2>2
    <3>4. LockedState(sh)
      BY <1>1, <1>3, <3>2, <3>3 DEF Locked
    <3> QED BY <1>1, <1>3, <1>6, <2>4, <3>4, ForksStayIgnored DEF Enter
  <2> QED BY <2>3, <2>4
<1>7. CASE RunUtility
  <2> DEFINE s == exec_prepare_signals_for_exec_child(sh)
  <2>1. s \in Shells /\ sh' = IF s.disp = "trap" THEN Disposed(s, "default") ELSE s
    BY <1>1, <1>7, ForksKeep DEF RunUtility
  <2>2. s.policy = sh.policy /\ s.monitor = sh.monitor
    BY <1>1 DEF exec_prepare_signals_for_exec_child, apply_child_signal_disposition, Disposed, Shells
  <2>3. LockedState(sh) => LockedState(s)
    BY <1>1, <1>3, ForksStayIgnored
  <2> HIDE DEF s
  <2>4. sh'.policy = sh.policy /\ sh'.monitor = sh.monitor /\ (LockedState(sh) => LockedState(sh'))
    BY <2>1, <2>2, <2>3 DEF Disposed, LockedState, Shells
  <2>5. past' = past /\ Passive' = Passive
    BY <1>7 DEF RunUtility, Passive
  <2> QED BY <1>3, <2>4, <2>5
<1>8. CASE UNCHANGED vars
  BY <1>3, <1>8 DEF vars, Passive
<1> QED BY <1>4, <1>5, <1>6, <1>7, <1>8 DEF Next

(* An asynchronous list of a shell that is not interactive, and whatever   *)
(* is nested in it, ignore what interrupts jobs until a trap is set or the *)
(* shell uses set -m.                                                      *)
THEOREM ListsIgnoreInterrupts == Spec => []AsyncIgnoresInterrupts
<1>1. Init => HandlersInv /\ AsyncInv
  <2> SUFFICES ASSUME Init PROVE HandlersInv /\ AsyncInv
    OBVIOUS
  <2>1. HandlersInv
    BY InitKeeps, NoTrapAtFirst DEF HandlersInv, Installed
  <2>2. ~Passive
    BY DEF Init, Passive
  <2>3. ~interactive /\ InterruptsJobs => ~sh.policy
    BY DEF Init, shell_refresh_signal_policy, signals_apply_policy, InterruptsJobs, MonitorPolicy,
           DefaultOr, Disposed
  <2> QED BY <2>1, <2>2, <2>3 DEF AsyncInv
<1>2. AsyncInv => AsyncIgnoresInterrupts
  BY DEF AsyncInv, AsyncIgnoresInterrupts, Passive, LockedState
<1> QED BY <1>1, <1>2, HandlersStep, AsyncStep, PTL DEF Spec

-----------------------------------------------------------------------------
(* Without pipelines and set -m the state of a shell                       *)
(* is a function of what the test matrix varies.                           *)
Policy == (interactive /\ InteractivePolicy) \/ (sh.monitor /\ MonitorPolicy)

Table(trap, cleared, disp) == sh.trap = trap /\ sh.cleared = cleared /\ sh.disp = disp

(* An asynchronous list that ignores the signal by itself.                 *)
ListIgnores == context = "async" /\ ~sh.monitor /\ InterruptsJobs

UntouchedByTraps ==
  CASE context = "main" -> Table("none", FALSE, DefaultOr(inherited \/ Policy))
    [] context # "main" /\ outside = "ignore" -> sh.trap = "ignore" /\ sh.disp = "ignore"
    [] context # "main" /\ outside = "command" ->
         Table("none", FALSE, "default") \/ Table("command", FALSE, "default")
    [] context # "main" /\ outside = "clear" -> Table("none", TRUE, "default")
    [] context # "main" /\ outside = "keep" -> Table("none", FALSE, DefaultOr(inherited))

Untouched ==
  IF ListIgnores THEN sh.disp = "ignore" /\ sh.trap # "command" /\ ~sh.cleared ELSE UntouchedByTraps

AsVaried ==
  /\ sh.main = (context = "main") /\ sh.async = (context = "async")
  /\ sh.policy = Policy
  /\ context = "main" => outside = "keep"
  /\ ~inherited_ignore_locked =>
       /\ inside = "command" => Table("command", FALSE, "trap")
       /\ inside = "ignore" => Table("ignore", FALSE, "ignore")
       /\ inside = "clear" =>
            Table("none", TRUE, DefaultOr(context = "main" /\ interactive /\ Policy))
       /\ inside = "keep" => Untouched

MatrixInv == IF target = "shell" THEN AsVaried ELSE AsTested

(* $final_trap as the traps set inside and outside tell it.                *)
LEMMA FinalTrapValue ==
  ASSUME TypeOK, context = "main" => outside = "keep"
  PROVE  FinalTrap = IF inherited_ignore_locked THEN "ignore"
                     ELSE IF inside # "keep" THEN inside
                     ELSE IF ListIgnores \/ outside = "ignore" THEN "ignore" ELSE "keep"
<1>1. inherited \in BOOLEAN /\ interactive \in BOOLEAN
  BY DEF TypeOK
<1>2. CASE inherited_ignore_locked
  BY <1>1, <1>2 DEF FinalTrap, inherited_ignore_locked
<1>3. CASE ~inherited_ignore_locked /\ inside # "keep"
  BY <1>1, <1>3 DEF FinalTrap, inherited_ignore_locked
<1>4. CASE ~inherited_ignore_locked /\ inside = "keep"
  BY <1>1, <1>4 DEF FinalTrap, inherited_ignore_locked, ListIgnores
<1> QED BY <1>2, <1>3, <1>4

(* The options that the decision reads are Booleans.                       *)
LEMMA PolicyType ==
  ASSUME TypeOK
  PROVE  Policy \in BOOLEAN /\ inherited \in BOOLEAN /\ interactive \in BOOLEAN /\ sh \in Shells
BY DEF Policy, TypeOK, InteractivePolicy, MonitorPolicy, Shells

(* AsVaried is what the test matrix says of a shell.                       *)
LEMMA VariedIsTested ==
  ASSUME TypeOK, Locked, AsVaried, target = "shell"
  PROVE  AsTested
<1>1. FinalTrap = IF inherited_ignore_locked THEN "ignore"
                  ELSE IF inside # "keep" THEN inside
                  ELSE IF ListIgnores \/ outside = "ignore" THEN "ignore" ELSE "keep"
  BY FinalTrapValue DEF AsVaried
<1>2. CASE inherited_ignore_locked
  BY <1>1, <1>2 DEF AsTested, FinalAction, Locked, LockedState
<1>3. SUFFICES ASSUME ~inherited_ignore_locked, ~MonitorPolicy
      PROVE  sh.disp = FinalAction
  BY <1>2 DEF AsTested
<1>4. Policy = (interactive /\ InteractivePolicy)
  BY <1>3 DEF Policy
<1>5. CASE inside = "command"
  BY <1>1, <1>3, <1>5 DEF AsVaried, Table, FinalAction
<1>6. CASE inside = "ignore"
  BY <1>1, <1>3, <1>6 DEF AsVaried, Table, FinalAction
<1>7. CASE inside = "clear"
  BY <1>1, <1>3, <1>4, <1>7 DEF AsVaried, Table, FinalAction, DefaultAction, DefaultOr
<1>8. CASE inside = "keep"
  <2>6. CASE ListIgnores
    BY <1>1, <1>3, <1>8, <2>6 DEF AsVaried, Untouched, FinalAction
  <2>7. SUFFICES ASSUME ~ListIgnores PROVE sh.disp = FinalAction
    BY <2>6
  <2>1. UntouchedByTraps
    BY <1>3, <1>8, <2>7 DEF AsVaried, Untouched
  <2>2. CASE context = "main"
    BY <1>1, <1>3, <1>4, <1>8, <2>1, <2>2, <2>7
       DEF AsVaried, UntouchedByTraps, Table, FinalAction, DefaultAction, DefaultOr
  <2>3. CASE context # "main" /\ outside = "ignore"
    BY <1>1, <1>3, <1>8, <2>1, <2>3 DEF UntouchedByTraps, FinalAction
  <2>4. CASE context # "main" /\ outside \in {"command", "clear"}
    <3>1. sh.disp = "default"
      BY <2>1, <2>4 DEF UntouchedByTraps, Table
    <3>2. inherited => interactive
      BY <1>3, PolicyType DEF inherited_ignore_locked
    <3> QED BY <1>1, <1>3, <1>8, <2>4, <2>7, <3>1, <3>2 DEF FinalAction, DefaultAction, DefaultOr
  <2>5. CASE context # "main" /\ outside = "keep"
    BY <1>1, <1>3, <1>8, <2>1, <2>5, <2>7
       DEF UntouchedByTraps, Table, FinalAction, DefaultAction, DefaultOr
  <2> QED BY <2>2, <2>3, <2>4, <2>5 DEF TypeOK
<1> QED BY <1>5, <1>6, <1>7, <1>8 DEF TypeOK

(* At the start the signal is as the policy says, and nothing was varied.  *)
LEMMA InitVaried ==
  ASSUME Init
  PROVE  AsVaried
<1>1. PICK monitor \in BOOLEAN :
        sh = shell_refresh_signal_policy(
               [disp |-> DefaultOr(inherited), trap |-> "none", cleared |-> FALSE,
                policy |-> FALSE, monitor |-> monitor, async |-> FALSE, main |-> TRUE])
  BY DEF Init
<1> DEFINE s == [disp |-> DefaultOr(inherited), trap |-> "none", cleared |-> FALSE,
                 policy |-> FALSE, monitor |-> monitor, async |-> FALSE, main |-> TRUE]
           t == signals_apply_policy(s)
           p == (interactive /\ InteractivePolicy) \/ (monitor /\ MonitorPolicy)
<1>2. /\ t.trap = "none" /\ t.cleared = FALSE /\ t.monitor = monitor
      /\ t.async = FALSE /\ t.main = TRUE
      /\ t.policy = p /\ t.disp = DefaultOr(inherited \/ p)
  <2>1. CASE p
    BY <2>1 DEF signals_apply_policy, DefaultOr
  <2>2. CASE ~p
    BY <2>2 DEF signals_apply_policy, DefaultOr, Init
  <2> QED BY <2>1, <2>2
<1>3. sh = t
  BY <1>1, <1>2 DEF shell_refresh_signal_policy
<1> HIDE DEF s, t
<1> QED BY <1>2, <1>3 DEF Init, AsVaried, Untouched, UntouchedByTraps, ListIgnores, Table, Policy

(* trap is one of the ways by which a disposition comes to differ from the *)
(* policy.                                                                 *)
LEMMA TrapVaried ==
  ASSUME TypeOK, AsVaried, NEW action \in TrapActions, Trap(action)
  PROVE  AsVaried'
<1>1. sh \in Shells
  BY DEF TypeOK
<1>2. /\ sh'.main = sh.main /\ sh'.async = sh.async /\ sh'.policy = sh.policy
      /\ sh'.monitor = sh.monitor
  BY <1>1 DEF Trap, builtin_trap_clear, builtin_trap_ignore, builtin_trap_command, Shells
<1>3. Policy' = Policy /\ inherited_ignore_locked' = inherited_ignore_locked
  BY <1>2 DEF Trap, Policy, InteractivePolicy, MonitorPolicy, inherited_ignore_locked
<1>4. ASSUME ~inherited_ignore_locked
      PROVE  /\ action = "command" => Table("command", FALSE, "trap")'
             /\ action = "ignore" => Table("ignore", FALSE, "ignore")'
             /\ action = "clear" =>
                  Table("none", TRUE, DefaultOr(context = "main" /\ interactive /\ Policy))'
  <2>1. CASE action = "command"
    BY <1>1, <1>4, <2>1 DEF Trap, builtin_trap_command, Table, Shells
  <2>2. CASE action = "ignore"
    BY <1>1, <1>4, <2>2 DEF Trap, builtin_trap_ignore, Table, Shells
  <2>3. CASE action = "clear"
    <3>1. (interactive /\ sh.main /\ sh.policy) <=> (context = "main" /\ interactive /\ Policy)
      BY DEF AsVaried
    <3>2. context' = context /\ interactive' = interactive
      BY DEF Trap
    <3>3. sh' = builtin_trap_clear(sh)
      BY <2>3 DEF Trap
    <3> QED BY <1>1, <1>3, <1>4, <2>3, <3>1, <3>2, <3>3
            DEF builtin_trap_clear, Table, DefaultOr, Shells
  <2> QED BY <2>1, <2>2, <2>3
<1> QED BY <1>2, <1>3, <1>4 DEF AsVaried, Trap

(* What the forks do, by the trap of the shell that forks.                 *)
LEMMA ForkEffect ==
  ASSUME TypeOK, NEW fork \in {"subshell", "cmdsub", "async"}, Enter(fork),
         ~inherited_ignore_locked, fork = "async" => ~(InterruptsJobs /\ ~sh.monitor)
  PROVE  /\ sh.trap = "ignore" => sh'.trap = "ignore" /\ sh'.disp = "ignore"
         /\ sh.trap = "command" =>
              /\ sh'.trap \in {"none", "command"} /\ sh'.disp = "default"
              /\ sh'.cleared = sh.cleared
         /\ sh.trap = "none" /\ sh.cleared => sh'.trap = "none" /\ sh'.cleared /\ sh'.disp = "default"
         /\ sh.trap = "none" /\ ~sh.cleared =>
              /\ sh'.trap = "none" /\ ~sh'.cleared
              /\ sh.policy /\ ~inherited /\ sh.disp = "ignore" => sh'.disp = "default"
              /\ ~(sh.policy /\ ~inherited) => sh'.disp = sh.disp
              /\ sh.disp = "default" => sh'.disp = "default"
<1> DEFINE t == IF fork = "async" THEN [sh EXCEPT !.main = FALSE, !.async = TRUE]
                ELSE [sh EXCEPT !.main = FALSE]
<1>1. /\ t \in Shells /\ t.trap = sh.trap /\ t.cleared = sh.cleared /\ t.policy = sh.policy
      /\ t.disp = sh.disp
  BY DEF TypeOK, Shells
<1>2. CASE fork \in {"subshell", "async"}
  <2>1. sh' = apply_child_signal_disposition(t, FALSE, TRUE)
    BY <1>2 DEF Enter, spawn_run_subshell_payload, spawn_run_async_payload, signals_reset_traps_for_child
  <2> HIDE DEF t
  <2>2. CASE t.trap = "ignore"
    BY <1>1, <2>1, <2>2 DEF apply_child_signal_disposition, Disposed, Shells
  <2>3. CASE t.trap = "command"
    BY <1>1, <2>1, <2>3 DEF apply_child_signal_disposition, DefaultOr, Shells
  <2>4. CASE t.trap = "none"
    BY <1>1, <2>1, <2>4 DEF apply_child_signal_disposition, Disposed, DefaultOr, Shells
  <2> QED BY <1>1, <2>2, <2>3, <2>4 DEF Shells
<1>3. CASE fork = "cmdsub"
  <2>1. sh' = reset_signal_traps_for_cmdsub(t)
    BY <1>3 DEF Enter, command_subst_child
  <2> HIDE DEF t
  <2>2. CASE t.trap = "ignore"
    BY <1>1, <2>1, <2>2 DEF reset_signal_traps_for_cmdsub, Disposed, Shells
  <2>3. CASE t.trap = "command"
    BY <1>1, <2>1, <2>3 DEF reset_signal_traps_for_cmdsub, Disposed, DefaultOr, Shells
  <2>4. CASE t.trap = "none"
    BY <1>1, <2>1, <2>4 DEF reset_signal_traps_for_cmdsub, Disposed, Shells
  <2> QED BY <1>1, <2>2, <2>3, <2>4 DEF Shells
<1> QED BY <1>2, <1>3

(* A subshell or a substitution inherits the options, and is not the main  *)
(* shell.                                                                  *)
LEMMA ForkOptions ==
  ASSUME TypeOK, NEW fork \in {"subshell", "cmdsub"}, Enter(fork)
  PROVE  /\ sh'.main = FALSE /\ sh'.async = sh.async /\ sh'.policy = sh.policy
         /\ sh'.monitor = sh.monitor
BY DEF TypeOK, Shells, Enter, spawn_run_subshell_payload, signals_reset_traps_for_child,
       command_subst_child, apply_child_signal_disposition, reset_signal_traps_for_cmdsub, Disposed

(* So does an asynchronous list, which remembers what it is and may ignore *)
(* the signal.                                                             *)
LEMMA ListOptions ==
  ASSUME TypeOK, Enter("async")
  PROVE  /\ sh'.main = FALSE /\ sh'.async = TRUE /\ sh'.policy = sh.policy
         /\ sh'.monitor = sh.monitor
         /\ InterruptsJobs /\ ~sh.monitor => sh'.disp = "ignore" /\ ~sh'.cleared
<1> DEFINE t == [sh EXCEPT !.main = FALSE, !.async = TRUE]
           u == apply_child_signal_disposition(t, FALSE, TRUE)
<1>1. /\ t \in Shells /\ t.main = FALSE /\ t.async = TRUE /\ t.policy = sh.policy
      /\ t.monitor = sh.monitor
  BY DEF TypeOK, Shells
<1>2. u \in Shells
  BY <1>1, ApplyKeeps DEF TypeOK
<1>3. sh' = IF InterruptsJobs /\ ~sh.monitor THEN [u EXCEPT !.disp = "ignore", !.cleared = FALSE] ELSE u
  BY DEF Enter, spawn_run_async_payload, signals_reset_traps_for_child
<1> HIDE DEF t
<1>4. u.main = FALSE /\ u.async = TRUE /\ u.policy = sh.policy /\ u.monitor = sh.monitor
  BY <1>1 DEF apply_child_signal_disposition, Disposed, Shells
<1> HIDE DEF u
<1> QED BY <1>2, <1>3, <1>4 DEF Shells

(* Entering one leaves a disposition that differs only where it is allowed *)
(* to.                                                                     *)
LEMMA EnterVaried ==
  ASSUME TypeOK, AsVaried, context # "async",
         sh.disp = "trap" => sh.trap = "command",
         NEW fork \in {"subshell", "cmdsub", "async"}, Enter(fork)
  PROVE  AsVaried'
<1>1. /\ sh'.main = FALSE /\ sh'.async = (fork = "async") /\ sh'.policy = sh.policy
      /\ sh'.monitor = sh.monitor
  <2>1. sh.async = FALSE
    BY DEF AsVaried
  <2> QED BY <2>1, ForkOptions, ListOptions
<1>2. Policy' = Policy /\ inherited_ignore_locked' = inherited_ignore_locked
  BY <1>1 DEF Enter, Policy, InteractivePolicy, MonitorPolicy, inherited_ignore_locked
<1>3. inside' = "keep" /\ context' = fork /\ context' # "main" /\ inherited' = inherited
  BY DEF Enter
<1>5. ListIgnores' <=> fork = "async" /\ InterruptsJobs /\ ~sh.monitor
  BY <1>1, <1>3 DEF ListIgnores, InterruptsJobs, Enter
<1>6. ASSUME ListIgnores'
      PROVE  Untouched'
  <2>1. sh'.disp = "ignore" /\ ~sh'.cleared
    BY <1>5, <1>6, ListOptions
  <2>2. sh'.trap # "command"
    BY <1>5, <1>6, ForksDisarm DEF Enter, TypeOK
  <2> QED BY <1>6, <2>1, <2>2 DEF Untouched
<1>4. ASSUME ~inherited_ignore_locked, ~ListIgnores'
      PROVE  Untouched'
  <2> SUFFICES UntouchedByTraps'
    BY <1>4 DEF Untouched
  <2>8. ~ListIgnores
    BY DEF ListIgnores
  <2>9. fork = "async" => ~(InterruptsJobs /\ ~sh.monitor)
    BY <1>4, <1>5
  <2>1. FinalTrap = IF inside # "keep" THEN inside
                    ELSE IF outside = "ignore" THEN "ignore" ELSE "keep"
    BY <1>4, <2>8, FinalTrapValue DEF AsVaried
  <2>2. outside' = IF inside # "keep" THEN inside ELSE outside
    BY <2>1 DEF Enter
  <2>3. CASE inside = "command"
    <3>1. sh.trap = "command" /\ sh.cleared = FALSE
      BY <1>4, <2>3 DEF AsVaried, Table
    <3>2. sh'.disp = "default" /\ sh'.trap \in {"none", "command"} /\ sh'.cleared = FALSE
      BY <1>4, <3>1, <2>9, ForkEffect
    <3> QED BY <1>3, <2>2, <2>3, <3>2 DEF UntouchedByTraps, Table
  <2>4. CASE inside = "ignore"
    <3>1. sh.trap = "ignore"
      BY <1>4, <2>4 DEF AsVaried, Table
    <3> QED BY <1>3, <1>4, <2>2, <2>4, <3>1, <2>9, ForkEffect DEF UntouchedByTraps
  <2>5. CASE inside = "clear"
    <3>1. sh.trap = "none" /\ sh.cleared = TRUE
      BY <1>4, <2>5 DEF AsVaried, Table
    <3>2. sh'.trap = "none" /\ sh'.cleared = TRUE /\ sh'.disp = "default"
      <4>1. sh' \in Shells
        BY ForksKeep DEF Enter, TypeOK
      <4> QED BY <1>4, <3>1, <4>1, <2>9, ForkEffect DEF Shells
    <3> QED BY <1>3, <2>2, <2>5, <3>2 DEF UntouchedByTraps, Table
  <2>6. CASE inside = "keep"
    <3>1. UntouchedByTraps /\ outside' = outside
      BY <1>4, <2>2, <2>6, <2>8 DEF AsVaried, Untouched
    <3>2. sh' \in Shells
      BY ForksKeep DEF Enter, TypeOK
    <3>3. CASE outside = "keep"
      <4>1. sh.trap = "none" /\ ~sh.cleared
            /\ sh.disp = DefaultOr(inherited \/ (context = "main" /\ Policy))
        BY <3>1, <3>3 DEF UntouchedByTraps, Table, DefaultOr
      <4>2. sh'.trap = "none" /\ sh'.cleared = FALSE
        BY <1>4, <3>2, <4>1, <2>9, ForkEffect DEF Shells
      <4>3. sh'.disp = DefaultOr(inherited)
        <5>1. CASE inherited
          BY <1>4, <4>1, <5>1, <2>9, ForkEffect DEF DefaultOr
        <5>2. CASE ~inherited
          BY <1>4, <4>1, <5>2, <2>9, ForkEffect DEF DefaultOr, AsVaried
        <5> QED BY <5>1, <5>2
      <4> QED BY <1>3, <3>1, <3>3, <4>2, <4>3 DEF UntouchedByTraps, Table, DefaultOr
    <3>4. context # "main" \/ outside = "keep"
      BY DEF AsVaried
    <3>5. CASE context # "main" /\ outside = "ignore"
      BY <1>3, <1>4, <3>1, <3>5, <2>9, ForkEffect DEF UntouchedByTraps
    <3>6. CASE context # "main" /\ outside = "clear"
      <4>1. sh.trap = "none" /\ sh.cleared = TRUE
        BY <3>1, <3>6 DEF UntouchedByTraps, Table
      <4>2. sh'.trap = "none" /\ sh'.cleared = TRUE /\ sh'.disp = "default"
        BY <1>4, <3>2, <4>1, <2>9, ForkEffect DEF Shells
      <4> QED BY <1>3, <3>1, <3>6, <4>2 DEF UntouchedByTraps, Table
    <3>7. CASE context # "main" /\ outside = "command"
      <4>1. sh.disp = "default" /\ sh.trap \in {"none", "command"} /\ sh.cleared = FALSE
        BY <3>1, <3>7 DEF UntouchedByTraps, Table
      <4>2. sh'.disp = "default" /\ sh'.trap \in {"none", "command"} /\ ~sh'.cleared
        BY <1>4, <4>1, <2>9, ForkEffect
      <4>3. sh'.cleared = FALSE
        BY <3>2, <4>2 DEF Shells
      <4> QED BY <1>3, <3>1, <3>7, <4>2, <4>3 DEF UntouchedByTraps, Table
    <3> QED BY <3>3, <3>4, <3>5, <3>6, <3>7 DEF TypeOK
  <2> QED BY <2>3, <2>4, <2>5, <2>6 DEF TypeOK
<1> QED BY <1>1, <1>2, <1>3, <1>4, <1>6 DEF AsVaried

(* A utility executed by such a shell.                                     *)
LEMMA UtilityIsTested ==
  ASSUME TypeOK, Locked, AsVaried, RunUtility
  PROVE  AsTested'
<1> DEFINE s == exec_prepare_signals_for_exec_child(sh)
<1>1. sh \in Shells /\ s \in Shells /\ (inherited_ignore_locked => s.disp = "ignore")
  BY ForksKeep DEF TypeOK, Locked, LockedState
<1> DEFINE byItself == ListIgnores /\ ~sh.cleared /\ sh.trap # "command"
<1>2. s = IF byItself THEN Disposed(sh, "ignore") ELSE apply_child_signal_disposition(sh, TRUE, sh.main)
  BY DEF exec_prepare_signals_for_exec_child, AsVaried, ListIgnores, TypeOK, Shells
<1>8. s.monitor = sh.monitor
  BY <1>1, <1>2 DEF apply_child_signal_disposition, Disposed, Shells
<1>3. sh' = IF s.disp = "trap" THEN Disposed(s, "default") ELSE s
  BY DEF RunUtility
<1> HIDE DEF s
<1>4. UNCHANGED <<inherited, interactive, inside, outside, context, signo>> /\ target' = "utility"
  BY DEF RunUtility
<1>9. sh'.monitor = sh.monitor
  BY <1>1, <1>3, <1>8 DEF Disposed, Shells
<1>10. ListIgnores' = ListIgnores
  BY <1>4, <1>9 DEF ListIgnores, InterruptsJobs
<1>5. FinalTrap' = IF inherited_ignore_locked THEN "ignore"
                   ELSE IF inside # "keep" THEN inside
                   ELSE IF ListIgnores \/ outside = "ignore" THEN "ignore" ELSE "keep"
  <2>1. TypeOK'
    BY StepKeeps DEF Next
  <2>2. FinalTrap' = (IF inherited_ignore_locked THEN "ignore"
                      ELSE IF inside # "keep" THEN inside
                      ELSE IF ListIgnores \/ outside = "ignore" THEN "ignore" ELSE "keep")'
    <3>1. CASE inherited_ignore_locked
      BY <1>4, <3>1 DEF FinalTrap, inherited_ignore_locked
    <3>2. CASE ~inherited_ignore_locked /\ inside # "keep"
      BY <1>4, <3>2 DEF FinalTrap, inherited_ignore_locked
    <3>3. CASE ~inherited_ignore_locked /\ inside = "keep"
      BY <1>4, <1>10, <3>3 DEF FinalTrap, inherited_ignore_locked, AsVaried, ListIgnores
    <3> QED BY <1>4, <1>10, <3>1, <3>2, <3>3 DEF inherited_ignore_locked
  <2> QED BY <1>4, <1>10, <2>2 DEF inherited_ignore_locked
<1>6. CASE inherited_ignore_locked
  <2>1. sh'.disp = "ignore"
    BY <1>1, <1>3, <1>6
  <2> QED BY <1>5, <1>6, <2>1 DEF AsTested, FinalAction
<1>11. CASE ~inherited_ignore_locked /\ byItself
  <2>1. sh'.disp = "ignore"
    BY <1>1, <1>2, <1>3, <1>11 DEF Disposed, Shells
  <2>2. inside \in {"ignore", "keep"}
    BY <1>11 DEF AsVaried, Table, TypeOK, TrapActions
  <2> QED BY <1>5, <1>11, <2>1, <2>2 DEF AsTested, FinalAction
<1>7. CASE ~inherited_ignore_locked /\ ~byItself
  <2>1. DefaultAction' = "default"
    BY <1>4 DEF DefaultAction, DefaultOr
  <2>2. inherited => interactive
    BY <1>7, PolicyType DEF inherited_ignore_locked
  <2>3. CASE inside = "command"
    <3>1. sh.trap = "command"
      BY <1>7, <2>3 DEF AsVaried, Table
    <3>2. s.disp = "default"
      BY <1>1, <1>2, <1>7, <3>1 DEF apply_child_signal_disposition, DefaultOr, Shells
    <3> QED BY <1>3, <1>4, <1>5, <1>7, <2>1, <2>3, <3>2 DEF AsTested, FinalAction
  <2>4. CASE inside = "ignore"
    <3>1. sh.trap = "ignore"
      BY <1>7, <2>4 DEF AsVaried, Table
    <3>2. s.disp = "ignore"
      BY <1>1, <1>2, <3>1 DEF apply_child_signal_disposition, Disposed, Shells
    <3> QED BY <1>3, <1>5, <1>7, <2>4, <3>2 DEF AsTested, FinalAction
  <2>5. CASE inside = "clear"
    <3>1. sh.trap = "none" /\ sh.cleared = TRUE
      BY <1>7, <2>5 DEF AsVaried, Table
    <3>2. s.disp = "default"
      BY <1>1, <1>2, <1>7, <3>1 DEF apply_child_signal_disposition, Disposed, DefaultOr, Shells
    <3> QED BY <1>3, <1>5, <1>7, <2>1, <2>5, <3>2 DEF AsTested, FinalAction
  <2>6. CASE inside = "keep"
    <3>6. ~ListIgnores
      BY <1>7, <2>6 DEF AsVaried, Untouched
    <3>1. UntouchedByTraps
      BY <1>7, <2>6, <3>6 DEF AsVaried, Untouched
    <3>2. CASE context # "main" /\ outside = "ignore"
      <4>1. s.disp = "ignore"
        BY <1>1, <1>2, <3>1, <3>2 DEF apply_child_signal_disposition, Disposed, Shells, UntouchedByTraps
      <4> QED BY <1>3, <1>5, <1>7, <2>6, <3>2, <3>6, <4>1 DEF AsTested, FinalAction
    <3>3. CASE context # "main" /\ outside = "command"
      <4>1. sh.trap \in {"none", "command"} /\ sh.cleared = FALSE /\ sh.disp = "default"
        BY <3>1, <3>3 DEF UntouchedByTraps, Table
      <4>2. s.disp = "default"
        BY <1>1, <1>2, <1>7, <4>1 DEF apply_child_signal_disposition, Disposed, DefaultOr, Shells
      <4> QED BY <1>3, <1>4, <1>5, <1>7, <2>1, <2>2, <2>6, <3>3, <3>6, <4>2 DEF AsTested, FinalAction
    <3>4. CASE context # "main" /\ outside = "clear"
      <4>1. sh.trap = "none" /\ sh.cleared = TRUE
        BY <3>1, <3>4 DEF UntouchedByTraps, Table
      <4>2. s.disp = "default"
        BY <1>1, <1>2, <1>7, <4>1 DEF apply_child_signal_disposition, Disposed, DefaultOr, Shells
      <4> QED BY <1>3, <1>4, <1>5, <1>7, <2>1, <2>2, <2>6, <3>4, <3>6, <4>2 DEF AsTested, FinalAction
    <3>5. CASE outside = "keep"
      <4>1. /\ sh.trap = "none" /\ sh.cleared = FALSE
            /\ sh.disp = DefaultOr(inherited \/ (context = "main" /\ Policy))
        BY <3>1, <3>5 DEF UntouchedByTraps, Table, DefaultOr
      <4>2. s.disp = DefaultOr(inherited)
        <5>3. s = apply_child_signal_disposition(sh, TRUE, sh.main)
          BY <1>2, <1>7
        <5>4. sh.main \in BOOLEAN /\ sh.policy \in BOOLEAN /\ inherited \in BOOLEAN
          BY <1>1, PolicyType DEF Shells
        <5>1. CASE sh.main /\ sh.policy /\ ~inherited
          BY <1>1, <4>1, <5>1, <5>3, <5>4 DEF apply_child_signal_disposition, Disposed, DefaultOr, Shells
        <5>2. CASE ~(sh.main /\ sh.policy /\ ~inherited)
          <6>1. s = sh
            BY <4>1, <5>2, <5>3, <5>4 DEF apply_child_signal_disposition
          <6> QED BY <4>1, <5>2, <6>1 DEF AsVaried, DefaultOr
        <5> QED BY <5>1, <5>2
      <4> QED BY <1>3, <1>4, <1>5, <1>7, <2>1, <2>6, <3>5, <3>6, <4>2 DEF AsTested, FinalAction, DefaultOr
    <3> QED BY <3>2, <3>3, <3>4, <3>5 DEF TypeOK, AsVaried
  <2> QED BY <2>3, <2>4, <2>5, <2>6 DEF TypeOK
<1> QED BY <1>6, <1>7, <1>11

(* What the matrix tells of: subshells and command substitutions nested to *)
(* any depth, and an asynchronous list of the main shell.                  *)
Followed == past \subseteq {"subshell", "cmdsub"} \/ (past = {"async"} /\ nesting = 1)

(* past tells of the context, and of the main shell's options only.        *)
PastTells ==
  /\ context \in past \cup {"main"}
  /\ nesting = 0 => context = "main" /\ past \subseteq {"set"}

(* Each step from a state the matrix tells of keeps what it tells.         *)
LEMMA MatrixStep ==
  ASSUME HandlersInv, PastTells, Followed => MatrixInv, [Next]_vars, Followed'
  PROVE  MatrixInv'
<1>1. TypeOK /\ Locked
  BY DEF HandlersInv
<1>2. ASSUME NEW action \in TrapActions, Trap(action) PROVE MatrixInv'
  BY <1>1, <1>2, TrapVaried DEF Trap, MatrixInv, Followed
<1>3. ASSUME NEW on \in BOOLEAN, SetMonitor(on) PROVE FALSE
  BY <1>3 DEF SetMonitor, Followed
<1>4. ASSUME NEW fork \in Contexts, Enter(fork) PROVE MatrixInv'
  <2>1. nesting \in Nat /\ nesting' = nesting + 1 /\ past' = past \cup {fork}
    BY <1>1, <1>4, MaxNestingAssumption DEF TypeOK, Enter
  <2>2. fork \in {"subshell", "cmdsub", "async"} /\ past \subseteq {"subshell", "cmdsub"}
    <3>1. CASE past' \subseteq {"subshell", "cmdsub"}
      BY <2>1, <3>1
    <3>2. CASE past' = {"async"} /\ nesting' = 1
      <4>1. nesting = 0
        BY <2>1, <3>2
      <4> QED BY <2>1, <3>2, <4>1 DEF PastTells
    <3> QED BY <3>1, <3>2 DEF Followed
  <2>3. context # "async"
    BY <2>2 DEF PastTells
  <2>4. target = "shell" /\ target' = "shell"
    BY <1>4 DEF Enter
  <2>5. AsVaried /\ (sh.disp = "trap" => sh.trap = "command")
    BY <2>2, <2>4 DEF Followed, MatrixInv, HandlersInv, Installed
  <2>6. AsVaried'
    BY <1>1, <1>4, <2>2, <2>3, <2>5, EnterVaried
  <2> QED BY <2>4, <2>6 DEF MatrixInv
<1>5. CASE RunUtility
  BY <1>1, <1>5, UtilityIsTested DEF RunUtility, MatrixInv, Followed
<1>6. CASE UNCHANGED vars
  <2>1. UNCHANGED <<signo, inherited, interactive, sh, target, context, nesting, outside, inside, past>>
    BY <1>6 DEF vars
  <2> QED BY <2>1 DEF Followed, MatrixInv, AsVaried, Untouched, UntouchedByTraps, ListIgnores, Table,
                Policy, InteractivePolicy, MonitorPolicy, inherited_ignore_locked, AsTested,
                FinalAction, FinalTrap, DefaultAction, InterruptsJobs
<1> QED BY <1>2, <1>3, <1>4, <1>5, <1>6 DEF Next

(* Every step keeps what past tells.                                       *)
LEMMA PastStep ==
  ASSUME TypeOK, PastTells, [Next]_vars
  PROVE  PastTells'
<1>1. ASSUME NEW action \in TrapActions, Trap(action) PROVE PastTells'
  BY <1>1 DEF Trap, PastTells
<1>2. ASSUME NEW on \in BOOLEAN, SetMonitor(on) PROVE PastTells'
  BY <1>2 DEF SetMonitor, PastTells
<1>3. ASSUME NEW fork \in Contexts, Enter(fork) PROVE PastTells'
  <2>1. nesting \in Nat /\ nesting' = nesting + 1 /\ past' = past \cup {fork} /\ context' = fork
    BY <1>3, MaxNestingAssumption DEF TypeOK, Enter
  <2> QED BY <2>1 DEF PastTells
<1>4. CASE RunUtility
  BY <1>4 DEF RunUtility, PastTells
<1>5. CASE UNCHANGED vars
  BY <1>5 DEF vars, PastTells
<1> QED BY <1>1, <1>2, <1>3, <1>4, <1>5 DEF Next

(* In subshells and command substitutions nested to any depth and in       *)
(* asynchronous lists of the main shell, with traps at every level, each   *)
(* signal has the disposition of the test matrix.                          *)
THEOREM MatrixHolds == Spec => []ActionIsAsTested
<1> DEFINE Inv == PastTells /\ (Followed => MatrixInv)
<1>1. Init => HandlersInv /\ Inv
  BY InitKeeps, NoTrapAtFirst, InitVaried DEF Init, HandlersInv, Installed, MatrixInv, PastTells
<1>2. HandlersInv /\ Inv /\ [Next]_vars => Inv'
  BY MatrixStep, PastStep DEF HandlersInv
<1>3. HandlersInv /\ Inv => ActionIsAsTested
  <2> SUFFICES ASSUME HandlersInv, Inv, Followed PROVE AsTested
    BY DEF ActionIsAsTested, Followed
  <2> QED BY VariedIsTested DEF MatrixInv, HandlersInv
<1> QED BY <1>1, <1>2, <1>3, HandlersStep, PTL DEF Spec
=============================================================================
