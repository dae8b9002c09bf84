-------------------------- MODULE TrapEngine_proofs --------------------------
(***************************************************************************)
(* The invariants of TrapEngine, proved for any number of signals and of   *)
(* deliveries, all commands and all structures.                            *)
(***************************************************************************)
EXTENDS TrapEngine, TLAPS

(* Where the shell can be while running_signal_trap is set, and that the   *)
(* signal in hand is one.                                                  *)
Control ==
  /\ running_signal_trap <=> pc \in {"take", "refresh", "run", "trap"}
  /\ pc \in {"refresh", "run", "trap"} => signo \in Signals
  /\ back = "exit_trap" => pc \in {"take", "refresh", "run", "trap", "exit_trap", "gone"}

(* What the scan of the drain has passed by has arrived since it began.    *)
Drained ==
  /\ pc = "exit_trap" => back = "exit_trap"
  /\ (pc = "take" /\ back = "exit_trap") =>
       \A s \in Signals : (s < signo /\ g_pending[s]) => s \in late

IInv ==
  /\ TypeOK
  /\ Control
  /\ NotMoreOftenThanDelivered
  /\ Drained
  /\ DrainedBeforeExit

USE NSIGAssumption, MaxDeliveriesAssumption

-----------------------------------------------------------------------------
(* The invariant holds at the start.                                       *)
LEMMA InitIInv == Init => IInv
<1> SUFFICES ASSUME Init PROVE IInv
  OBVIOUS
<1>1. TypeOK
  <2>1. g_pending \in [Signals -> BOOLEAN]
    BY DEF Init
  <2>2. signo \in 1..NSIG + 1 /\ scan \in 1..NSIG + 1 /\ 0 \in 0..MaxDeliveries
    BY DEF Init
  <2>3. delivered \in [Signals -> 0..MaxDeliveries] /\ ran \in [Signals -> 0..MaxDeliveries]
    BY <2>2 DEF Init
  <2>4. children \in [{"async", "foreground"} -> {"none", "running", "ended"}]
    BY DEF Init
  <2> QED BY <2>1, <2>2, <2>3, <2>4 DEF Init, TypeOK
<1>2. Control /\ Drained /\ DrainedBeforeExit
  BY DEF Init, Control, Drained, DrainedBeforeExit
<1>3. NotMoreOftenThanDelivered
  BY DEF Init, NotMoreOftenThanDelivered, InHand, One, Signals
<1> QED BY <1>1, <1>2, <1>3 DEF IInv

(* A signal keeps it at whatever moment it arrives.                        *)
LEMMA HandlerStep ==
  ASSUME IInv, NEW s \in Signals, trap_handler(s)
  PROVE  IInv'
<1>1. TypeOK'
  BY DEF IInv, TypeOK, trap_handler, state, waits, Signals
<1>2. Control'
  BY DEF IInv, TypeOK, Control, trap_handler, state, Signals
<1>3. NotMoreOftenThanDelivered'
  <2>1. SUFFICES ASSUME NEW t \in Signals
        PROVE  ran'[t] + One(t \in InHand') + One(g_pending'[t]) <= delivered'[t]
    BY DEF NotMoreOftenThanDelivered
  <2>2. ran[t] + One(t \in InHand) + One(g_pending[t]) <= delivered[t]
    BY DEF IInv, NotMoreOftenThanDelivered
  <2>3. ran' = ran /\ InHand' = InHand
    BY DEF trap_handler, InHand
  <2>4. CASE t = s
    BY <2>2, <2>3, <2>4 DEF IInv, TypeOK, trap_handler, One, Signals
  <2>5. CASE t # s
    BY <2>2, <2>3, <2>5 DEF IInv, TypeOK, trap_handler, One, Signals
  <2> QED BY <2>4, <2>5
<1>4. Drained'
  BY DEF IInv, TypeOK, Drained, Control, trap_handler, state, Signals
<1>5. DrainedBeforeExit'
  BY DEF IInv, TypeOK, Drained, DrainedBeforeExit, Pending, trap_handler, state, Signals
<1> QED BY <1>1, <1>2, <1>3, <1>4, <1>5 DEF IInv

-----------------------------------------------------------------------------
(* A step that leaves the counters and the signal in hand alone.           *)
LEMMA CountsKept ==
  ASSUME NotMoreOftenThanDelivered, UNCHANGED <<ran, delivered, g_pending>>, InHand' = InHand
  PROVE  NotMoreOftenThanDelivered'
BY DEF NotMoreOftenThanDelivered, One

(* What the end of a command can do.                                       *)
LEMMA CommandEndsEffect ==
  ASSUME IInv, pc \in {"ready", "wait", "waited", "set_end", "policy"}, CommandEnds
  PROVE  /\ pc' \in {"take", "ready"}
         /\ running_signal_trap' \in BOOLEAN /\ (running_signal_trap' <=> pc' = "take")
         /\ signo' \in 1..NSIG + 1
         /\ back' \in {"ready", "waited"}
<1>1. ~running_signal_trap /\ back # "exit_trap"
  BY DEF IInv, Control
<1>2. back \in {"ready", "waited"} /\ signo \in 1..NSIG + 1
  BY <1>1 DEF IInv, TypeOK
<1>3. CASE shell_run_pending_traps("ready")
  <2>1. running_signal_trap' = TRUE /\ signo' = 1 /\ back' = "ready" /\ pc' = "take"
    BY <1>1, <1>3 DEF shell_run_pending_traps
  <2>2. 1 \in 1..NSIG + 1
    OBVIOUS
  <2> QED BY <2>1, <2>2
<1>4. CASE pc' = "ready" /\ UNCHANGED <<running_signal_trap, signo, back>>
  <2>1. running_signal_trap' = FALSE
    BY <1>1, <1>4 DEF IInv, TypeOK
  <2> QED BY <1>2, <1>4, <2>1
<1> QED BY <1>3, <1>4 DEF CommandEnds

(* Steps that end a command.                                               *)
LEMMA CommandStep ==
  ASSUME IInv, CommandEnds, pc \in {"ready", "wait", "waited", "set_end", "policy"},
         UNCHANGED <<startup, flags, last_handled_signal, scan, previous, waiting_for, history>>,
         should_exit' \in BOOLEAN, turn' \in BOOLEAN,
         children' \in [{"async", "foreground"} -> {"none", "running", "ended"}]
  PROVE  IInv'
<1>1. /\ pc' \in {"take", "ready"}
      /\ running_signal_trap' \in BOOLEAN /\ (running_signal_trap' <=> pc' = "take")
      /\ signo' \in 1..NSIG + 1
      /\ back' \in {"ready", "waited"}
  BY CommandEndsEffect
<1>2. TypeOK'
  BY <1>1 DEF IInv, TypeOK, flags, history, Signals
<1>3. Control'
  BY <1>1 DEF Control
<1>4. NotMoreOftenThanDelivered'
  BY <1>1, CountsKept DEF IInv, InHand, flags, history
<1>5. Drained' /\ DrainedBeforeExit'
  BY <1>1 DEF Drained, DrainedBeforeExit
<1> QED BY <1>2, <1>3, <1>4, <1>5 DEF IInv

(* Steps of the shell outside shell_run_pending_traps that only move on.   *)
LEMMA QuietStep ==
  ASSUME IInv, pc \in {"ready", "wait", "blocked", "waited", "policy"},
         pc' \in {"ready", "wait", "blocked", "set_refresh", "policy", "policy_refresh"},
         UNCHANGED <<g_any_pending, state, back, delivered, ran, late>>,
         owed' \subseteq owed, turn' \in BOOLEAN,
         startup' \in {"running", "refresh", "over"}, signo' \in 1..NSIG + 1,
         g_pending' \in [Signals -> BOOLEAN], \A s \in Signals : g_pending'[s] => g_pending[s],
         scan' \in 1..NSIG + 1,
         previous' \in Signals \cup {0}, waiting_for' \in {"async", "foreground"},
         children' \in [{"async", "foreground"} -> {"none", "running", "ended"}]
  PROVE  IInv'
<1>1. TypeOK'
  BY DEF IInv, TypeOK, state, Signals
<1>2. Control' /\ Drained' /\ DrainedBeforeExit'
  BY DEF IInv, Control, Drained, DrainedBeforeExit, state
<1>3. NotMoreOftenThanDelivered'
  <2>1. SUFFICES ASSUME NEW t \in Signals
        PROVE  ran[t] + One(t \in InHand') + One(g_pending'[t]) <= delivered[t]
    BY DEF NotMoreOftenThanDelivered
  <2>2. ran[t] + One(t \in InHand) + One(g_pending[t]) <= delivered[t]
    BY DEF IInv, NotMoreOftenThanDelivered
  <2>3. InHand' = {} /\ InHand = {}
    BY DEF InHand
  <2> QED BY <2>2, <2>3 DEF IInv, TypeOK, One
<1> QED BY <1>1, <1>2, <1>3 DEF IInv

-----------------------------------------------------------------------------
(* Taking a pending signal keeps it: the scan starts over.                 *)
LEMMA TakeStep ==
  ASSUME IInv, signals_take_next_pending, Take
  PROVE  IInv'
<1>1. TypeOK'
  BY DEF IInv, TypeOK, signals_take_next_pending, Take, waits, history, Signals
<1>2. Control' /\ Drained' /\ DrainedBeforeExit'
  BY DEF IInv, Control, Drained, DrainedBeforeExit, signals_take_next_pending, Take
<1>3. NotMoreOftenThanDelivered'
  <2>1. SUFFICES ASSUME NEW t \in Signals
        PROVE  ran[t] + One(t \in InHand') + One(g_pending'[t]) <= delivered[t]
    BY DEF NotMoreOftenThanDelivered, signals_take_next_pending, history
  <2>2. ran[t] + One(t \in InHand) + One(g_pending[t]) <= delivered[t]
    BY DEF IInv, NotMoreOftenThanDelivered
  <2>3. InHand' = {signo} /\ InHand = {}
    BY DEF InHand, signals_take_next_pending, Take
  <2>4. CASE t = signo
    BY <2>2, <2>3, <2>4 DEF IInv, TypeOK, One, Take
  <2>5. CASE t # signo
    BY <2>2, <2>3, <2>5 DEF IInv, TypeOK, One, Take
  <2> QED BY <2>4, <2>5
<1> QED BY <1>1, <1>2, <1>3 DEF IInv

(* Passing by a signal that is not pending keeps it.                       *)
LEMMA SkipStep ==
  ASSUME IInv, signals_take_next_pending, Skip
  PROVE  IInv'
<1>1. TypeOK'
  BY DEF IInv, TypeOK, signals_take_next_pending, Skip, waits, history, Signals
<1>2. Control' /\ DrainedBeforeExit'
  BY DEF IInv, Control, DrainedBeforeExit, signals_take_next_pending, Skip
<1>3. Drained'
  BY DEF IInv, TypeOK, Drained, signals_take_next_pending, Skip, history, Signals
<1>4. NotMoreOftenThanDelivered'
  BY CountsKept DEF IInv, InHand, signals_take_next_pending, Skip, history
<1> QED BY <1>1, <1>2, <1>3, <1>4 DEF IInv

(* A scan that has found nothing leaves nothing but what arrived since it  *)
(* began.                                                                  *)
LEMMA NoneLeftStep ==
  ASSUME IInv, signals_take_next_pending, NoneLeft
  PROVE  IInv'
<1>1. TypeOK'
  BY DEF IInv, TypeOK, signals_take_next_pending, NoneLeft, waits, history, Signals
<1>2. Control' /\ Drained'
  BY DEF IInv, TypeOK, Control, Drained, signals_take_next_pending, NoneLeft
<1>3. DrainedBeforeExit'
  BY DEF IInv, TypeOK, Drained, DrainedBeforeExit, Pending, signals_take_next_pending, NoneLeft,
         history, Signals
<1>4. NotMoreOftenThanDelivered'
  BY CountsKept DEF IInv, TypeOK, InHand, signals_take_next_pending, NoneLeft, history
<1> QED BY <1>1, <1>2, <1>3, <1>4 DEF IInv

(* Computing the flag over all signals keeps it.                           *)
LEMMA RefreshStep ==
  ASSUME IInv, refresh_any_pending
  PROVE  IInv'
<1>1. TypeOK'
  <2>1. scan' \in 1..NSIG + 1
    BY DEF IInv, TypeOK, refresh_any_pending, Signals
  <2>2. g_any_pending' \in BOOLEAN
    <3>1. CASE UNCHANGED g_any_pending
      BY <3>1 DEF IInv, TypeOK
    <3>2. CASE g_any_pending' = (scan \in Signals)
      <4>1. CASE scan \in Signals
        BY <3>2, <4>1
      <4>2. CASE scan \notin Signals
        BY <3>2, <4>2
      <4> QED BY <4>1, <4>2
    <3> QED BY <3>1, <3>2 DEF refresh_any_pending
  <2>3. pc' \in {"refresh", "set_refresh", "policy_refresh", "run", "set_end", "policy"}
    BY DEF refresh_any_pending
  <2> QED BY <2>1, <2>2, <2>3 DEF IInv, TypeOK, refresh_any_pending, state, waits, history
<1>2. Control' /\ Drained' /\ DrainedBeforeExit'
  BY DEF IInv, Control, Drained, DrainedBeforeExit, refresh_any_pending, state
<1>3. NotMoreOftenThanDelivered'
  BY CountsKept DEF IInv, InHand, refresh_any_pending, history
<1> QED BY <1>1, <1>2, <1>3 DEF IInv

(* A trap that begins has been delivered at least that often.              *)
LEMMA RunTrapStep ==
  ASSUME IInv, RunTrap
  PROVE  IInv'
<1>1. signo \in Signals /\ running_signal_trap
  BY DEF IInv, Control, RunTrap
<1>2. pc' = "trap" /\ UNCHANGED <<running_signal_trap, signo, back>>
  BY <1>1 DEF RunTrap, shell_run_pending_traps
<1>3. ran[signo] < delivered[signo] /\ delivered[signo] <= MaxDeliveries
  BY <1>1 DEF IInv, TypeOK, NotMoreOftenThanDelivered, InHand, One, RunTrap
<1>4. TypeOK'
  BY <1>1, <1>2, <1>3, SMTT(40) DEF IInv, TypeOK, RunTrap, flags, waits, Signals
<1>5. Control' /\ Drained' /\ DrainedBeforeExit'
  BY <1>1, <1>2 DEF IInv, Control, Drained, DrainedBeforeExit, RunTrap
<1>6. NotMoreOftenThanDelivered'
  <2>1. SUFFICES ASSUME NEW t \in Signals
        PROVE  ran'[t] + One(t \in InHand') + One(g_pending[t]) <= delivered[t]
    BY DEF NotMoreOftenThanDelivered, RunTrap, flags
  <2>2. ran[t] + One(t \in InHand) + One(g_pending[t]) <= delivered[t]
    BY DEF IInv, NotMoreOftenThanDelivered
  <2>3. InHand' = {} /\ InHand = {signo}
    BY <1>2 DEF InHand, RunTrap
  <2>4. CASE t = signo
    BY <2>2, <2>3, <2>4 DEF IInv, TypeOK, One, RunTrap
  <2>5. CASE t # signo
    BY <2>2, <2>3, <2>5 DEF IInv, TypeOK, One, RunTrap
  <2> QED BY <2>4, <2>5
<1> QED BY <1>4, <1>5, <1>6 DEF IInv

(* A trap that ends is followed by a new scan.                             *)
LEMMA TrapEndsStep ==
  ASSUME IInv, TrapEnds
  PROVE  IInv'
<1>1. TypeOK'
  <2>1. signo' \in 1..NSIG + 1
    BY DEF TrapEnds
  <2>2. should_exit' \in BOOLEAN
    BY Zenon DEF IInv, TypeOK, TrapEnds
  <2> QED BY <2>1, <2>2 DEF IInv, TypeOK, TrapEnds, flags, waits, history
<1>2. Control' /\ Drained' /\ DrainedBeforeExit'
  BY DEF IInv, Control, Drained, DrainedBeforeExit, TrapEnds, Signals
<1>3. NotMoreOftenThanDelivered'
  BY CountsKept DEF IInv, InHand, TrapEnds, flags, history
<1> QED BY <1>1, <1>2, <1>3 DEF IInv

-----------------------------------------------------------------------------
(* trap forgets what is pending of its signal.                             *)
LEMMA SetTrapStep ==
  ASSUME IInv, NEW s \in Signals, SetTrap(s)
  PROVE  IInv'
<1>1. g_pending' \in [Signals -> BOOLEAN] /\ \A t \in Signals : g_pending'[t] => g_pending[t]
  BY DEF IInv, TypeOK, SetTrap
<1>2. scan' \in 1..NSIG + 1
  BY DEF SetTrap
<1>3. turn' \in BOOLEAN
  BY DEF SetTrap
<1> QED BY <1>1, <1>2, <1>3, QuietStep DEF IInv, TypeOK, SetTrap, waits

(* Refreshing the policy forgets what is pending of one signal after the   *)
(* other, and ends like a command or, behind the startup files, without.   *)
LEMMA PolicyStep ==
  ASSUME IInv, shell_refresh_signal_policy
  PROVE  IInv'
<1>1. CASE signo \in Signals /\ pc' = "policy_refresh"
  <2>1. /\ g_pending' = [g_pending EXCEPT ![signo] = FALSE]
        /\ owed' = owed \ {signo} /\ signo' = signo + 1 /\ scan' = 1
        /\ UNCHANGED <<startup, running_signal_trap, back>>
    BY <1>1 DEF shell_refresh_signal_policy, Signals, CommandEnds, shell_run_pending_traps
  <2>2. g_pending' \in [Signals -> BOOLEAN] /\ \A t \in Signals : g_pending'[t] => g_pending[t]
    BY <2>1 DEF IInv, TypeOK
  <2>3. signo' \in 1..NSIG + 1 /\ scan' \in 1..NSIG + 1
    BY <1>1, <2>1 DEF Signals
  <2> QED
    BY <1>1, <2>1, <2>2, <2>3, QuietStep
       DEF shell_refresh_signal_policy, IInv, TypeOK, state, waits
<1>2. CASE CommandEnds /\ UNCHANGED <<startup, g_pending, owed, scan>>
  BY <1>2, CommandStep DEF shell_refresh_signal_policy, IInv, TypeOK, flags, waits, history
<1>3. CASE startup' = "over" /\ pc' = "ready"
           /\ UNCHANGED <<g_pending, owed, signo, scan, running_signal_trap, back>>
  BY <1>3, QuietStep DEF shell_refresh_signal_policy, IInv, TypeOK, state, waits
<1> QED BY <1>1, <1>2, <1>3 DEF shell_refresh_signal_policy

(* A child that ends changes none of the flags.                            *)
LEMMA ChildEndsStep ==
  ASSUME IInv, NEW c \in {"async", "foreground"}, ChildEnds(c)
  PROVE  IInv'
<1>1. TypeOK'
  BY DEF IInv, TypeOK, ChildEnds, flags, state, history
<1>2. Control' /\ Drained' /\ DrainedBeforeExit'
  BY DEF IInv, Control, Drained, DrainedBeforeExit, Pending, ChildEnds, flags, state, history
<1>3. NotMoreOftenThanDelivered'
  BY CountsKept DEF IInv, InHand, ChildEnds, flags, history
<1> QED BY <1>1, <1>2, <1>3 DEF IInv

(* Interrupted and Drain: the call with nothing running.                   *)
LEMMA CallStep ==
  ASSUME IInv, NEW caller \in {"waited", "exit_trap"},
         pc \in {"ready", "interrupted"}, shell_run_pending_traps(caller),
         UNCHANGED <<startup, flags, last_handled_signal, should_exit, scan, waits, turn, history>>
  PROVE  IInv'
<1>1. ~running_signal_trap
  BY DEF IInv, Control
<1>2. running_signal_trap' = TRUE /\ signo' = 1 /\ back' = caller /\ pc' = "take"
  BY <1>1 DEF shell_run_pending_traps
<1>3. signo' \in 1..NSIG + 1
  BY <1>2
<1>4. TypeOK'
  BY <1>2, <1>3 DEF IInv, TypeOK, flags, waits, history
<1>5. Control' /\ DrainedBeforeExit'
  BY <1>2 DEF Control, DrainedBeforeExit
<1>6. Drained'
  BY <1>2 DEF Drained, Signals
<1>7. NotMoreOftenThanDelivered'
  BY <1>2, CountsKept DEF IInv, InHand, flags, history
<1> QED BY <1>4, <1>5, <1>6, <1>7 DEF IInv

(* The exit trap begins after the drain.                                   *)
LEMMA ExitTrapStep ==
  ASSUME IInv, shell_run_exit_trap
  PROVE  IInv'
<1>1. TypeOK'
  BY DEF IInv, TypeOK, shell_run_exit_trap, flags, state, waits, history
<1>2. Control' /\ Drained' /\ DrainedBeforeExit'
  BY DEF IInv, Control, Drained, DrainedBeforeExit, shell_run_exit_trap, state
<1>3. NotMoreOftenThanDelivered'
  BY CountsKept DEF IInv, InHand, shell_run_exit_trap, flags, history
<1> QED BY <1>1, <1>2, <1>3 DEF IInv

-----------------------------------------------------------------------------
(* Every step keeps the invariant.                                         *)
LEMMA NextIInv == IInv /\ [Next]_vars => IInv'
<1> SUFFICES ASSUME IInv, [Next]_vars
    PROVE  IInv'
  OBVIOUS
<1>1. ASSUME NEW s \in Signals, trap_handler(s) PROVE IInv'
  BY <1>1, HandlerStep
<1>2. ASSUME NEW c \in {"async", "foreground"}, ChildEnds(c) PROVE IInv'
  BY <1>2, ChildEndsStep
<1>3. CASE signals_take_next_pending
  BY <1>3, TakeStep, SkipStep, NoneLeftStep DEF signals_take_next_pending
<1>4. CASE refresh_any_pending
  BY <1>4, RefreshStep
<1>5. CASE RunTrap
  BY <1>5, RunTrapStep
<1>6. CASE TrapEnds
  BY <1>6, TrapEndsStep
<1>7. CASE Builtin
  <2>1. turn' \in BOOLEAN /\ should_exit' \in BOOLEAN
    BY <1>7 DEF Builtin
  <2> QED BY <1>7, <2>1, CommandStep DEF Builtin, waits, IInv, TypeOK
<1>8. CASE StartAsync
  <2>1. turn' \in BOOLEAN
    BY <1>8 DEF StartAsync
  <2>2. children' \in [{"async", "foreground"} -> {"none", "running", "ended"}]
    BY <1>8 DEF StartAsync, IInv, TypeOK
  <2> QED BY <1>8, <2>1, <2>2, CommandStep DEF StartAsync, IInv, TypeOK
<1>9. CASE StartForeground
  <2>1. children' \in [{"async", "foreground"} -> {"none", "running", "ended"}]
    BY <1>9 DEF StartForeground, IInv, TypeOK
  <2> QED BY <1>9, <2>1, QuietStep DEF StartForeground, flags, history, IInv, TypeOK
<1>10. CASE builtin_wait
  BY <1>10, QuietStep DEF builtin_wait, flags, history, IInv, TypeOK
<1>11. ASSUME NEW s \in Signals, SetTrap(s) PROVE IInv'
  BY <1>11, SetTrapStep
<1>12. CASE SetTrapEnds
  BY <1>12, CommandStep DEF SetTrapEnds, waits, IInv, TypeOK
<1>13. CASE Reap
  <2>1. turn' \in BOOLEAN
    BY <1>13 DEF Reap
  <2>2. children' \in [{"async", "foreground"} -> {"none", "running", "ended"}]
    BY <1>13 DEF Reap, IInv, TypeOK
  <2> QED BY <1>13, <2>1, <2>2, CommandStep DEF Reap, IInv, TypeOK
<1>14. CASE Sleep
  BY <1>14, QuietStep DEF Sleep, flags, waits, history, IInv, TypeOK
<1>15. CASE Interrupted
  BY <1>15, CallStep DEF Interrupted
<1>16. CASE WaitReturns
  <2>1. turn' \in BOOLEAN
    BY <1>16 DEF WaitReturns
  <2> QED BY <1>16, <2>1, CommandStep DEF WaitReturns, waits, IInv, TypeOK
<1>17. CASE WaitAgain
  BY <1>17, QuietStep DEF WaitAgain, flags, history, IInv, TypeOK
<1>18. CASE Drain
  BY <1>18, CallStep DEF Drain
<1>19. CASE shell_run_exit_trap
  BY <1>19, ExitTrapStep
<1>20. CASE SetPolicy \/ StartupEnds
  <2>1. turn' \in BOOLEAN /\ signo' = 1
    BY <1>20 DEF SetPolicy, StartupEnds, IInv, TypeOK, waits
  <2> QED
    BY <1>20, <2>1, QuietStep DEF SetPolicy, StartupEnds, flags, waits, history, IInv, TypeOK
<1>21. CASE shell_refresh_signal_policy
  BY <1>21, PolicyStep
<1>22. CASE UNCHANGED vars
  <2>1. UNCHANGED <<startup, flags, state, pc, signo, scan, back, waits, turn, history>>
    BY <1>22 DEF vars
  <2> QED BY <2>1 DEF IInv, TypeOK, Control, NotMoreOftenThanDelivered, Drained, DrainedBeforeExit,
                Pending, InHand, flags, state, waits, history
<1> QED
  BY <1>1, <1>2, <1>3, <1>4, <1>5, <1>6, <1>7, <1>8, <1>9, <1>10, <1>11, <1>12, <1>13, <1>14,
     <1>15, <1>16, <1>17, <1>18, <1>19, <1>20, <1>21, <1>22 DEF Next, Shell

(* Control, counts and the drain agree, whenever a signal interrupts the   *)
(* shell.                                                                  *)
LEMMA Invariance == Spec => []IInv
BY InitIInv, NextIInv, PTL DEF Spec

(* The types hold, and so traps do not nest: shell_run_pending_traps       *)
(* always returns to a caller outside a trap.                              *)
THEOREM TypesHold == Spec => []TypeOK
BY Invariance, PTL DEF IInv

(* A trap command runs at most once for each delivery of its signal.       *)
THEOREM TrapsRunOncePerDelivery == Spec => []NotMoreOftenThanDelivered
BY Invariance, PTL DEF IInv

(* Whatever was caught before the drain of main has run before the EXIT    *)
(* trap.                                                                   *)
THEOREM ExitTrapComesLast == Spec => []DrainedBeforeExit
BY Invariance, PTL DEF IInv

-----------------------------------------------------------------------------
(* No delivery is lost, in any interleaving of the handler with the scans, *)
(* unless its trap is replaced, or the signal policy refreshed, while it   *)
(* is pending.                                                             *)
THEOREM NoDeliveryIsLost == Spec => []NoneIsLost
<1> DEFINE Inv == IInv /\ NoneIsLost
<1>1. Init => Inv
  BY InitIInv DEF Init, NoneIsLost
<1>2. Inv /\ [Next]_vars => Inv'
  <2> SUFFICES ASSUME IInv, NoneIsLost, [Next]_vars
      PROVE  NoneIsLost'
    BY NextIInv
  <2>1. ASSUME NEW s \in Signals, trap_handler(s) PROVE NoneIsLost'
    BY <2>1 DEF trap_handler, NoneIsLost, Pending, InHand, IInv, TypeOK
  <2>2. CASE signals_take_next_pending /\ Take
    BY <2>2 DEF signals_take_next_pending, Take, NoneIsLost, Pending, InHand, IInv, TypeOK, history
  <2>3. CASE RunTrap
    <3>1. pc' = "trap"
      BY <2>3 DEF RunTrap, shell_run_pending_traps, IInv, Control
    <3> QED BY <2>3, <3>1 DEF RunTrap, NoneIsLost, Pending, InHand, flags
  <2>4. CASE refresh_any_pending
    BY <2>4 DEF refresh_any_pending, NoneIsLost, Pending, InHand, history
  <2>5. ASSUME UNCHANGED <<owed, g_pending>>, pc \notin {"refresh", "run"}
        PROVE  NoneIsLost'
    BY <2>5 DEF NoneIsLost, Pending, InHand
  <2>6. CASE signals_take_next_pending /\ (Skip \/ NoneLeft)
    BY <2>5, <2>6 DEF signals_take_next_pending, Skip, NoneLeft, history
  <2>7. CASE TrapEnds \/ shell_run_exit_trap \/ Interrupted \/ Drain
    BY <2>5, <2>7 DEF TrapEnds, shell_run_exit_trap, Interrupted, Drain, flags, history
  <2>8. CASE Builtin \/ StartAsync \/ StartForeground \/ builtin_wait
    BY <2>5, <2>8 DEF Builtin, StartAsync, StartForeground, builtin_wait, flags, history
  <2>9. CASE Reap \/ Sleep \/ WaitReturns \/ WaitAgain
    BY <2>5, <2>9 DEF Reap, Sleep, WaitReturns, WaitAgain, flags, history
  <2>10. CASE SetTrapEnds
    BY <2>5, <2>10 DEF SetTrapEnds, flags, history
  <2>11. ASSUME NEW s \in Signals, SetTrap(s) PROVE NoneIsLost'
    BY <2>11 DEF SetTrap, NoneIsLost, Pending, InHand, IInv, TypeOK
  <2>12. ASSUME NEW c \in {"async", "foreground"}, ChildEnds(c) PROVE NoneIsLost'
    BY <2>12 DEF ChildEnds, NoneIsLost, Pending, InHand, flags, history
  <2>13. CASE UNCHANGED vars
    BY <2>13 DEF vars, NoneIsLost, Pending, InHand, flags, history
  <2>14. CASE SetPolicy \/ StartupEnds
    BY <2>5, <2>14 DEF SetPolicy, StartupEnds, flags, history
  <2>15. CASE shell_refresh_signal_policy
    <3>1. CASE UNCHANGED <<owed, g_pending>>
      BY <2>5, <2>15, <3>1 DEF shell_refresh_signal_policy
    <3>2. CASE g_pending' = [g_pending EXCEPT ![signo] = FALSE] /\ owed' = owed \ {signo}
      BY <2>15, <3>2 DEF shell_refresh_signal_policy, NoneIsLost, Pending, InHand, IInv, TypeOK
    <3> QED BY <2>15, <3>1, <3>2 DEF shell_refresh_signal_policy
  <2> QED
    BY <2>1, <2>2, <2>3, <2>4, <2>6, <2>7, <2>8, <2>9, <2>10, <2>11, <2>12, <2>13,
       <2>14, <2>15
       DEF Next, Shell, signals_take_next_pending
<1>3. Inv => NoneIsLost
  OBVIOUS
<1> QED BY <1>1, <1>2, <1>3, PTL DEF Spec
=============================================================================
