--------------------------- MODULE Script_proofs ----------------------------
(***************************************************************************)
(* The executor keeps its promise: every command of a portable script does *)
(* what it means.                                                          *)
(***************************************************************************)
EXTENDS PortableScript, TLAPS, NaturalsInduction, WellFoundedInduction

-----------------------------------------------------------------------------
(* A set of numbers has a least one.                                       *)
LEMMA LeastOf ==
  ASSUME NEW T \in SUBSET Nat, T # {}
  PROVE  \E x \in T : \A y \in T : x <= y
<1>1. PICK x \in T : \A y \in T : ~(<<y, x>> \in OpToRel(<, Nat))
  BY NatLessThanWellFounded, WFMin
<1> DEFINE less == {ss \in Nat \X Nat : ss[1] < ss[2]}
<1>2. OpToRel(<, Nat) = less
  BY DEF OpToRel
<1>3. \A y \in T : ~(<<y, x>> \in less)
  BY <1>1, <1>2
<1>4. ASSUME NEW y \in T PROVE x <= y
  <2>1. x \in Nat /\ y \in Nat
    OBVIOUS
  <2>2. ~(<<y, x>>[1] < <<y, x>>[2])
    BY <1>3, <2>1
  <2> QED
    BY <2>1, <2>2
<1> QED
  BY <1>4

(* Induction: what holds of 0 and of the successor of what it holds of,    *)
(* holds of every number up to n.                                          *)
LEMMA UpTo ==
  ASSUME NEW n \in Nat, NEW T,
         0 \in T, \A k \in 0 .. n : k \in T /\ k < n => k + 1 \in T
  PROVE  0 .. n \subseteq T
<1> DEFINE bad == {k \in 0 .. n : k \notin T}
<1>1. ASSUME bad # {} PROVE FALSE
  <2>1. bad \in SUBSET Nat
    OBVIOUS
  <2>2. PICK k \in bad : \A j \in bad : k <= j
    BY <1>1, <2>1, LeastOf
  <2>3. k \in 0 .. n /\ k \notin T /\ k # 0
    BY <2>2
  <2>4. k - 1 \in 0 .. n /\ k - 1 < n /\ ~(k <= k - 1) /\ (k - 1) + 1 = k
    BY <2>3
  <2>5. k - 1 \in T
    BY <2>2, <2>4
  <2> QED
    BY <2>3, <2>4, <2>5
<1> QED
  BY <1>1

-----------------------------------------------------------------------------
(* The recursive functions Execution and Meaning exist.                    *)
ExecutionTo(k, f) ==
  [n \in 0 .. k |->
     [call \in Calls |-> IF n = 0 THEN NotFollowed(call.st) ELSE Execute(f[n - 1], call)]]

(* The executor, followed for n nested calls.                              *)
LEMMA ExecutionIs ==
  \A n \in 0 .. Patience :
    Execution[n] = [call \in Calls |->
                      IF n = 0 THEN NotFollowed(call.st) ELSE Execute(Execution[n - 1], call)]
<1> DEFINE T == {k \in Nat : \E f : f = ExecutionTo(k, f)}
<1>1. 0 \in T
  <2> DEFINE g == [n \in 0 .. 0 |-> [call \in Calls |-> NotFollowed(call.st)]]
  <2>1. g = ExecutionTo(0, g)
    BY DEF ExecutionTo
  <2> QED
    BY <2>1
<1>2. ASSUME NEW k \in Nat, k \in T PROVE k + 1 \in T
  <2>1. PICK f : f = ExecutionTo(k, f)
    BY <1>2
  <2> DEFINE g == [n \in 0 .. k + 1 |->
                     IF n <= k THEN f[n] ELSE [call \in Calls |-> Execute(f[k], call)]]
  <2>2. ASSUME NEW n \in 0 .. k + 1
        PROVE  g[n] = [call \in Calls |->
                         IF n = 0 THEN NotFollowed(call.st) ELSE Execute(g[n - 1], call)]
    <3>1. CASE n = 0
      <4>1. g[n] = f[0]
        BY <3>1
      <4>2. ExecutionTo(k, f)[0] = [call \in Calls |-> NotFollowed(call.st)]
        BY DEF ExecutionTo
      <4> HIDE DEF g
      <4> QED
        BY <2>1, <3>1, <4>1, <4>2
    <3>2. CASE n \in 1 .. k
      <4>1. g[n] = f[n] /\ g[n - 1] = f[n - 1]
        BY <3>2
      <4>2. ExecutionTo(k, f)[n] = [call \in Calls |-> Execute(f[n - 1], call)]
        BY <3>2 DEF ExecutionTo
      <4>3. n # 0
        BY <3>2
      <4> HIDE DEF g
      <4> QED
        BY <2>1, <4>1, <4>2, <4>3
    <3>3. CASE n = k + 1
      <4>1. g[n] = [call \in Calls |-> Execute(f[k], call)] /\ g[n - 1] = f[k]
        BY <3>3
      <4>2. n # 0
        BY <3>3
      <4> HIDE DEF g
      <4> QED
        BY <4>1, <4>2
    <3> QED
      BY <3>1, <3>2, <3>3
  <2>3. g = [n \in 0 .. k + 1 |-> g[n]]
    OBVIOUS
  <2>4. g = ExecutionTo(k + 1, g)
    <3> HIDE DEF g
    <3> QED
      BY <2>2, <2>3 DEF ExecutionTo
  <2> HIDE DEF g
  <2> QED
    BY <2>4
<1>3. Patience \in T
  <2>1. \A k \in 0 .. Patience : k \in T /\ k < Patience => k + 1 \in T
    <3> HIDE DEF T
    <3> QED
      BY <1>2
  <2> HIDE DEF T
  <2>2. 0 .. Patience \subseteq T
    BY <1>1, <2>1, UpTo, PatienceAssumption
  <2> QED
    BY <2>2, PatienceAssumption
<1>4. \E f : f = ExecutionTo(Patience, f)
  BY <1>3
<1>5. Execution = CHOOSE f : f = ExecutionTo(Patience, f)
  BY DEF Execution, ExecutionTo
<1>6. Execution = ExecutionTo(Patience, Execution)
  <2>1. (CHOOSE f : f = ExecutionTo(Patience, f))
          = ExecutionTo(Patience, CHOOSE f : f = ExecutionTo(Patience, f))
    BY <1>4, Zenon
  <2> QED
    BY <1>5, <2>1
<1> HIDE DEF T
<1>7. \A n \in 0 .. Patience :
        ExecutionTo(Patience, Execution)[n]
          = [call \in Calls |->
               IF n = 0 THEN NotFollowed(call.st) ELSE Execute(Execution[n - 1], call)]
  BY DEF ExecutionTo
<1> QED
  BY <1>6, <1>7

MeaningTo(k, f) ==
  [n \in 0 .. k |->
     [task \in Tasks |-> IF n = 0 THEN Normal(task.s, 0) ELSE Mean(f[n - 1], task)]]

(* The meaning, followed as far.                                           *)
LEMMA MeaningIs ==
  \A n \in 0 .. Patience :
    Meaning[n] = [task \in Tasks |->
                      IF n = 0 THEN Normal(task.s, 0) ELSE Mean(Meaning[n - 1], task)]
<1> DEFINE T == {k \in Nat : \E f : f = MeaningTo(k, f)}
<1>1. 0 \in T
  <2> DEFINE g == [n \in 0 .. 0 |-> [task \in Tasks |-> Normal(task.s, 0)]]
  <2>1. g = MeaningTo(0, g)
    BY DEF MeaningTo
  <2> QED
    BY <2>1
<1>2. ASSUME NEW k \in Nat, k \in T PROVE k + 1 \in T
  <2>1. PICK f : f = MeaningTo(k, f)
    BY <1>2
  <2> DEFINE g == [n \in 0 .. k + 1 |->
                     IF n <= k THEN f[n] ELSE [task \in Tasks |-> Mean(f[k], task)]]
  <2>2. ASSUME NEW n \in 0 .. k + 1
        PROVE  g[n] = [task \in Tasks |->
                         IF n = 0 THEN Normal(task.s, 0) ELSE Mean(g[n - 1], task)]
    <3>1. CASE n = 0
      <4>1. g[n] = f[0]
        BY <3>1
      <4>2. MeaningTo(k, f)[0] = [task \in Tasks |-> Normal(task.s, 0)]
        BY DEF MeaningTo
      <4> HIDE DEF g
      <4> QED
        BY <2>1, <3>1, <4>1, <4>2
    <3>2. CASE n \in 1 .. k
      <4>1. g[n] = f[n] /\ g[n - 1] = f[n - 1]
        BY <3>2
      <4>2. MeaningTo(k, f)[n] = [task \in Tasks |-> Mean(f[n - 1], task)]
        BY <3>2 DEF MeaningTo
      <4>3. n # 0
        BY <3>2
      <4> HIDE DEF g
      <4> QED
        BY <2>1, <4>1, <4>2, <4>3
    <3>3. CASE n = k + 1
      <4>1. g[n] = [task \in Tasks |-> Mean(f[k], task)] /\ g[n - 1] = f[k]
        BY <3>3
      <4>2. n # 0
        BY <3>3
      <4> HIDE DEF g
      <4> QED
        BY <4>1, <4>2
    <3> QED
      BY <3>1, <3>2, <3>3
  <2>3. g = [n \in 0 .. k + 1 |-> g[n]]
    OBVIOUS
  <2>4. g = MeaningTo(k + 1, g)
    <3> HIDE DEF g
    <3> QED
      BY <2>2, <2>3 DEF MeaningTo
  <2> HIDE DEF g
  <2> QED
    BY <2>4
<1>3. Patience \in T
  <2>1. \A k \in 0 .. Patience : k \in T /\ k < Patience => k + 1 \in T
    <3> HIDE DEF T
    <3> QED
      BY <1>2
  <2> HIDE DEF T
  <2>2. 0 .. Patience \subseteq T
    BY <1>1, <2>1, UpTo, PatienceAssumption
  <2> QED
    BY <2>2, PatienceAssumption
<1>4. \E f : f = MeaningTo(Patience, f)
  BY <1>3
<1>5. Meaning = CHOOSE f : f = MeaningTo(Patience, f)
  BY DEF Meaning, MeaningTo
<1>6. Meaning = MeaningTo(Patience, Meaning)
  <2>1. (CHOOSE f : f = MeaningTo(Patience, f))
          = MeaningTo(Patience, CHOOSE f : f = MeaningTo(Patience, f))
    BY <1>4, Zenon
  <2> QED
    BY <1>5, <2>1
<1> HIDE DEF T
<1>7. \A n \in 0 .. Patience :
        MeaningTo(Patience, Meaning)[n]
          = [task \in Tasks |->
               IF n = 0 THEN Normal(task.s, 0) ELSE Mean(Meaning[n - 1], task)]
  BY DEF MeaningTo
<1> QED
  BY <1>6, <1>7

-----------------------------------------------------------------------------
(* When the executor and the meaning of a command go together.             *)

ModeFits(p, v, c, s) ==
  /\ p.mode = "live" => ~c.ignoring /\ v.errexit = s.errexit
  /\ p.mode = "operand" => c.ignoring /\ v.errexit = s.errexit
  /\ p.mode = "off" => ~v.errexit /\ (c.ignoring \/ ~s.errexit)

(* The command in place p may be executed in the state v, with the meaning *)
(* it has in c and s.                                                      *)
Enters(p, v, c, s) ==
  /\ ~Interrupted(v)
  /\ v.ran = s.ran
  /\ v.fuel = s.fuel
  /\ v.loop_depth >= p.loops
  /\ c.loops >= p.loops
  /\ v.function_depth >= 0
  /\ p.returns # "none" => v.function_depth > 0
  /\ ModeFits(p, v, c, s)

Clear(p, v) == p.mode # "off" => ~v.errexit_ignored

(* A list or a loop may go on at at.                                       *)
SequenceGoesOn(p, at, v) == at \in 2 .. Len(p.node.items) /\ Clear(p, v)

TextGoesOn(p, at) == at \in 2 .. Len(p.node.items)

AndOrGoesOn(p, at, v, status) ==
  /\ at \in 1 .. Len(p.node.ops)
  /\ p.mode # "off" /\ v.errexit_ignored =>
       status # 0 /\ \A j \in at .. Len(p.node.ops) : p.node.ops[j] = "and"

LoopGoesOn(p, at, v, status) ==
  /\ at > 0
  /\ Clear(p, v)
  /\ v.loop_depth > p.loops
  /\ p.mode # "off" => status = 0 \/ ~v.errexit

GoesOn(p, at, v, status) ==
  \/ p.node.kind = "sequence" /\ SequenceGoesOn(p, at, v)
  \/ p.node.kind = "brace" /\ TextGoesOn(p, at)
  \/ p.node.kind = "andor" /\ AndOrGoesOn(p, at, v, status)
  \/ p.node.kind \in Loops /\ LoopGoesOn(p, at, v, status)

Starts(p, x, y) == x.at = 0 /\ y.last = Normal(y.s, 0) /\ Clear(p, x.st)

Resumes(p, x, y) ==
  /\ x.at # 0
  /\ y.last.flow = "none" /\ y.last.s = y.s /\ y.last.status = x.status
  /\ GoesOn(p, x.at, x.st, x.status)

Related(p, x, y) ==
  /\ p.node = x.node /\ p.node = y.node /\ x.at = y.at
  /\ Enters(p, x.st, y.c, y.s)
  /\ Starts(p, x, y) \/ Resumes(p, x, y)

(* The parent of the command ends the shell because of its status.         *)
Failing(v, status) == status # 0 /\ v.errexit /\ ~v.errexit_ignored /\ ~Interrupted(v)
Fires(p, r) == p.mode = "live" /\ Failing(r.st, r.status)

Typed(r, m) == r.st \in States /\ r.status \in Nat /\ m \in Outcomes

(* What it leaves besides the flags of flow control.                       *)
Keeps(p, v, s, r, m) ==
  /\ r.st.ran = m.s.ran
  /\ r.st.fuel = m.s.fuel
  /\ r.st.loop_depth = v.loop_depth
  /\ r.st.function_depth = v.function_depth
  /\ p.mode = "off" => ~r.st.errexit /\ m.s.errexit = s.errexit
  /\ p.mode # "off" => r.st.errexit = m.s.errexit

Tidy(p, v, r, m) ==
  m.flow # "exit" /\ ~p.tail /\ (~v.errexit_ignored \/ p.node.kind = "brace") =>
    ~r.st.errexit_ignored

(* The status does not end the shell with another one than it means.       *)
Given(p, r, m) ==
  \/ r.status \in {0, m.status}
  \/ r.st.errexit_ignored
  \/ p.mode # "off" /\ ~r.st.errexit

NormalEnd(p, r, m) ==
  m.flow = "none" => ~Interrupted(r.st) /\ ~Fires(p, r) /\ r.status = m.status

ExitEnd(p, r, m) ==
  m.flow = "exit" =>
    /\ \/ r.st.should_exit /\ r.st.exit_status = m.status
       \/ Fires(p, r) /\ r.status = m.status
    /\ ~r.st.return_requested
    /\ p.mode = "off" => p.exits # "none"
    /\ p.mode # "off" \/ p.exits = "exact" => Given(p, r, m)

ReturnEnd(p, r, m) ==
  m.flow = "return" =>
    /\ p.returns # "none"
    /\ r.st.return_requested
    /\ r.st.return_status = m.status
    /\ r.st.break_levels = 0 /\ r.st.continue_levels = 0
    /\ p.returns = "exact" => r.status = m.status
    /\ p.mode # "off" => Given(p, r, m)
    /\ r.st.should_exit =>
         p.mode = "live" /\ r.st.errexit /\ r.st.exit_status = m.status /\ m.status # 0

JumpEnd(p, r, m) ==
  m.flow \in {"break", "continue"} =>
    /\ ~r.st.should_exit /\ ~r.st.return_requested
    /\ m.levels \in 1 .. p.loops
    /\ r.st.break_levels = IF m.flow = "break" THEN m.levels ELSE 0
    /\ r.st.continue_levels = IF m.flow = "break" THEN 0 ELSE m.levels
    /\ r.status = 0 \/ r.st.errexit_ignored

Ends(p, r, m) ==
  NormalEnd(p, r, m) /\ ExitEnd(p, r, m) /\ ReturnEnd(p, r, m) /\ JumpEnd(p, r, m)

Agrees(p, v, s, r, m) ==
  Typed(r, m) /\ Keeps(p, v, s, r, m) /\ Tidy(p, v, r, m) /\ Ends(p, r, m)

(* The executor f and the meaning g agree on every command.                *)
Good(f, g) ==
  \A p \in Places, x \in Calls, y \in Tasks :
    Related(p, x, y) => Agrees(p, x.st, y.s, f[x], g[y])

-----------------------------------------------------------------------------
(* The state between commands.                                             *)

(* w is v but for should_exit, exit_status and last_status.                *)
Alike(w, v) ==
  /\ w.errexit = v.errexit /\ w.errexit_ignored = v.errexit_ignored
  /\ w.break_levels = v.break_levels /\ w.continue_levels = v.continue_levels
  /\ w.return_requested = v.return_requested /\ w.return_status = v.return_status
  /\ w.loop_depth = v.loop_depth /\ w.function_depth = v.function_depth
  /\ w.fuel = v.fuel /\ w.ran = v.ran

(* w is v after the check of errexit for a command that ended with status. *)
Checks(w, v, status) ==
  /\ w \in States /\ Alike(w, v)
  /\ Failing(v, status) => w.should_exit /\ w.exit_status = status
  /\ ~Failing(v, status) => w.should_exit = v.should_exit /\ w.exit_status = v.exit_status

(* The executor puts the status down in $? before it looks at errexit.     *)
LEMMA NotedChecks ==
  ASSUME NEW v \in States, NEW status \in Nat
  PROVE  Checks(maybe_trigger_errexit([v EXCEPT !.last_status = status], status), v, status)
<1> DEFINE u == [v EXCEPT !.last_status = status]
           w == maybe_trigger_errexit(u, status)
<1>1. u \in States /\ Alike(u, v) /\ u.should_exit = v.should_exit /\ u.exit_status = v.exit_status
  BY DEF States, Alike
<1>2. Failing(u, status) <=> Failing(v, status)
  BY <1>1 DEF Alike, Failing, Interrupted, has_pending_flow_control
<1> HIDE DEF u
<1>3. w = IF Failing(u, status) THEN Exit(u, status) ELSE u
  BY DEF maybe_trigger_errexit, Failing
<1>4. /\ Exit(u, status) \in States /\ Alike(Exit(u, status), u)
      /\ Exit(u, status).should_exit /\ Exit(u, status).exit_status = status
  BY <1>1 DEF States, Alike, Exit
<1> HIDE DEF w
<1>5. ASSUME Failing(v, status) PROVE Checks(w, v, status)
  BY <1>1, <1>2, <1>3, <1>4, <1>5 DEF Checks, Alike
<1>6. ASSUME ~Failing(v, status) PROVE Checks(w, v, status)
  BY <1>1, <1>2, <1>3, <1>6 DEF Checks
<1> QED
  BY <1>5, <1>6 DEF w, u

(* maybe_trigger_errexit is such a check.                                  *)
LEMMA TriggerChecks ==
  ASSUME NEW v \in States, NEW status \in Nat
  PROVE  Checks(maybe_trigger_errexit(v, status), v, status)
<1> DEFINE w == maybe_trigger_errexit(v, status)
<1>3. w = IF Failing(v, status) THEN Exit(v, status) ELSE v
  BY DEF maybe_trigger_errexit, Failing
<1>4. /\ Exit(v, status) \in States /\ Alike(Exit(v, status), v)
      /\ Exit(v, status).should_exit /\ Exit(v, status).exit_status = status
  BY DEF States, Alike, Exit
<1> HIDE DEF w
<1>5. ASSUME Failing(v, status) PROVE Checks(w, v, status)
  BY <1>3, <1>4, <1>5 DEF Checks
<1>6. ASSUME ~Failing(v, status) PROVE Checks(w, v, status)
  BY <1>3, <1>6 DEF Checks, Alike
<1> QED
  BY <1>5, <1>6 DEF w

(* Whether the executor stops after a command is whether it is meant to.   *)
LEMMA StopsAsMeant ==
  ASSUME NEW p \in PlaceSet, NEW v, NEW s, NEW r, NEW m, Agrees(p, v, s, r, m)
  PROVE  Interrupted(r.st) \/ Fires(p, r) <=> m.flow # "none"
<1>1. Typed(r, m) /\ Ends(p, r, m)
  BY DEF Agrees
<1>2. m.flow \in {"none", "break", "continue", "return", "exit"}
  BY <1>1 DEF Typed, Outcomes, Flows
<1>3. CASE m.flow = "none"
  BY <1>1, <1>3 DEF Ends, NormalEnd
<1>4. CASE m.flow = "exit"
  BY <1>1, <1>4 DEF Ends, ExitEnd, Interrupted
<1>5. CASE m.flow = "return"
  BY <1>1, <1>5 DEF Ends, ReturnEnd, Interrupted, has_pending_flow_control
<1>6. CASE m.flow \in {"break", "continue"}
  <2>1. JumpEnd(p, r, m) /\ p.loops \in Nat
    BY <1>1 DEF Ends, PlaceSet
  <2>2. r.st.break_levels > 0 \/ r.st.continue_levels > 0
    BY <1>6, <2>1 DEF JumpEnd
  <2> QED
    BY <1>6, <2>2 DEF Interrupted, has_pending_flow_control
<1> QED
  BY <1>2, <1>3, <1>4, <1>5, <1>6

(* The check leaves a command that agrees with its meaning so.             *)
LEMMA CheckedAgrees ==
  ASSUME NEW p \in PlaceSet, p.mode # "operand", NEW v, NEW s, NEW r, NEW m, NEW w,
         Agrees(p, v, s, r, m), Checks(w, r.st, r.status)
  PROVE  /\ Agrees(p, v, s, Result(w, r.status), m)
         /\ Interrupted(w) <=> m.flow # "none"
         /\ m.flow = "exit" => w.should_exit /\ w.exit_status = m.status
<1> DEFINE o == Result(w, r.status)
<1>0. o.st = w /\ o.status = r.status
  BY DEF Result
<1> HIDE DEF o
<1>1. Typed(r, m) /\ Keeps(p, v, s, r, m) /\ Tidy(p, v, r, m) /\ Ends(p, r, m)
  BY DEF Agrees
<1>2. w \in States /\ Alike(w, r.st)
  BY DEF Checks
<1>3. Typed(o, m)
  BY <1>0, <1>1, <1>2 DEF Typed
<1>4. Keeps(p, v, s, o, m)
  BY <1>0, <1>1, <1>2 DEF Keeps, Alike
<1>5. Tidy(p, v, o, m)
  BY <1>0, <1>1, <1>2 DEF Tidy, Alike
<1>6. p.mode = "off" \/ p.mode = "live"
  BY DEF PlaceSet
<1>7. Fires(p, r) <=> Failing(r.st, r.status)
  <2>1. p.mode = "off" => ~Failing(r.st, r.status)
    BY <1>1 DEF Keeps, Failing
  <2> QED
    BY <1>6, <2>1 DEF Fires
<1>8. m.flow \in Flows
  BY <1>1 DEF Typed, Outcomes
<1>9. Interrupted(w) <=> Interrupted(r.st) \/ Fires(p, r)
  <2>1. CASE Failing(r.st, r.status)
    BY <1>7, <2>1 DEF Checks, Interrupted
  <2>2. CASE ~Failing(r.st, r.status)
    BY <1>2, <1>7, <2>2 DEF Checks, Interrupted, Alike, has_pending_flow_control
  <2> QED
    BY <2>1, <2>2
<1>10. Interrupted(w) <=> m.flow # "none"
  BY <1>9, StopsAsMeant
<1>11. ~Fires(p, o)
  <2>1. CASE m.flow = "none"
    <3>1. ~Fires(p, r) /\ ~Interrupted(r.st)
      BY <1>1, <2>1 DEF Ends, NormalEnd
    <3>2. r.status = 0 \/ ~r.st.errexit \/ r.st.errexit_ignored
      BY <1>7, <3>1 DEF Failing
    <3> QED
      BY <1>0, <1>2, <3>2 DEF Fires, Failing, Alike
  <2>2. CASE m.flow # "none"
    BY <1>0, <1>10, <2>2 DEF Fires, Failing
  <2> QED
    BY <2>1, <2>2
<1>12. m.flow = "exit" => w.should_exit /\ w.exit_status = m.status
  <2>1. CASE Fires(p, r)
    <3>1. w.should_exit /\ w.exit_status = r.status
      BY <1>7, <2>1 DEF Checks
    <3>2. ~r.st.should_exit
      BY <2>1 DEF Fires, Failing, Interrupted
    <3> QED
      BY <1>1, <3>1, <3>2 DEF Ends, ExitEnd
  <2>2. CASE ~Fires(p, r)
    BY <1>1, <1>7, <2>2 DEF Ends, ExitEnd, Checks
  <2> QED
    BY <2>1, <2>2
<1>13. Given(p, r, m) => Given(p, o, m)
  BY <1>0, <1>2 DEF Given, Alike
<1>14. NormalEnd(p, o, m)
  BY <1>0, <1>1, <1>10, <1>11 DEF Ends, NormalEnd
<1>15. ExitEnd(p, o, m)
  BY <1>0, <1>1, <1>2, <1>12, <1>13 DEF Ends, ExitEnd, Alike
<1>16. m.flow \in {"return", "break", "continue"} => w.should_exit = r.st.should_exit
  <2>1. ASSUME m.flow \in {"return", "break", "continue"} PROVE ~Failing(r.st, r.status)
    <3>1. Interrupted(r.st)
      <4>1. CASE m.flow = "return"
        BY <1>1, <4>1 DEF Ends, ReturnEnd, Interrupted, has_pending_flow_control
      <4>2. CASE m.flow \in {"break", "continue"}
        <5>1. JumpEnd(p, r, m) /\ p.loops \in Nat
          BY <1>1 DEF Ends, PlaceSet
        <5> QED
          BY <4>2, <5>1 DEF JumpEnd, Interrupted, has_pending_flow_control
      <4> QED
        BY <2>1, <4>1, <4>2
    <3> QED
      BY <3>1 DEF Failing
  <2> QED
    BY <2>1 DEF Checks
<1>17. ReturnEnd(p, o, m)
  <2>1. ReturnEnd(p, r, m)
    BY <1>1 DEF Ends
  <2>2. CASE m.flow = "return"
    <3>1. /\ o.st.return_requested /\ o.st.return_status = m.status
          /\ o.st.break_levels = 0 /\ o.st.continue_levels = 0
          /\ p.returns # "none"
          /\ p.returns = "exact" => o.status = m.status
      BY <1>0, <1>2, <2>1, <2>2 DEF ReturnEnd, Alike
    <3>2. p.mode # "off" => Given(p, o, m)
      BY <1>13, <2>1, <2>2 DEF ReturnEnd
    <3>3. ASSUME o.st.should_exit
          PROVE  p.mode = "live" /\ o.st.errexit /\ o.st.exit_status = m.status /\ m.status # 0
      <4>1. r.st.should_exit
        BY <1>0, <1>16, <2>2, <3>3
      <4>2. w.exit_status = r.st.exit_status
        BY <2>2, <4>1 DEF Checks, Failing, Interrupted
      <4> QED
        BY <1>0, <1>2, <2>1, <2>2, <4>1, <4>2 DEF ReturnEnd, Alike
    <3> QED
      BY <2>2, <3>1, <3>2, <3>3 DEF ReturnEnd
  <2> QED
    BY <2>2 DEF ReturnEnd
<1>18. JumpEnd(p, o, m)
  BY <1>0, <1>1, <1>2, <1>16 DEF Ends, JumpEnd, Alike
<1>19. Agrees(p, v, s, o, m)
  BY <1>3, <1>4, <1>5, <1>14, <1>15, <1>17, <1>18 DEF Agrees, Ends
<1> QED
  BY <1>10, <1>12, <1>19 DEF o

-----------------------------------------------------------------------------
(* Parts of commands.                                                      *)

(* The parts of a command agree with their meaning, if calls do.           *)
LEMMA PartAgrees ==
  ASSUME NEW f, NEW g, Good(f, g), NEW q \in Places, NEW v \in States,
         NEW c \in Contexts, NEW s \in Stores, Enters(q, v, c, s), Clear(q, v)
  PROVE  Agrees(q, v, s, Part(f, v, q.node), PartMeans(g, c, s, q.node))
<1> DEFINE x == Call(q.node, 0, v, 0)
           y == Task(q.node, 0, c, s, Normal(s, 0))
<1>1. q.node \in Commands
  BY PlacesAssumption DEF PlaceSet
<1>2. Normal(s, 0) \in Outcomes
  BY DEF Normal, Outcome, Outcomes, Flows
<1>3. /\ x \in Calls /\ x.node = q.node /\ x.at = 0 /\ x.st = v
  BY <1>1 DEF Call, Calls
<1>4. /\ y \in Tasks /\ y.node = q.node /\ y.at = 0 /\ y.c = c /\ y.s = s
      /\ y.last = Normal(s, 0)
  BY <1>1, <1>2 DEF Task, Tasks
<1>5. Part(f, v, q.node) = f[x] /\ PartMeans(g, c, s, q.node) = g[y]
  BY DEF Part, PartMeans
<1> HIDE DEF x, y
<1>6. Related(q, x, y)
  BY <1>3, <1>4 DEF Related, Starts
<1>7. Agrees(q, x.st, y.s, f[x], g[y])
  BY <1>3, <1>4, <1>6 DEF Good
<1> QED
  BY <1>3, <1>4, <1>5, <1>7

(* So does a list or a loop that goes on.                                  *)
LEMMA RestAgrees ==
  ASSUME NEW f, NEW g, Good(f, g), NEW p \in Places, NEW at \in Nat \ {0}, NEW v \in States,
         NEW status \in Nat, NEW c \in Contexts, NEW s \in Stores, NEW last \in Outcomes,
         last.flow = "none", last.s = s, last.status = status,
         Enters(p, v, c, s), GoesOn(p, at, v, status)
  PROVE  Agrees(p, v, s, f[Call(p.node, at, v, status)], g[Task(p.node, at, c, s, last)])
<1> DEFINE x == Call(p.node, at, v, status)
           y == Task(p.node, at, c, s, last)
<1>1. p.node \in Commands
  BY PlacesAssumption DEF PlaceSet
<1>3. x \in Calls /\ x.node = p.node /\ x.at = at /\ x.st = v /\ x.status = status
  BY <1>1 DEF Call, Calls
<1>4. y \in Tasks /\ y.node = p.node /\ y.at = at /\ y.c = c /\ y.s = s /\ y.last = last
  BY <1>1 DEF Task, Tasks
<1> HIDE DEF x, y
<1>5. Resumes(p, x, y)
  BY <1>3, <1>4 DEF Resumes
<1>6. Related(p, x, y)
  BY <1>3, <1>4, <1>5 DEF Related
<1>7. Agrees(p, x.st, y.s, f[x], g[y])
  BY <1>3, <1>4, <1>6 DEF Good
<1> QED
  BY <1>3, <1>4, <1>7 DEF x, y

(* What is true of the rest of a command is true of the command.           *)
LEMMA Chained ==
  ASSUME NEW p, NEW v, NEW w, NEW s, NEW t, NEW r, NEW m,
         Agrees(p, w, t, r, m),
         w.loop_depth = v.loop_depth, w.function_depth = v.function_depth,
         p.mode = "off" => t.errexit = s.errexit,
         ~p.tail /\ ~v.errexit_ignored => ~w.errexit_ignored \/ p.node.kind = "brace"
  PROVE  Agrees(p, v, s, r, m)
<1>1. Typed(r, m) /\ Keeps(p, w, t, r, m) /\ Tidy(p, w, r, m) /\ Ends(p, r, m)
  BY DEF Agrees
<1>2. Keeps(p, v, s, r, m)
  BY <1>1 DEF Keeps
<1>3. Tidy(p, v, r, m)
  BY <1>1 DEF Tidy
<1> QED
  BY <1>1, <1>2, <1>3 DEF Agrees

(* A place that allows no more than p does.                                *)
Narrower(q, p) ==
  /\ q.mode = p.mode
  /\ q.returns # "none" => p.returns # "none"
  /\ p.returns = "exact" => q.returns # "any"
  /\ q.exits # "none" => p.exits # "none"
  /\ p.exits = "exact" => q.exits # "any"

(* What agrees in a narrower place agrees in a wider one, if no break or   *)
(* continue leads further than that place allows.                          *)
LEMMA Widened ==
  ASSUME NEW p \in PlaceSet, NEW q \in PlaceSet, Narrower(q, p), NEW v, NEW s, NEW r, NEW m,
         Agrees(q, v, s, r, m), Tidy(p, v, r, m),
         q.loops <= p.loops \/ m.flow \notin {"break", "continue"}
  PROVE  Agrees(p, v, s, r, m)
<1>1. Typed(r, m) /\ Keeps(q, v, s, r, m) /\ Ends(q, r, m)
  BY DEF Agrees
<1>2. p.loops \in Nat /\ q.loops \in Nat /\ q.mode = p.mode
  BY DEF PlaceSet, Narrower
<1>3. Keeps(p, v, s, r, m)
  BY <1>1, <1>2 DEF Keeps
<1>4. Given(q, r, m) <=> Given(p, r, m)
  BY <1>2 DEF Given
<1>5. Fires(q, r) <=> Fires(p, r)
  BY <1>2 DEF Fires
<1>6. NormalEnd(p, r, m)
  BY <1>1, <1>5 DEF Ends, NormalEnd
<1>7. q.returns \in {"none", "exact", "any"} /\ q.exits \in {"none", "exact", "any"}
  BY DEF PlaceSet
<1>8. ExitEnd(p, r, m)
  <2>1. m.flow = "exit" /\ p.exits = "exact" /\ p.mode = "off" => q.exits = "exact"
    BY <1>1, <1>2, <1>7 DEF Ends, ExitEnd, Narrower
  <2> QED
    BY <1>1, <1>2, <1>4, <1>5, <2>1 DEF Ends, ExitEnd, Narrower
<1>9. ReturnEnd(p, r, m)
  <2>1. m.flow = "return" /\ p.returns = "exact" => q.returns = "exact"
    BY <1>1, <1>7 DEF Ends, ReturnEnd, Narrower
  <2>2. m.flow = "return" => p.returns # "none"
    BY <1>1 DEF Ends, ReturnEnd, Narrower
  <2> QED
    BY <1>1, <1>2, <1>4, <2>1, <2>2 DEF Ends, ReturnEnd
<1>10. JumpEnd(p, r, m)
  <2>1. ASSUME m.flow \in {"break", "continue"} PROVE m.levels \in 1 .. p.loops
    <3>1. m.levels \in 1 .. q.loops
      BY <1>1, <2>1 DEF Ends, JumpEnd
    <3> QED
      BY <1>2, <2>1, <3>1
  <2> QED
    BY <1>1, <2>1 DEF Ends, JumpEnd
<1> QED
  BY <1>1, <1>3, <1>6, <1>8, <1>9, <1>10 DEF Agrees, Ends

(* The command may be entered after part of it ended normally.             *)
LEMMA EntersNext ==
  ASSUME NEW p \in PlaceSet, NEW q \in PlaceSet, NEW v \in States, NEW w \in States,
         NEW c \in Contexts, NEW s \in Stores, NEW r, NEW m,
         Enters(p, v, c, s), Agrees(q, v, s, r, m), q.mode = "off" <=> p.mode = "off",
         Alike(w, r.st), ~Interrupted(w)
  PROVE  /\ Enters(p, w, c, m.s) /\ m.s \in Stores
         /\ w.loop_depth = v.loop_depth /\ w.function_depth = v.function_depth
         /\ p.mode = "off" => m.s.errexit = s.errexit
<1>1. Keeps(q, v, s, r, m) /\ m.s \in Stores
  BY DEF Agrees, Typed, Outcomes
<1>2. /\ w.ran = m.s.ran /\ w.fuel = m.s.fuel
      /\ w.loop_depth = v.loop_depth /\ w.function_depth = v.function_depth
      /\ p.mode = "off" => ~w.errexit /\ m.s.errexit = s.errexit
      /\ p.mode # "off" => w.errexit = m.s.errexit
  BY <1>1 DEF Keeps, Alike
<1>3. ModeFits(p, w, c, m.s)
  BY <1>2 DEF Enters, ModeFits
<1> QED
  BY <1>1, <1>2, <1>3 DEF Enters

-----------------------------------------------------------------------------
(* Simple commands.                                                        *)
PlaceOf(p) ==
  /\ p \in PlaceSet /\ p.node \in Commands /\ Formed(p.node)
  /\ p.loops \in Nat /\ p.mode \in {"live", "operand", "off"}
  /\ p.mode = "operand" => p.node.kind \in SimpleKinds

(* A command of a script stands in a place and fits it.                    *)
LEMMA PlacesAre == \A p \in Places : PlaceOf(p) /\ Fits(p)
<1>1. ASSUME NEW p \in Places PROVE PlaceOf(p) /\ Fits(p)
  <2>1. p \in PlaceSet /\ Fits(p) /\ (p.mode = "operand" => p.node.kind \in SimpleKinds)
    BY PlacesAssumption
  <2>2. p.node \in Commands /\ p.loops \in Nat /\ p.mode \in {"live", "operand", "off"}
    BY <2>1 DEF PlaceSet
  <2>3. Formed(p.node)
    BY <2>2, CommandsAssumption
  <2> QED
    BY <2>1, <2>2, <2>3 DEF PlaceOf
<1> QED
  BY <1>1

(* A simple command that only has a status.                                *)
LEMMA StatusAgrees ==
  ASSUME NEW p, PlaceOf(p), NEW v \in States, NEW w \in States,
         NEW c \in Contexts, NEW s \in Stores, NEW t \in Stores, NEW status \in Nat,
         ModeFits(p, w, c, t), Clear(p, w), ~Interrupted(w), p.node.kind # "brace",
         w.ran = t.ran, w.fuel = t.fuel, p.mode = "off" => t.errexit = s.errexit,
         w.loop_depth = v.loop_depth, w.function_depth = v.function_depth,
         ~p.tail /\ ~v.errexit_ignored => ~w.errexit_ignored
  PROVE  Agrees(p, v, s, Result(w, status), Checked(c, t, status))
<1> DEFINE r == Result(w, status)
           m == Checked(c, t, status)
           ends == status # 0 /\ t.errexit /\ ~c.ignoring
<1>1. r.st = w /\ r.status = status
  BY DEF Result
<1>2. /\ m \in Outcomes /\ m.s = t /\ m.status = status
      /\ m.flow = IF ends THEN "exit" ELSE "none"
  BY DEF Checked, Normal, Outcome, Outcomes, Flows
<1> HIDE DEF r, m
<1>3. Typed(r, m)
  BY <1>1, <1>2 DEF Typed
<1>5. Keeps(p, v, s, r, m)
  BY <1>1, <1>2 DEF Keeps, ModeFits, PlaceOf
<1>7. Fires(p, r) <=> p.mode = "live" /\ ends
  <2>1. p.mode = "live" => ~w.errexit_ignored /\ ~c.ignoring /\ t.errexit = w.errexit
    BY DEF Clear, ModeFits
  <2> QED
    BY <1>1, <2>1 DEF Fires, Failing
<1>8. ends => p.mode = "live"
  BY DEF PlaceOf, ModeFits
<1>9. NormalEnd(p, r, m)
  BY <1>1, <1>2, <1>7 DEF NormalEnd
<1>10. ExitEnd(p, r, m)
  <2>1. ~w.return_requested
    BY DEF Interrupted, has_pending_flow_control
  <2> QED
    BY <1>1, <1>2, <1>7, <1>8, <2>1 DEF ExitEnd, Given
<1>11. ReturnEnd(p, r, m) /\ JumpEnd(p, r, m)
  BY <1>2 DEF ReturnEnd, JumpEnd
<1>12. Tidy(p, v, r, m)
  BY <1>1 DEF Tidy
<1> QED
  BY <1>3, <1>5, <1>9, <1>10, <1>11, <1>12 DEF Agrees, Ends, r, m

(* Every simple command does what it means.                                *)
LEMMA SimpleAgrees ==
  ASSUME NEW p \in Places, p.node.kind \in SimpleKinds, NEW v \in States,
         NEW c \in Contexts, NEW s \in Stores, Enters(p, v, c, s), Clear(p, v)
  PROVE  Agrees(p, v, s, Simple(v, p.node), Leaf(c, s, p.node))
<1> DEFINE node == p.node
           done == [v EXCEPT !.ran = Append(@, node)]
           meant == [s EXCEPT !.ran = Append(@, node)]
<1>1. PlaceOf(p) /\ LeafFits(p) /\ Formed(node) /\ node \in Commands /\ node.kind # "brace"
  BY PlacesAre DEF Fits, PlaceOf, SimpleKinds
<1>2. /\ ModeFits(p, v, c, s) /\ ~Interrupted(v) /\ v.ran = s.ran /\ v.fuel = s.fuel
      /\ v.loop_depth >= p.loops /\ c.loops >= p.loops
      /\ p.returns # "none" => v.function_depth > 0
  BY DEF Enters
<1>3. Append(v.ran, node) \in Seq(Commands) /\ Append(s.ran, node) \in Seq(Commands)
  BY <1>1 DEF States, Stores
<1>4. /\ done \in States /\ done.ran = Append(s.ran, node)
      /\ done.should_exit = v.should_exit /\ done.exit_status = v.exit_status
      /\ done.errexit = v.errexit /\ done.errexit_ignored = v.errexit_ignored
      /\ done.break_levels = v.break_levels /\ done.continue_levels = v.continue_levels
      /\ done.return_requested = v.return_requested /\ done.return_status = v.return_status
      /\ done.loop_depth = v.loop_depth /\ done.function_depth = v.function_depth
      /\ done.fuel = v.fuel
  BY <1>2, <1>3 DEF States
<1>5. /\ meant \in Stores /\ meant.ran = Append(s.ran, node)
      /\ meant.fuel = s.fuel /\ meant.errexit = s.errexit
  BY <1>3 DEF Stores
<1>6. ~Interrupted(done)
  BY <1>2, <1>4 DEF Interrupted, has_pending_flow_control
<1>7. ModeFits(p, done, c, meant) /\ Clear(p, done)
  BY <1>2, <1>4, <1>5 DEF ModeFits, Clear
<1>8. v.break_levels = 0 /\ v.continue_levels = 0 /\ ~v.return_requested /\ ~v.should_exit
  BY <1>2 DEF Interrupted, has_pending_flow_control, States
<1> HIDE DEF done, meant
<1>10. ASSUME node.kind = "empty"
       PROVE  Agrees(p, v, s, Simple(v, node), Leaf(c, s, node))
  <2>1. Simple(v, node) = Result(v, 0)
    BY <1>10 DEF Simple
  <2>2. Leaf(c, s, node) = Checked(c, s, 0)
    BY <1>10 DEF Leaf, Checked
  <2>3. 0 \in Nat
    OBVIOUS
  <2> QED
    BY <1>1, <1>2, <2>1, <2>2, <2>3, StatusAgrees
<1>11. ASSUME node.kind = "utility"
       PROVE  Agrees(p, v, s, Simple(v, node), Leaf(c, s, node))
  <2>1. Simple(v, node) = Result(done, node.status)
    BY <1>11 DEF Simple, done
  <2>2. Leaf(c, s, node) = Checked(c, meant, node.status)
    BY <1>11 DEF Leaf, meant
  <2>3. node.status \in Nat
    BY <1>1, <1>11 DEF Formed
  <2> QED
    BY <1>1, <1>2, <1>4, <1>5, <1>6, <1>7, <2>1, <2>2, <2>3, StatusAgrees
<1>12. ASSUME node.kind = "pipeline"
       PROVE  Agrees(p, v, s, Simple(v, node), Leaf(c, s, node))
  <2> DEFINE w == [done EXCEPT !.errexit_ignored = FALSE]
  <2>1. Simple(v, node) = Result(w, node.status)
    BY <1>12 DEF Simple, done
  <2>2. Leaf(c, s, node) = Checked(c, meant, node.status)
    BY <1>12 DEF Leaf, meant
  <2>3. node.status \in Nat
    BY <1>1, <1>12 DEF Formed
  <2>4. /\ w \in States /\ ~w.errexit_ignored /\ w.ran = done.ran /\ w.fuel = done.fuel
        /\ w.errexit = done.errexit /\ w.loop_depth = done.loop_depth
        /\ w.function_depth = done.function_depth /\ w.should_exit = done.should_exit
        /\ w.break_levels = done.break_levels /\ w.continue_levels = done.continue_levels
        /\ w.return_requested = done.return_requested
    BY <1>4 DEF States
  <2> HIDE DEF w
  <2>5. ~Interrupted(w) /\ ModeFits(p, w, c, meant) /\ Clear(p, w)
    BY <1>6, <1>7, <2>4 DEF Interrupted, has_pending_flow_control, ModeFits, Clear
  <2> QED
    BY <1>1, <1>2, <1>4, <1>5, <2>1, <2>2, <2>3, <2>4, <2>5, StatusAgrees
<1>13. ASSUME node.kind = "count"
       PROVE  Agrees(p, v, s, Simple(v, node), Leaf(c, s, node))
  <2> DEFINE w == [done EXCEPT !.fuel = @ - 1]
             t == [meant EXCEPT !.fuel = @ - 1]
  <2>1. ASSUME v.fuel > 0 PROVE Agrees(p, v, s, Simple(v, node), Leaf(c, s, node))
    <3>1. Simple(v, node) = Result(w, 0)
      BY <1>13, <2>1 DEF Simple, done
    <3>2. Leaf(c, s, node) = Checked(c, t, 0)
      BY <1>2, <1>13, <2>1 DEF Leaf, Checked, meant
    <3>3. done.fuel - 1 \in Nat /\ meant.fuel = done.fuel
      BY <1>2, <1>4, <1>5, <2>1 DEF States
    <3>4. /\ w \in States /\ w.errexit_ignored = done.errexit_ignored /\ w.ran = done.ran
          /\ w.fuel = done.fuel - 1
          /\ w.errexit = done.errexit /\ w.loop_depth = done.loop_depth
          /\ w.function_depth = done.function_depth /\ w.should_exit = done.should_exit
          /\ w.break_levels = done.break_levels /\ w.continue_levels = done.continue_levels
          /\ w.return_requested = done.return_requested
      BY <1>4, <3>3 DEF States
    <3>5. t \in Stores /\ t.ran = meant.ran /\ t.fuel = done.fuel - 1 /\ t.errexit = meant.errexit
      BY <1>5, <3>3 DEF Stores
    <3> HIDE DEF w, t
    <3>6. ~Interrupted(w) /\ ModeFits(p, w, c, t) /\ Clear(p, w)
      BY <1>6, <1>7, <3>4, <3>5 DEF Interrupted, has_pending_flow_control, ModeFits, Clear
    <3>7. 0 \in Nat
      OBVIOUS
    <3> QED
      BY <1>1, <1>2, <1>4, <1>5, <3>1, <3>2, <3>4, <3>5, <3>6, <3>7, StatusAgrees
  <2>2. ASSUME ~(v.fuel > 0) PROVE Agrees(p, v, s, Simple(v, node), Leaf(c, s, node))
    <3>1. Simple(v, node) = Result(done, 1)
      BY <1>13, <2>2 DEF Simple, done
    <3>2. Leaf(c, s, node) = Checked(c, meant, 1)
      BY <1>2, <1>13, <2>2 DEF Leaf, meant
    <3>3. 1 \in Nat
      OBVIOUS
    <3> QED
      BY <1>1, <1>2, <1>4, <1>5, <1>6, <1>7, <3>1, <3>2, <3>3, StatusAgrees
  <2> QED
    BY <2>1, <2>2
<1>14. ASSUME node.kind = "set_e"
       PROVE  Agrees(p, v, s, Simple(v, node), Leaf(c, s, node))
  <2> DEFINE w == [done EXCEPT !.errexit = node.on]
             t == [meant EXCEPT !.errexit = node.on]
  <2>1. Simple(v, node) = Result(w, 0)
    BY <1>14 DEF Simple, done
  <2>2. Leaf(c, s, node) = Checked(c, t, 0)
    BY <1>14 DEF Leaf, Checked, meant
  <2>3. node.on \in BOOLEAN /\ p.mode # "off"
    BY <1>1, <1>14 DEF Formed, LeafFits
  <2>4. /\ w \in States /\ w.errexit_ignored = done.errexit_ignored /\ w.ran = done.ran
        /\ w.fuel = done.fuel
        /\ w.errexit = node.on /\ w.loop_depth = done.loop_depth
        /\ w.function_depth = done.function_depth /\ w.should_exit = done.should_exit
        /\ w.break_levels = done.break_levels /\ w.continue_levels = done.continue_levels
        /\ w.return_requested = done.return_requested
    BY <1>4, <2>3 DEF States
  <2>5. t \in Stores /\ t.ran = meant.ran /\ t.fuel = meant.fuel /\ t.errexit = node.on
    BY <1>5, <2>3 DEF Stores
  <2> HIDE DEF w, t
  <2>6. ~Interrupted(w) /\ ModeFits(p, w, c, t) /\ Clear(p, w)
    BY <1>6, <1>7, <2>3, <2>4, <2>5 DEF Interrupted, has_pending_flow_control, ModeFits, Clear
  <2>7. 0 \in Nat
    OBVIOUS
  <2> QED
    BY <1>1, <1>2, <1>4, <1>5, <2>1, <2>2, <2>3, <2>4, <2>5, <2>6, <2>7, StatusAgrees
<1>15. ASSUME node.kind \in {"break", "continue"}
       PROVE  Agrees(p, v, s, Simple(v, node), Leaf(c, s, node))
  <2> DEFINE w == IF node.kind = "continue"
                  THEN [done EXCEPT !.continue_levels = node.levels, !.break_levels = 0]
                  ELSE [done EXCEPT !.break_levels = node.levels, !.continue_levels = 0]
             r == Result(w, 0)
             m == Outcome(meant, 0, node.kind, node.levels)
  <2>1. node.levels \in 1 .. p.loops
    BY <1>1, <1>15 DEF Formed, LeafFits, PlaceOf
  <2>2. v.loop_depth # 0 /\ Least(node.levels, c.loops) = node.levels
    BY <1>1, <1>2, <2>1 DEF Least, States, Contexts, PlaceOf
  <2>3. Simple(v, node) = r
    BY <1>4, <1>15, <2>2 DEF Simple, done, builtin_break_or_continue
  <2>4. Leaf(c, s, node) = m
    BY <1>15, <2>2 DEF Leaf, meant
  <2>5. node.levels \in Nat
    BY <2>1
  <2>6. /\ w \in States /\ w.errexit_ignored = done.errexit_ignored /\ w.ran = done.ran
        /\ w.fuel = done.fuel
        /\ w.errexit = done.errexit /\ w.loop_depth = done.loop_depth
        /\ w.function_depth = done.function_depth /\ w.should_exit = done.should_exit
        /\ w.return_requested = done.return_requested
        /\ w.break_levels = IF node.kind = "break" THEN node.levels ELSE 0
        /\ w.continue_levels = IF node.kind = "break" THEN 0 ELSE node.levels
    <3>1. CASE node.kind = "continue"
      BY <1>4, <2>5, <3>1 DEF States
    <3>2. CASE node.kind = "break"
      BY <1>4, <2>5, <3>2 DEF States
    <3> QED
      BY <1>15, <3>1, <3>2
  <2>7. r.st = w /\ r.status = 0
    BY DEF Result
  <2>8. m \in Outcomes /\ m.s = meant /\ m.status = 0 /\ m.flow = node.kind /\ m.levels = node.levels
    BY <1>5, <1>15, <2>5 DEF Outcome, Outcomes, Flows
  <2> HIDE DEF w, r, m
  <2>9. Typed(r, m)
    BY <2>6, <2>7, <2>8 DEF Typed
  <2>10. Keeps(p, v, s, r, m)
    BY <1>1, <1>4, <1>5, <1>7, <2>6, <2>7, <2>8, <1>2 DEF Keeps, ModeFits, PlaceOf
  <2>11. Tidy(p, v, r, m)
    BY <1>1, <1>4, <2>6, <2>7 DEF Tidy
  <2>12. JumpEnd(p, r, m)
    BY <1>4, <1>8, <2>1, <2>6, <2>7, <2>8 DEF JumpEnd
  <2>13. NormalEnd(p, r, m) /\ ExitEnd(p, r, m) /\ ReturnEnd(p, r, m)
    BY <1>15, <2>8 DEF NormalEnd, ExitEnd, ReturnEnd
  <2> QED
    BY <2>3, <2>4, <2>9, <2>10, <2>11, <2>12, <2>13 DEF Agrees, Ends
<1>16. ASSUME node.kind = "return"
       PROVE  Agrees(p, v, s, Simple(v, node), Leaf(c, s, node))
  <2> DEFINE w == [done EXCEPT !.return_requested = TRUE, !.return_status = node.status]
             r == Result(w, node.status)
             m == Outcome(meant, node.status, node.kind, 0)
  <2>1. node.status \in Nat /\ p.returns # "none"
    BY <1>1, <1>16 DEF Formed, LeafFits
  <2>2. done.function_depth # 0
    BY <1>2, <1>4, <2>1 DEF States
  <2>3. Simple(v, node) = r
    BY <1>16, <2>2 DEF Simple, done, builtin_return
  <2>4. Leaf(c, s, node) = m
    BY <1>16 DEF Leaf, meant
  <2>6. /\ w \in States /\ w.errexit_ignored = done.errexit_ignored /\ w.ran = done.ran
        /\ w.fuel = done.fuel
        /\ w.errexit = done.errexit /\ w.loop_depth = done.loop_depth
        /\ w.function_depth = done.function_depth /\ w.should_exit = done.should_exit
        /\ w.break_levels = done.break_levels /\ w.continue_levels = done.continue_levels
        /\ w.return_requested /\ w.return_status = node.status
    BY <1>4, <2>1 DEF States
  <2>7. r.st = w /\ r.status = node.status
    BY DEF Result
  <2>8. m \in Outcomes /\ m.s = meant /\ m.status = node.status /\ m.flow = "return"
    BY <1>5, <1>16, <2>1 DEF Outcome, Outcomes, Flows
  <2> HIDE DEF w, r, m
  <2>9. Typed(r, m)
    BY <2>1, <2>6, <2>7, <2>8 DEF Typed
  <2>10. Keeps(p, v, s, r, m)
    BY <1>1, <1>4, <1>5, <1>7, <2>6, <2>7, <2>8, <1>2 DEF Keeps, ModeFits, PlaceOf
  <2>11. Tidy(p, v, r, m)
    BY <1>1, <1>4, <2>6, <2>7 DEF Tidy
  <2>12. ReturnEnd(p, r, m)
    BY <1>4, <1>8, <2>1, <2>6, <2>7, <2>8 DEF ReturnEnd, Given
  <2>13. NormalEnd(p, r, m) /\ ExitEnd(p, r, m) /\ JumpEnd(p, r, m)
    BY <2>8 DEF NormalEnd, ExitEnd, JumpEnd
  <2> QED
    BY <2>3, <2>4, <2>9, <2>10, <2>11, <2>12, <2>13 DEF Agrees, Ends
<1>17. ASSUME node.kind = "exit"
       PROVE  Agrees(p, v, s, Simple(v, node), Leaf(c, s, node))
  <2> DEFINE w == Exit(done, node.status)
             r == Result(w, node.status)
             m == Outcome(meant, node.status, node.kind, 0)
  <2>1. node.status \in Nat /\ p.exits # "none"
    BY <1>1, <1>17 DEF Formed, LeafFits
  <2>3. Simple(v, node) = r
    BY <1>17 DEF Simple, done
  <2>4. Leaf(c, s, node) = m
    BY <1>17 DEF Leaf, meant
  <2>6. /\ w \in States /\ w.errexit_ignored = done.errexit_ignored /\ w.ran = done.ran
        /\ w.fuel = done.fuel
        /\ w.errexit = done.errexit /\ w.loop_depth = done.loop_depth
        /\ w.function_depth = done.function_depth
        /\ w.should_exit /\ w.exit_status = node.status
        /\ w.return_requested = done.return_requested
    BY <1>4, <2>1 DEF States, Exit
  <2>7. r.st = w /\ r.status = node.status
    BY DEF Result
  <2>8. m \in Outcomes /\ m.s = meant /\ m.status = node.status /\ m.flow = "exit"
    BY <1>5, <1>17, <2>1 DEF Outcome, Outcomes, Flows
  <2> HIDE DEF w, r, m
  <2>9. Typed(r, m)
    BY <2>1, <2>6, <2>7, <2>8 DEF Typed
  <2>10. Keeps(p, v, s, r, m)
    BY <1>1, <1>4, <1>5, <1>7, <2>6, <2>7, <2>8, <1>2 DEF Keeps, ModeFits, PlaceOf
  <2>11. Tidy(p, v, r, m)
    BY <1>1, <1>4, <2>6, <2>7 DEF Tidy
  <2>12. ExitEnd(p, r, m)
    BY <1>4, <1>8, <2>1, <2>6, <2>7, <2>8 DEF ExitEnd, Given
  <2>13. NormalEnd(p, r, m) /\ ReturnEnd(p, r, m) /\ JumpEnd(p, r, m)
    BY <2>8 DEF NormalEnd, ReturnEnd, JumpEnd
  <2> QED
    BY <2>3, <2>4, <2>9, <2>10, <2>11, <2>12, <2>13 DEF Agrees, Ends
<1> QED
  BY <1>10, <1>11, <1>12, <1>13, <1>14, <1>15, <1>16, <1>17 DEF SimpleKinds

-----------------------------------------------------------------------------
(* Sequences and the text of brace groups.                                 *)

(* An item of a list that stands where the list does.                      *)
LEMMA ItemPlaceIs ==
  ASSUME NEW p, PlaceOf(p), NEW item, NEW last \in BOOLEAN
  PROVE  LET q == ItemPlace(p, item, last)
         IN  /\ q.node = item /\ q.mode = p.mode /\ q.loops = p.loops /\ q.returns = p.returns
             /\ q.loops <= p.loops
             /\ Narrower(q, p) /\ (~p.tail => ~q.tail)
             /\ p.mode = "live" /\ ~last => ~q.tail
<1>1. p.loops \in Nat
  BY DEF PlaceOf
<1> QED
  BY <1>1 DEF ItemPlace, Place, Narrower, Before

(* AST_NODE_SEQUENCE means its items in order, from any of them on.        *)
LEMMA SequenceAgrees ==
  ASSUME NEW f, NEW g, Good(f, g), NEW p \in Places, p.node.kind = "sequence",
         NEW i \in 1 .. Len(p.node.items), NEW v \in States, NEW c \in Contexts,
         NEW s \in Stores, Enters(p, v, c, s), Clear(p, v)
  PROVE  Agrees(p, v, s, RunSequence(f, v, p.node, i), InOrder(g, c, s, p.node, i))
<1> DEFINE node == p.node
           n == Len(node.items)
           final == i = n
           q == ItemPlace(p, node.items[i], final)
           r == Part(f, v, node.items[i])
           m == PartMeans(g, c, s, node.items[i])
           w == maybe_trigger_errexit([r.st EXCEPT !.last_status = r.status], r.status)
           o == Result(w, r.status)
<1>1. PlaceOf(p) /\ SequenceFits(p) /\ node.items \in Seq(Commands)
  BY PlacesAre DEF Fits, PlaceOf, Formed, SimpleKinds, Lists
<1>2. q \in Places /\ q \in PlaceSet /\ p \in PlaceSet
  <2>1. q \in Places
    BY <1>1 DEF SequenceFits
  <2> QED
    BY <2>1, PlacesAssumption
<1>3. n \in Nat /\ i \in Nat /\ final \in BOOLEAN /\ (final <=> i = n)
  BY <1>1
<1> HIDE DEF final
<1>4. /\ q.node = node.items[i] /\ q.mode = p.mode /\ q.loops = p.loops /\ q.returns = p.returns
      /\ q.loops <= p.loops /\ Narrower(q, p) /\ (~p.tail => ~q.tail)
      /\ p.mode = "live" /\ i # n => ~q.tail
  BY <1>1, <1>3, ItemPlaceIs
<1>5. p.mode \in {"live", "off"}
  BY <1>1 DEF PlaceOf, SimpleKinds
<1> HIDE DEF q
<1>6. Enters(q, v, c, s) /\ Clear(q, v)
  BY <1>4 DEF Enters, ModeFits, Clear
<1>7. Agrees(q, v, s, r, m)
  BY <1>2, <1>4, <1>6, PartAgrees
<1>8. RunSequence(f, v, node, i) = IF Interrupted(w) \/ i = n THEN o
                                   ELSE f[Call(node, i + 1, w, r.status)]
  BY DEF RunSequence
<1>9. InOrder(g, c, s, node, i) = IF m.flow # "none" \/ i = n THEN m
                                  ELSE g[Task(node, i + 1, c, m.s, m)]
  BY DEF InOrder
<1> HIDE DEF r, m
<1>10. /\ r.st \in States /\ r.status \in Nat /\ m \in Outcomes
       /\ Tidy(q, v, r, m) /\ NormalEnd(q, r, m)
  BY <1>7 DEF Agrees, Typed, Ends
<1>11. Checks(w, r.st, r.status)
  BY <1>10, NotedChecks
<1> HIDE DEF w, o
<1>12. Agrees(q, v, s, o, m) /\ (Interrupted(w) <=> m.flow # "none")
  BY <1>2, <1>4, <1>5, <1>7, <1>11, CheckedAgrees DEF o
<1>13. w \in States /\ Alike(w, r.st)
  BY <1>11 DEF Checks
<1>14. ASSUME m.flow # "none" \/ i = n
       PROVE  Agrees(p, v, s, RunSequence(f, v, node, i), InOrder(g, c, s, node, i))
  <2>1. Tidy(p, v, o, m)
    BY <1>4, <1>12 DEF Agrees, Tidy
  <2>2. Agrees(p, v, s, o, m)
    BY <1>2, <1>4, <1>12, <2>1, Widened
  <2> QED
    BY <1>8, <1>9, <1>12, <1>14, <2>2
<1>15. ASSUME m.flow = "none", i # n
       PROVE  Agrees(p, v, s, RunSequence(f, v, node, i), InOrder(g, c, s, node, i))
  <2>1. ~Interrupted(w) /\ m.status = r.status
    BY <1>10, <1>12, <1>15 DEF NormalEnd
  <2>2. /\ Enters(p, w, c, m.s) /\ m.s \in Stores
        /\ w.loop_depth = v.loop_depth /\ w.function_depth = v.function_depth
        /\ p.mode = "off" => m.s.errexit = s.errexit
    BY <1>2, <1>4, <1>7, <1>13, <2>1, EntersNext
  <2>3. Clear(p, w)
    BY <1>4, <1>5, <1>10, <1>13, <1>15 DEF Clear, Tidy, Alike
  <2>4. i + 1 \in Nat \ {0} /\ i + 1 \in 2 .. n
    BY <1>3, <1>15
  <2>5. GoesOn(p, i + 1, w, r.status)
    BY <2>3, <2>4 DEF GoesOn, SequenceGoesOn
  <2> DEFINE r2 == f[Call(node, i + 1, w, r.status)]
             m2 == g[Task(node, i + 1, c, m.s, m)]
  <2>6. Agrees(p, w, m.s, r2, m2)
    BY <1>10, <1>13, <1>15, <2>1, <2>2, <2>4, <2>5, RestAgrees
  <2>7. ~p.tail /\ ~v.errexit_ignored => ~w.errexit_ignored
    BY <1>4, <1>10, <1>13, <1>15 DEF Tidy, Alike
  <2> HIDE DEF r2, m2
  <2>8. Agrees(p, v, s, r2, m2)
    BY <2>2, <2>6, <2>7, Chained
  <2> QED
    BY <1>8, <1>9, <1>15, <2>1, <2>8 DEF r2, m2
<1> QED
  BY <1>14, <1>15

(* The text executor looks at errexit even if the shell is already about   *)
(* to exit or to return.                                                   *)
LEMMA TextCheckedAgrees ==
  ASSUME NEW p \in PlaceSet, p.mode # "operand", NEW v, NEW s, NEW r, NEW m, NEW noted, NEW w,
         Agrees(p, v, s, r, m),
         noted = [r.st EXCEPT !.last_status = r.status],
         w = IF r.status # 0 /\ noted.errexit /\ ~noted.errexit_ignored
             THEN Exit(noted, r.status) ELSE noted
  PROVE  /\ Agrees(p, v, s, Result(w, r.status), m)
         /\ Interrupted(w) <=> m.flow # "none"
         /\ w \in States /\ Alike(w, r.st)
<1> DEFINE o == Result(w, r.status)
           fires == r.status # 0 /\ r.st.errexit /\ ~r.st.errexit_ignored
<1>0. o.st = w /\ o.status = r.status
  BY DEF Result
<1> HIDE DEF o
<1>1. Typed(r, m) /\ Keeps(p, v, s, r, m) /\ Tidy(p, v, r, m) /\ Ends(p, r, m)
  BY DEF Agrees
<1>2. /\ noted \in States /\ Alike(noted, r.st)
      /\ noted.should_exit = r.st.should_exit /\ noted.exit_status = r.st.exit_status
  BY <1>1 DEF Typed, States, Alike
<1>3. /\ Exit(noted, r.status) \in States /\ Alike(Exit(noted, r.status), noted)
      /\ Exit(noted, r.status).should_exit /\ Exit(noted, r.status).exit_status = r.status
  BY <1>1, <1>2 DEF Typed, States, Alike, Exit
<1>4. /\ w \in States /\ Alike(w, r.st)
      /\ fires => w.should_exit /\ w.exit_status = r.status
      /\ ~fires => w.should_exit = r.st.should_exit /\ w.exit_status = r.st.exit_status
  <2>1. noted.errexit = r.st.errexit /\ noted.errexit_ignored = r.st.errexit_ignored
    BY <1>2 DEF Alike
  <2>2. Alike(Exit(noted, r.status), r.st)
    BY <1>2, <1>3 DEF Alike
  <2>3. CASE fires
    BY <1>3, <2>1, <2>2, <2>3
  <2>4. CASE ~fires
    BY <1>2, <2>1, <2>4
  <2> QED
    BY <2>3, <2>4
<1>5. p.mode = "off" \/ p.mode = "live"
  BY DEF PlaceSet
<1>6. fires => p.mode = "live"
  BY <1>1, <1>5 DEF Keeps
<1>7. Fires(p, r) => fires
  BY DEF Fires, Failing
<1>8. m.flow \in {"none", "break", "continue", "return", "exit"}
  BY <1>1 DEF Typed, Outcomes, Flows
<1>9. Typed(o, m) /\ Keeps(p, v, s, o, m) /\ Tidy(p, v, o, m)
  BY <1>0, <1>1, <1>4 DEF Typed, Keeps, Tidy, Alike
<1>10. Given(p, r, m) => Given(p, o, m) /\ (fires => r.status = m.status)
  BY <1>0, <1>4, <1>6 DEF Given, Alike
<1> HIDE DEF fires
<1>11. ASSUME m.flow = "none" PROVE ~Interrupted(w) /\ Ends(p, o, m)
  <2>1. ~Interrupted(r.st) /\ ~Fires(p, r) /\ r.status = m.status
    BY <1>1, <1>11 DEF Ends, NormalEnd
  <2>2. ~fires
    BY <1>6, <2>1 DEF fires, Fires, Failing
  <2>3. ~Interrupted(w) /\ ~Fires(p, o)
    BY <1>0, <1>4, <2>1, <2>2 DEF Interrupted, has_pending_flow_control, Alike, Fires, Failing, fires
  <2> QED
    BY <1>0, <1>11, <2>1, <2>3 DEF Ends, NormalEnd, ExitEnd, ReturnEnd, JumpEnd
<1>12. ASSUME m.flow = "exit" PROVE Interrupted(w) /\ Ends(p, o, m)
  <2>1. ExitEnd(p, r, m)
    BY <1>1 DEF Ends
  <2>2. p.mode = "live" => Given(p, r, m)
    BY <1>12, <2>1 DEF ExitEnd
  <2>3. w.should_exit /\ w.exit_status = m.status
    <3>1. CASE fires
      BY <1>4, <1>6, <1>10, <2>2, <3>1
    <3>2. CASE ~fires
      BY <1>4, <1>7, <1>12, <2>1, <3>2 DEF ExitEnd
    <3> QED
      BY <3>1, <3>2
  <2>4. ExitEnd(p, o, m)
    BY <1>0, <1>4, <1>10, <2>1, <2>3 DEF ExitEnd, Alike
  <2> QED
    BY <1>12, <2>3, <2>4 DEF Ends, NormalEnd, ReturnEnd, JumpEnd, Interrupted
<1>13. ASSUME m.flow = "return" PROVE Interrupted(w) /\ Ends(p, o, m)
  <2>1. ReturnEnd(p, r, m)
    BY <1>1 DEF Ends
  <2>2. p.mode # "off" => Given(p, r, m)
    BY <1>13, <2>1 DEF ReturnEnd
  <2>3. /\ o.st.return_requested /\ o.st.return_status = m.status
        /\ o.st.break_levels = 0 /\ o.st.continue_levels = 0
        /\ p.returns # "none"
        /\ p.returns = "exact" => o.status = m.status
    BY <1>0, <1>4, <1>13, <2>1 DEF ReturnEnd, Alike
  <2>4. ASSUME o.st.should_exit
        PROVE  p.mode = "live" /\ o.st.errexit /\ o.st.exit_status = m.status /\ m.status # 0
    <3>1. CASE fires
      <4>1. p.mode = "live" /\ r.status = m.status /\ w.exit_status = r.status
        BY <1>4, <1>6, <1>10, <2>2, <3>1
      <4> QED
        BY <1>0, <1>4, <3>1, <4>1 DEF fires, Alike
    <3>2. CASE ~fires
      <4>1. r.st.should_exit /\ w.exit_status = r.st.exit_status
        BY <1>0, <1>4, <2>4, <3>2
      <4> QED
        BY <1>0, <1>4, <1>13, <2>1, <4>1 DEF ReturnEnd, Alike
    <3> QED
      BY <3>1, <3>2
  <2>5. ReturnEnd(p, o, m)
    BY <1>10, <1>13, <2>2, <2>3, <2>4 DEF ReturnEnd
  <2>6. Interrupted(w)
    BY <1>0, <2>3 DEF Interrupted, has_pending_flow_control
  <2> QED
    BY <1>13, <2>5, <2>6 DEF Ends, NormalEnd, ExitEnd, JumpEnd
<1>14. ASSUME m.flow \in {"break", "continue"} PROVE Interrupted(w) /\ Ends(p, o, m)
  <2>1. JumpEnd(p, r, m)
    BY <1>1 DEF Ends
  <2>2. ~fires
    BY <1>14, <2>1 DEF JumpEnd, fires
  <2>3. JumpEnd(p, o, m)
    BY <1>0, <1>4, <2>1, <2>2 DEF JumpEnd, Alike
  <2>4. p.loops \in Nat
    BY DEF PlaceSet
  <2>5. Interrupted(w)
    BY <1>0, <1>14, <2>3, <2>4 DEF JumpEnd, Interrupted, has_pending_flow_control
  <2> QED
    BY <1>14, <2>3, <2>5 DEF Ends, NormalEnd, ExitEnd, ReturnEnd
<1> QED
  BY <1>4, <1>8, <1>9, <1>11, <1>12, <1>13, <1>14 DEF Agrees, o

(* An item of a brace group stands where the group does, or where neither  *)
(* break nor return leads out of it.                                       *)
LEMMA TextPlace ==
  ASSUME NEW p \in Places, p.node.kind = "brace", NEW i \in 1 .. Len(p.node.items)
  PROVE  \E q \in Places :
           /\ q.node = p.node.items[i] /\ q.mode = p.mode /\ q.loops <= p.loops
           /\ q.returns # "none" => p.returns # "none"
           /\ Narrower(q, p)
           /\ \/ ~p.tail => ~q.tail
              \/ i # Len(p.node.items) /\ q.loops = 0 /\ q.returns = "none"
<1> DEFINE node == p.node
           final == i = Len(node.items)
           q == ItemPlace(p, node.items[i], final)
           e == EnclosedPlace(p, node.items[i])
<1>1. PlaceOf(p) /\ TextFits(p) /\ p.loops \in Nat
  BY PlacesAre DEF Fits, PlaceOf, SimpleKinds, Lists
<1>2. final \in BOOLEAN /\ (final <=> i = Len(node.items))
  OBVIOUS
<1>3. q \in Places \/ (i # Len(node.items) /\ e \in Places)
  BY <1>1 DEF TextFits
<1> HIDE DEF final
<1>4. q.node = node.items[i] /\ q.mode = p.mode /\ q.loops = p.loops /\ q.returns = p.returns
      /\ Narrower(q, p) /\ (~p.tail => ~q.tail)
  BY <1>1, <1>2, ItemPlaceIs
<1>5. /\ e.node = node.items[i] /\ e.mode = p.mode /\ e.loops = 0 /\ e.returns = "none"
      /\ 0 <= p.loops /\ Narrower(e, p)
  BY <1>1 DEF EnclosedPlace, Place, Narrower
<1> HIDE DEF q, e
<1>6. p.loops <= p.loops
  BY <1>1
<1>7. CASE q \in Places
  BY <1>4, <1>6, <1>7
<1>8. CASE i # Len(node.items) /\ e \in Places
  BY <1>5, <1>8
<1> QED
  BY <1>3, <1>7, <1>8

(* So does the text executor, whatever errexit_ignored was before.         *)
LEMMA TextAgrees ==
  ASSUME NEW f, NEW g, Good(f, g), NEW p \in Places, p.node.kind = "brace",
         NEW i \in 1 .. Len(p.node.items), NEW v \in States, NEW c \in Contexts,
         NEW s \in Stores, Enters(p, v, c, s)
  PROVE  Agrees(p, v, s, RunText(f, v, p.node, i), InOrder(g, c, s, p.node, i))
<1> DEFINE node == p.node
           n == Len(node.items)
           u == [v EXCEPT !.errexit_ignored = FALSE]
           r == Part(f, u, node.items[i])
           m == PartMeans(g, c, s, node.items[i])
           noted == [r.st EXCEPT !.last_status = r.status]
           w == IF r.status # 0 /\ noted.errexit /\ ~noted.errexit_ignored
                THEN Exit(noted, r.status) ELSE noted
           o == Result(w, r.status)
<1>1. PlaceOf(p) /\ node.items \in Seq(Commands) /\ p \in PlaceSet /\ p.loops \in Nat
  BY PlacesAre DEF PlaceOf, Formed, SimpleKinds, Lists
<1>2. PICK q \in Places :
           /\ q.node = node.items[i] /\ q.mode = p.mode /\ q.loops <= p.loops
           /\ q.returns # "none" => p.returns # "none"
           /\ Narrower(q, p)
           /\ \/ ~p.tail => ~q.tail
              \/ i # n /\ q.loops = 0 /\ q.returns = "none"
  BY TextPlace
<1>3. q \in PlaceSet /\ q.loops \in Nat
  BY PlacesAssumption DEF PlaceSet
<1>4. p.mode \in {"live", "off"}
  BY <1>1 DEF PlaceOf, SimpleKinds
<1>5. n \in Nat /\ i \in Nat
  BY <1>1
<1>6. /\ u \in States /\ ~u.errexit_ignored /\ u.ran = v.ran /\ u.fuel = v.fuel
      /\ u.errexit = v.errexit /\ u.loop_depth = v.loop_depth
      /\ u.function_depth = v.function_depth /\ u.should_exit = v.should_exit
      /\ u.break_levels = v.break_levels /\ u.continue_levels = v.continue_levels
      /\ u.return_requested = v.return_requested
      /\ v.loop_depth \in Int /\ c.loops \in Nat
  BY DEF States, Contexts
<1>7. RunText(f, v, node, i) = IF Interrupted(w) \/ i = n THEN o
                               ELSE f[Call(node, i + 1, w, r.status)]
  BY DEF RunText
<1>8. InOrder(g, c, s, node, i) = IF m.flow # "none" \/ i = n THEN m
                                  ELSE g[Task(node, i + 1, c, m.s, m)]
  BY DEF InOrder
<1> HIDE DEF u
<1>9. Enters(q, u, c, s) /\ Clear(q, u)
  <2>1. ~Interrupted(u)
    BY <1>6 DEF Enters, Interrupted, has_pending_flow_control
  <2>2. ModeFits(q, u, c, s)
    BY <1>2, <1>6 DEF Enters, ModeFits
  <2>3. u.loop_depth >= q.loops /\ c.loops >= q.loops
    BY <1>1, <1>2, <1>3, <1>6 DEF Enters
  <2> QED
    BY <1>2, <1>6, <2>1, <2>2, <2>3 DEF Enters, Clear
<1>10. Agrees(q, u, s, r, m)
  BY <1>2, <1>6, <1>9, PartAgrees
<1> HIDE DEF r, m
<1>11. /\ r.st \in States /\ r.status \in Nat /\ m \in Outcomes
       /\ Tidy(q, u, r, m) /\ NormalEnd(q, r, m) /\ Ends(q, r, m)
  BY <1>10 DEF Agrees, Typed, Ends
<1>12. /\ Agrees(q, u, s, o, m) /\ (Interrupted(w) <=> m.flow # "none")
       /\ w \in States /\ Alike(w, r.st)
  <2>1. q.mode # "operand"
    BY <1>2, <1>4
  <2> QED
    BY <1>3, <1>10, <2>1, TextCheckedAgrees
<1>13. o.st = w
  BY DEF Result
<1> HIDE DEF noted, w, o
<1>14. ASSUME m.flow # "none" \/ i = n
       PROVE  Agrees(p, v, s, RunText(f, v, node, i), InOrder(g, c, s, node, i))
  <2>1. Agrees(q, v, s, o, m)
    BY <1>6, <1>12, Chained
  <2>2. ASSUME m.flow # "exit", ~p.tail PROVE ~o.st.errexit_ignored
    <3>1. ~q.tail
      <4>1. ASSUME i # n, q.loops = 0, q.returns = "none" PROVE FALSE
        <5>1. m.flow \in {"break", "continue", "return"}
          BY <1>11, <1>14, <2>2, <4>1 DEF Outcomes, Flows
        <5>2. ReturnEnd(q, r, m) /\ JumpEnd(q, r, m)
          BY <1>11 DEF Ends
        <5>3. m.flow # "return"
          BY <4>1, <5>2 DEF ReturnEnd
        <5>4. m.levels \in 1 .. 0
          BY <4>1, <5>1, <5>2, <5>3 DEF JumpEnd
        <5> QED
          BY <5>4
      <4> QED
        BY <1>2, <2>2, <4>1
    <3> QED
      BY <1>6, <1>12, <2>2, <3>1 DEF Agrees, Tidy
  <2>3. Tidy(p, v, o, m)
    BY <2>2 DEF Tidy
  <2>4. Agrees(p, v, s, o, m)
    BY <1>1, <1>2, <1>3, <2>1, <2>3, Widened
  <2> QED
    BY <1>7, <1>8, <1>12, <1>14, <2>4
<1>15. ASSUME m.flow = "none", i # n
       PROVE  Agrees(p, v, s, RunText(f, v, node, i), InOrder(g, c, s, node, i))
  <2>1. ~Interrupted(w) /\ m.status = r.status
    BY <1>11, <1>12, <1>15 DEF NormalEnd
  <2>2. Agrees(q, v, s, o, m) /\ Alike(w, o.st)
    BY <1>6, <1>12, <1>13, Chained DEF Alike
  <2>3. /\ Enters(p, w, c, m.s) /\ m.s \in Stores
        /\ w.loop_depth = v.loop_depth /\ w.function_depth = v.function_depth
        /\ p.mode = "off" => m.s.errexit = s.errexit
    BY <1>1, <1>2, <1>3, <1>12, <2>1, <2>2, EntersNext
  <2>4. i + 1 \in Nat \ {0} /\ i + 1 \in 2 .. n
    BY <1>5, <1>15
  <2>5. GoesOn(p, i + 1, w, r.status)
    BY <2>4 DEF GoesOn, TextGoesOn
  <2> DEFINE r2 == f[Call(node, i + 1, w, r.status)]
             m2 == g[Task(node, i + 1, c, m.s, m)]
  <2>6. Agrees(p, w, m.s, r2, m2)
    BY <1>11, <1>12, <1>15, <2>1, <2>3, <2>4, <2>5, RestAgrees
  <2> HIDE DEF r2, m2
  <2>8. Agrees(p, v, s, r2, m2)
    BY <2>3, <2>6, Chained
  <2> QED
    BY <1>7, <1>8, <1>15, <2>1, <2>8 DEF r2, m2
<1> QED
  BY <1>14, <1>15

-----------------------------------------------------------------------------
(* And-or lists.                                                           *)

(* An operand that ends the list ends it where failures count, too.        *)
LEMMA Raised ==
  ASSUME NEW p \in PlaceSet, NEW q \in PlaceSet, p.mode = "live", q.mode = "operand",
         q.loops = p.loops, q.returns = p.returns, NEW v, NEW s, NEW r, NEW m,
         Agrees(q, v, s, r, m), m.flow # "none", Tidy(p, v, r, m)
  PROVE  Agrees(p, v, s, r, m)
<1>1. Typed(r, m) /\ Keeps(q, v, s, r, m) /\ Ends(q, r, m)
  BY DEF Agrees
<1>2. Keeps(p, v, s, r, m)
  BY <1>1 DEF Keeps
<1>3. Given(q, r, m) => Given(p, r, m)
  BY DEF Given
<1>4. ExitEnd(p, r, m)
  BY <1>1, <1>3 DEF Ends, ExitEnd, Fires
<1>5. ReturnEnd(p, r, m)
  BY <1>1, <1>3 DEF Ends, ReturnEnd
<1>6. JumpEnd(p, r, m) /\ NormalEnd(p, r, m)
  BY <1>1 DEF Ends, JumpEnd, NormalEnd
<1> QED
  BY <1>1, <1>2, <1>4, <1>5, <1>6 DEF Agrees, Ends

(* An operand other than the last: whether it ends the list, and what the  *)
(* list goes on with.                                                      *)
LEMMA OperandAgrees ==
  ASSUME NEW f, NEW g, Good(f, g), NEW p \in Places, p.node.kind = "andor",
         NEW k \in 1 .. Len(p.node.ops), NEW v \in States, NEW c \in Contexts,
         NEW s \in Stores, Enters(p, v, c, s), Clear(p, v),
         NEW r, r = Part(f, v, p.node.items[k]),
         NEW m, m = PartMeans(g, Ignoring(c), s, p.node.items[k])
  PROVE  /\ Typed(r, m) /\ (Interrupted(r.st) <=> m.flow # "none")
         /\ m.flow # "none" => Agrees(p, v, s, r, m)
         /\ m.flow = "none" =>
              /\ Enters(p, r.st, c, m.s) /\ Clear(p, r.st) /\ m.s \in Stores
              /\ r.status = m.status
              /\ r.st.loop_depth = v.loop_depth /\ r.st.function_depth = v.function_depth
              /\ p.mode = "off" => m.s.errexit = s.errexit
              /\ ~p.tail /\ ~v.errexit_ignored => ~r.st.errexit_ignored
<1> DEFINE q == OperandPlace(p, p.node.items[k])
           d == Ignoring(c)
<1>1. PlaceOf(p) /\ AndOrFits(p) /\ p \in PlaceSet /\ p.loops \in Nat
  BY PlacesAre DEF Fits, PlaceOf, SimpleKinds, Lists
<1>2. q \in Places /\ q \in PlaceSet
  <2>1. q \in Places
    BY <1>1 DEF AndOrFits
  <2> QED
    BY <2>1, PlacesAssumption
<1>3. p.mode \in {"live", "off"}
  BY <1>1 DEF PlaceOf, SimpleKinds
<1>4. /\ q.node = p.node.items[k] /\ q.loops = p.loops /\ q.returns = p.returns
      /\ q.exits = p.exits /\ q.tail = Before(p)
      /\ q.mode = IF p.mode = "off" THEN "off" ELSE "operand"
  BY DEF OperandPlace, Place, Aside
<1>5. d \in Contexts /\ d.ignoring /\ d.loops = c.loops
  BY DEF Ignoring, Contexts
<1>6. Before(p) => p.tail /\ p.mode = "off"
  BY DEF Before
<1> HIDE DEF q, d
<1>7. Enters(q, v, d, s) /\ Clear(q, v)
  <2>1. ModeFits(q, v, d, s)
    BY <1>3, <1>4, <1>5 DEF Enters, ModeFits
  <2> QED
    BY <1>4, <1>5, <2>1 DEF Enters, Clear
<1>8. Agrees(q, v, s, r, m)
  BY <1>2, <1>4, <1>5, <1>7, PartAgrees DEF d
<1>9. Typed(r, m) /\ Tidy(q, v, r, m) /\ Ends(q, r, m)
  BY <1>8 DEF Agrees
<1>10. Interrupted(r.st) <=> m.flow # "none"
  <2>1. ~Fires(q, r)
    BY <1>4 DEF Fires
  <2> QED
    BY <1>2, <1>8, <2>1, StopsAsMeant
<1>11. m.flow # "exit" /\ ~q.tail /\ ~v.errexit_ignored => ~r.st.errexit_ignored
  BY <1>9 DEF Tidy
<1>12. ASSUME m.flow # "none" PROVE Agrees(p, v, s, r, m)
  <2>1. Tidy(p, v, r, m)
    BY <1>1, <1>4, <1>6, <1>11 DEF Tidy
  <2>2. CASE p.mode = "live"
    BY <1>1, <1>2, <1>4, <1>8, <1>12, <2>1, <2>2, Raised
  <2>3. CASE p.mode = "off"
    <3>1. Narrower(q, p) /\ q.loops <= p.loops
      BY <1>1, <1>4, <2>3 DEF Narrower
    <3> QED
      BY <1>1, <1>2, <1>8, <2>1, <3>1, Widened
  <2> QED
    BY <1>3, <2>2, <2>3
<1>13. ASSUME m.flow = "none"
       PROVE  /\ Enters(p, r.st, c, m.s) /\ Clear(p, r.st) /\ m.s \in Stores
              /\ r.status = m.status
              /\ r.st.loop_depth = v.loop_depth /\ r.st.function_depth = v.function_depth
              /\ p.mode = "off" => m.s.errexit = s.errexit
              /\ ~p.tail /\ ~v.errexit_ignored => ~r.st.errexit_ignored
  <2>1. r.st \in States /\ Alike(r.st, r.st)
    BY <1>9 DEF Typed, Alike
  <2>2. q.mode = "off" <=> p.mode = "off"
    BY <1>4
  <2>3. ~Interrupted(r.st)
    BY <1>10, <1>13
  <2>4. /\ Enters(p, r.st, c, m.s) /\ m.s \in Stores
        /\ r.st.loop_depth = v.loop_depth /\ r.st.function_depth = v.function_depth
        /\ p.mode = "off" => m.s.errexit = s.errexit
    BY <1>1, <1>2, <1>8, <2>1, <2>2, <2>3, EntersNext
  <2>5. Clear(p, r.st)
    BY <1>4, <1>6, <1>11, <1>13 DEF Clear
  <2>6. ~p.tail /\ ~v.errexit_ignored => ~r.st.errexit_ignored
    BY <1>4, <1>6, <1>11, <1>13
  <2>7. r.status = m.status
    BY <1>9, <1>13 DEF Ends, NormalEnd
  <2> QED
    BY <2>4, <2>5, <2>6, <2>7
<1> QED
  BY <1>9, <1>10, <1>12, <1>13

(* An and-or list from its i-th operator on.                               *)
LEMMA AndOrAgrees ==
  ASSUME NEW f, NEW g, Good(f, g), NEW p \in Places, p.node.kind = "andor",
         NEW i \in 1 .. Len(p.node.ops), NEW v \in States, NEW status \in Nat,
         NEW c \in Contexts, NEW s \in Stores, NEW last \in Outcomes,
         last.flow = "none", last.s = s, last.status = status,
         Enters(p, v, c, s), AndOrGoesOn(p, i, v, status)
  PROVE  Agrees(p, v, s, RunAndOr(f, v, p.node, i, status), AndOr(g, c, p.node, i, last))
<1> DEFINE node == p.node
           n == Len(node.ops)
           r == Part(f, v, node.items[i + 1])
           skipped == IF node.ops[i] = "and" THEN [v EXCEPT !.errexit_ignored = TRUE] ELSE v
           Goal == Agrees(p, v, s, RunAndOr(f, v, node, i, status), AndOr(g, c, node, i, last))
<1>1. /\ PlaceOf(p) /\ AndOrFits(p) /\ p \in PlaceSet /\ p.loops \in Nat
      /\ node.ops \in Seq({"and", "or"}) /\ Len(node.items) = n + 1
  BY PlacesAre DEF Fits, PlaceOf, SimpleKinds, Lists, Formed
<1>2. n \in Nat /\ i \in Nat /\ node.ops[i] \in {"and", "or"}
  BY <1>1
<1>3. p.mode \in {"live", "off"}
  BY <1>1 DEF PlaceOf, SimpleKinds
<1>4. AndOrGoesOn(p, i, v, status)
  OBVIOUS
<1>5. ASSUME (node.ops[i] = "and") = (status = 0), i = n PROVE Goal
  <2> DEFINE m == PartMeans(g, c, s, node.items[i + 1])
             q == ItemPlace(p, node.items[n + 1], TRUE)
  <2>1. RunAndOr(f, v, node, i, status) = r
    BY <1>5 DEF RunAndOr
  <2>2. AndOr(g, c, node, i, last) = m
    BY <1>5 DEF AndOr
  <2>3. q \in Places /\ q \in PlaceSet
    <3>1. q \in Places
      BY <1>1 DEF AndOrFits
    <3> QED
      BY <3>1, PlacesAssumption
  <2>4. /\ q.node = node.items[i + 1] /\ q.mode = p.mode /\ q.loops = p.loops
        /\ q.loops <= p.loops
        /\ q.returns = p.returns /\ Narrower(q, p) /\ (~p.tail => ~q.tail)
    <3>1. node.items[n + 1] = node.items[i + 1]
      BY <1>5
    <3> QED
      BY <1>1, <3>1 DEF ItemPlace, Place, Narrower
  <2> HIDE DEF q
  <2>5. Clear(p, v)
    BY <1>2, <1>4, <1>5 DEF AndOrGoesOn, Clear
  <2>6. Enters(q, v, c, s) /\ Clear(q, v)
    BY <2>4, <2>5 DEF Enters, ModeFits, Clear
  <2>7. Agrees(q, v, s, r, m)
    BY <2>3, <2>4, <2>6, PartAgrees
  <2> HIDE DEF r, m
  <2>8. Tidy(p, v, r, m)
    BY <1>1, <2>4, <2>7 DEF Agrees, Tidy
  <2>9. Agrees(p, v, s, r, m)
    BY <1>1, <2>3, <2>4, <2>7, <2>8, Widened
  <2> QED
    BY <2>1, <2>2, <2>9
<1>6. ASSUME (node.ops[i] = "and") = (status = 0), i # n PROVE Goal
  <2> DEFINE m == PartMeans(g, Ignoring(c), s, node.items[i + 1])
             r2 == f[Call(node, i + 1, r.st, r.status)]
             m2 == g[Task(node, i + 1, c, m.s, m)]
  <2>1. RunAndOr(f, v, node, i, status) = IF Interrupted(r.st) THEN r ELSE r2
    BY <1>6 DEF RunAndOr
  <2>2. AndOr(g, c, node, i, last) = IF m.flow # "none" THEN m ELSE m2
    BY <1>6 DEF AndOr
  <2>3. i + 1 \in 1 .. n /\ i + 1 \in Nat \ {0}
    BY <1>2, <1>6
  <2>4. Clear(p, v)
    BY <1>2, <1>4, <1>6 DEF AndOrGoesOn, Clear
  <2>5. /\ Typed(r, m) /\ (Interrupted(r.st) <=> m.flow # "none")
        /\ m.flow # "none" => Agrees(p, v, s, r, m)
        /\ m.flow = "none" =>
             /\ Enters(p, r.st, c, m.s) /\ Clear(p, r.st) /\ m.s \in Stores
             /\ r.status = m.status
             /\ r.st.loop_depth = v.loop_depth /\ r.st.function_depth = v.function_depth
             /\ p.mode = "off" => m.s.errexit = s.errexit
             /\ ~p.tail /\ ~v.errexit_ignored => ~r.st.errexit_ignored
    BY <2>3, <2>4, OperandAgrees
  <2> HIDE DEF r, m
  <2>6. CASE m.flow # "none"
    BY <2>1, <2>2, <2>5, <2>6
  <2>7. CASE m.flow = "none"
    <3>1. r.st \in States /\ r.status \in Nat /\ m \in Outcomes
      BY <2>5 DEF Typed
    <3>2. GoesOn(p, i + 1, r.st, r.status)
      BY <2>3, <2>5, <2>7 DEF GoesOn, AndOrGoesOn, Clear
    <3>3. Agrees(p, r.st, m.s, r2, m2)
      BY <2>3, <2>5, <2>7, <3>1, <3>2, RestAgrees
    <3> HIDE DEF r2, m2
    <3>4. Agrees(p, v, s, r2, m2)
      BY <2>5, <2>7, <3>3, Chained
    <3> QED
      BY <2>1, <2>2, <2>5, <2>7, <3>4
  <2> QED
    BY <2>6, <2>7
<1>7. /\ skipped \in States
      /\ skipped.errexit = v.errexit
      /\ skipped.should_exit = v.should_exit /\ skipped.break_levels = v.break_levels
      /\ skipped.continue_levels = v.continue_levels
      /\ skipped.return_requested = v.return_requested
      /\ skipped.loop_depth = v.loop_depth /\ skipped.function_depth = v.function_depth
      /\ skipped.fuel = v.fuel /\ skipped.ran = v.ran
      /\ node.ops[i] = "and" => skipped.errexit_ignored
      /\ node.ops[i] # "and" => skipped.errexit_ignored = v.errexit_ignored
  BY DEF States
<1> HIDE DEF skipped
<1>8. ~Interrupted(skipped) /\ Enters(p, skipped, c, s)
  <2>1. ~Interrupted(skipped)
    BY <1>7 DEF Enters, Interrupted, has_pending_flow_control
  <2>2. ModeFits(p, skipped, c, s)
    BY <1>7 DEF Enters, ModeFits
  <2> QED
    BY <1>7, <2>1, <2>2 DEF Enters
<1>9. ~p.tail => skipped.errexit_ignored = v.errexit_ignored
  BY <1>1, <1>7 DEF AndOrFits
<1>10. ASSUME ~((node.ops[i] = "and") = (status = 0)), i = n PROVE Goal
  <2> DEFINE o == Result(skipped, status)
  <2>1. RunAndOr(f, v, node, i, status) = o
    BY <1>10 DEF RunAndOr, skipped
  <2>2. AndOr(g, c, node, i, last) = last
    BY <1>10 DEF AndOr
  <2>3. o.st = skipped /\ o.status = status
    BY DEF Result
  <2> HIDE DEF o
  <2>4. Typed(o, last)
    BY <1>7, <2>3 DEF Typed
  <2>5. Keeps(p, v, s, o, last)
    BY <1>3, <1>7, <2>3 DEF Keeps, Enters, ModeFits
  <2>6. Tidy(p, v, o, last)
    BY <1>9, <2>3 DEF Tidy
  <2>7. ~Fires(p, o)
    BY <1>2, <1>7, <1>10, <2>3 DEF Fires, Failing
  <2>8. Ends(p, o, last)
    BY <1>8, <2>3, <2>7 DEF Ends, NormalEnd, ExitEnd, ReturnEnd, JumpEnd
  <2> QED
    BY <2>1, <2>2, <2>4, <2>5, <2>6, <2>8 DEF Agrees
<1>11. ASSUME ~((node.ops[i] = "and") = (status = 0)), i # n PROVE Goal
  <2> DEFINE r2 == f[Call(node, i + 1, skipped, status)]
             m2 == g[Task(node, i + 1, c, s, last)]
  <2>1. RunAndOr(f, v, node, i, status) = r2
    <3>1. Result(skipped, status).st = skipped /\ Result(skipped, status).status = status
      BY DEF Result
    <3> QED
      BY <1>8, <1>11, <3>1 DEF RunAndOr, skipped
  <2>2. AndOr(g, c, node, i, last) = m2
    BY <1>11 DEF AndOr
  <2>3. i + 1 \in 1 .. n /\ i + 1 \in Nat \ {0}
    BY <1>2, <1>11
  <2>4. ASSUME p.mode # "off", skipped.errexit_ignored
        PROVE  status # 0 /\ \A j \in i + 1 .. n : node.ops[j] = "and"
    <3>1. CASE node.ops[i] = "and"
      <4>1. \A j \in i + 1 .. n : j \in 1 .. n /\ i < j
        BY <1>2
      <4>2. status # 0
        BY <1>11, <3>1
      <4>3. \A j \in i + 1 .. n : node.ops[j] = "and"
        BY <1>1, <2>4, <3>1, <4>1 DEF AndOrFits
      <4> QED
        BY <4>2, <4>3
    <3>2. CASE node.ops[i] # "and"
      <4>1. i \in i .. n
        BY <1>2
      <4>2. v.errexit_ignored
        BY <1>7, <2>4, <3>2
      <4>3. \A j \in i .. n : node.ops[j] = "and"
        BY <2>4, <4>2 DEF AndOrGoesOn
      <4> QED
        BY <3>2, <4>1, <4>3
    <3> QED
      BY <3>1, <3>2
  <2>5. GoesOn(p, i + 1, skipped, status)
    BY <2>3, <2>4 DEF GoesOn, AndOrGoesOn
  <2>6. Agrees(p, skipped, s, r2, m2)
    BY <1>7, <1>8, <2>3, <2>5, RestAgrees
  <2> HIDE DEF r2, m2
  <2>7. Agrees(p, v, s, r2, m2)
    BY <1>7, <1>9, <2>6, Chained
  <2> QED
    BY <2>1, <2>2, <2>7
<1> QED
  BY <1>5, <1>6, <1>10, <1>11

(* An and-or list agrees: its first operand, then its operators in order.  *)
LEMMA FirstOperandAgrees ==
  ASSUME NEW f, NEW g, Good(f, g), NEW p \in Places, p.node.kind = "andor",
         NEW v \in States, NEW c \in Contexts, NEW s \in Stores,
         Enters(p, v, c, s), Clear(p, v)
  PROVE  Agrees(p, v, s, RunFirstOperand(f, v, p.node), FirstOperand(g, c, s, p.node))
<1> DEFINE node == p.node
           n == Len(node.ops)
           r == Part(f, v, node.items[1])
           m == PartMeans(g, Ignoring(c), s, node.items[1])
           r2 == RunAndOr(f, r.st, node, 1, r.status)
           m2 == AndOr(g, c, node, 1, m)
<1>1. RunFirstOperand(f, v, node) = IF Interrupted(r.st) THEN r ELSE r2
  BY DEF RunFirstOperand
<1>2. FirstOperand(g, c, s, node) = IF m.flow # "none" THEN m ELSE m2
  BY DEF FirstOperand
<1>3. node.ops \in Seq({"and", "or"}) /\ node.ops # <<>>
  BY PlacesAre DEF PlaceOf, Lists, Formed
<1>4. 1 \in 1 .. n
  BY <1>3
<1>5. /\ Typed(r, m) /\ (Interrupted(r.st) <=> m.flow # "none")
      /\ m.flow # "none" => Agrees(p, v, s, r, m)
      /\ m.flow = "none" =>
           /\ Enters(p, r.st, c, m.s) /\ Clear(p, r.st) /\ m.s \in Stores
           /\ r.status = m.status
           /\ r.st.loop_depth = v.loop_depth /\ r.st.function_depth = v.function_depth
           /\ p.mode = "off" => m.s.errexit = s.errexit
           /\ ~p.tail /\ ~v.errexit_ignored => ~r.st.errexit_ignored
  BY <1>4, OperandAgrees
<1> HIDE DEF r, m
<1>6. CASE m.flow # "none"
  BY <1>1, <1>2, <1>5, <1>6
<1>7. ASSUME m.flow = "none"
      PROVE  Agrees(p, v, s, RunFirstOperand(f, v, node), FirstOperand(g, c, s, node))
  <2>1. r.st \in States /\ r.status \in Nat /\ m \in Outcomes
    BY <1>5 DEF Typed
  <2>2. AndOrGoesOn(p, 1, r.st, r.status)
    BY <1>4, <1>5, <1>7 DEF AndOrGoesOn, Clear
  <2>3. Agrees(p, r.st, m.s, r2, m2)
    BY <1>4, <1>5, <1>7, <2>1, <2>2, AndOrAgrees
  <2> HIDE DEF r2, m2
  <2>4. Agrees(p, v, s, r2, m2)
    BY <1>5, <1>7, <2>3, Chained
  <2> QED
    BY <1>1, <1>2, <1>5, <1>7, <2>4
<1> QED
  BY <1>6, <1>7

-----------------------------------------------------------------------------
(* Negations.                                                              *)

(* A negation does what it means where nothing is executed after it.       *)
LEMMA NotAgrees ==
  ASSUME NEW f, NEW g, Good(f, g), NEW p \in Places, p.node.kind = "not",
         NEW v \in States, NEW c \in Contexts, NEW s \in Stores,
         Enters(p, v, c, s), Clear(p, v)
  PROVE  Agrees(p, v, s, RunNegated(f, v, p.node), Negated(g, c, s, p.node))
<1> DEFINE node == p.node
           q == NegatedPlace(p)
           d == Ignoring(c)
           r == Part(f, v, node.item)
           m == PartMeans(g, d, s, node.item)
           status == IF r.status = 0 THEN 1 ELSE 0
           meant == IF m.status = 0 THEN 1 ELSE 0
           w == [r.st EXCEPT !.errexit_ignored = TRUE, !.last_status = status]
           o == Result(w, status)
           e == IF m.flow # "none" THEN m ELSE Normal(m.s, meant)
<1>1. PlaceOf(p) /\ p.tail /\ p \in PlaceSet
  BY PlacesAre DEF Fits, PlaceOf, SimpleKinds, Lists
<1>2. q \in Places /\ q \in PlaceSet
  <2>1. q \in Places
    BY PlacesAre DEF Fits, SimpleKinds
  <2> QED
    BY <2>1, PlacesAssumption
<1>3. p.mode \in {"live", "off"} /\ p.returns \in {"none", "exact", "any"}
  BY <1>1 DEF PlaceOf, SimpleKinds, PlaceSet
<1>4. /\ q.node = node.item /\ q.loops = p.loops /\ q.exits = p.exits
      /\ q.returns # "none" => p.returns = "any"
      /\ q.mode = IF p.mode = "off" THEN "off" ELSE "operand"
  BY <1>3 DEF NegatedPlace, Place, Aside, Lax
<1>5. d \in Contexts /\ d.ignoring /\ d.loops = c.loops
  BY DEF Ignoring, Contexts
<1>6. RunNegated(f, v, node) = o
  BY DEF RunNegated
<1>7. Negated(g, c, s, node) = e
  BY DEF Negated
<1> HIDE DEF q, d
<1>8. Enters(q, v, d, s) /\ Clear(q, v)
  <2>1. ModeFits(q, v, d, s)
    BY <1>3, <1>4, <1>5 DEF Enters, ModeFits
  <2> QED
    BY <1>4, <1>5, <2>1 DEF Enters, Clear
<1>9. Agrees(q, v, s, r, m)
  BY <1>2, <1>4, <1>5, <1>8, PartAgrees
<1> HIDE DEF r, m
<1>10. Typed(r, m) /\ Keeps(q, v, s, r, m) /\ Ends(q, r, m)
  BY <1>9 DEF Agrees
<1>11. r.st \in States /\ r.status \in Nat /\ m \in Outcomes /\ m.s \in Stores
  BY <1>10 DEF Typed, Outcomes
<1>12. /\ w \in States /\ w.errexit_ignored
       /\ w.errexit = r.st.errexit
       /\ w.should_exit = r.st.should_exit /\ w.exit_status = r.st.exit_status
       /\ w.break_levels = r.st.break_levels /\ w.continue_levels = r.st.continue_levels
       /\ w.return_requested = r.st.return_requested /\ w.return_status = r.st.return_status
       /\ w.loop_depth = r.st.loop_depth /\ w.function_depth = r.st.function_depth
       /\ w.fuel = r.st.fuel /\ w.ran = r.st.ran
  BY <1>11 DEF States
<1>13. o.st = w /\ o.status = status /\ status \in Nat
  BY DEF Result
<1>14. /\ e \in Outcomes /\ e.s = m.s /\ e.flow = m.flow
       /\ m.flow # "none" => e.status = m.status /\ e.levels = m.levels
       /\ m.flow = "none" => e.status = meant
  BY <1>11 DEF Normal, Outcome, Outcomes, Flows
<1> HIDE DEF w, o, e
<1>15. Typed(o, e)
  BY <1>12, <1>13, <1>14 DEF Typed
<1>16. Keeps(p, v, s, o, e)
  BY <1>3, <1>4, <1>10, <1>12, <1>13, <1>14 DEF Keeps
<1>17. Tidy(p, v, o, e)
  BY <1>1 DEF Tidy
<1>18. NormalEnd(p, o, e)
  <2>1. ~Fires(p, o)
    BY <1>12, <1>13 DEF Fires, Failing
  <2>2. m.flow = "none" => ~Interrupted(r.st) /\ r.status = m.status
    BY <1>10 DEF Ends, NormalEnd
  <2>3. m.flow = "none" => ~Interrupted(w)
    BY <1>12, <2>2 DEF Interrupted, has_pending_flow_control
  <2> QED
    BY <1>13, <1>14, <2>1, <2>2, <2>3 DEF NormalEnd
<1>19. Given(p, o, e)
  BY <1>12, <1>13 DEF Given
<1>20. ExitEnd(p, o, e)
  <2>1. ~Fires(q, r)
    BY <1>4 DEF Fires
  <2> QED
    BY <1>4, <1>10, <1>12, <1>13, <1>14, <1>19, <2>1 DEF Ends, ExitEnd
<1>21. ReturnEnd(p, o, e)
  BY <1>4, <1>10, <1>12, <1>13, <1>14, <1>19 DEF Ends, ReturnEnd
<1>22. JumpEnd(p, o, e)
  BY <1>4, <1>10, <1>12, <1>13, <1>14 DEF Ends, JumpEnd
<1> QED
  BY <1>6, <1>7, <1>15, <1>16, <1>17, <1>18, <1>20, <1>21, <1>22 DEF Agrees, Ends

-----------------------------------------------------------------------------
(* Subshells and functions.                                                *)

(* Neither break nor return leads out of a subshell, and its status is     *)
(* that of the commands in it.                                             *)
LEMMA SubshellAgrees ==
  ASSUME NEW f, NEW g, Good(f, g), NEW p \in Places, p.node.kind = "subshell",
         NEW v \in States, NEW c \in Contexts, NEW s \in Stores,
         Enters(p, v, c, s), Clear(p, v)
  PROVE  Agrees(p, v, s, RunSubshell(f, v, p.node), Subshell(g, c, s, p.node))
<1> DEFINE node == p.node
           q == SubshellPlace(p)
           d == Apart(c)
           u == [v EXCEPT !.should_exit = FALSE, !.exit_status = 0]
           r == Part(f, u, node.body)
           m == PartMeans(g, d, s, node.body)
           status == IF r.st.should_exit THEN r.st.exit_status ELSE r.status
           w == [v EXCEPT !.ran = r.st.ran]
           t == [s EXCEPT !.ran = m.s.ran]
<1>1. PlaceOf(p) /\ p \in PlaceSet
  BY PlacesAre DEF PlaceOf
<1>2. q \in Places /\ q \in PlaceSet
  <2>1. q \in Places
    BY PlacesAre DEF Fits, SimpleKinds
  <2> QED
    BY <2>1, PlacesAssumption
<1>3. /\ p.mode \in {"live", "off"} /\ p.returns \in {"none", "exact", "any"}
      /\ p.node.kind # "brace" /\ p.loops \in Nat
  BY <1>1 DEF PlaceOf, SimpleKinds, PlaceSet
<1>4. /\ q.node = node.body /\ q.loops = 0 /\ q.mode = p.mode
      /\ q.returns = "none" \/ q.returns = "exact"
      /\ q.returns # "none" => p.returns # "none"
  BY <1>3 DEF SubshellPlace, Place, Exact
<1>5. d \in Contexts /\ d.ignoring = c.ignoring /\ d.loops = 0
  BY DEF Apart, Contexts
<1>6. /\ u \in States /\ u.errexit_ignored = v.errexit_ignored /\ u.ran = v.ran
      /\ u.fuel = v.fuel
      /\ u.errexit = v.errexit /\ u.loop_depth = v.loop_depth
      /\ u.function_depth = v.function_depth /\ ~u.should_exit
      /\ u.break_levels = v.break_levels /\ u.continue_levels = v.continue_levels
      /\ u.return_requested = v.return_requested /\ v.loop_depth \in Int
  BY DEF States
<1>7. RunSubshell(f, v, node) = Result(w, status)
  BY DEF RunSubshell
<1>8. Subshell(g, c, s, node) = Checked(c, t, m.status)
  BY DEF Subshell
<1> HIDE DEF q, d, u
<1>9. Enters(q, u, d, s) /\ Clear(q, u)
  <2>1. ModeFits(q, u, d, s) /\ Clear(q, u)
    BY <1>4, <1>5, <1>6 DEF Enters, ModeFits, Clear
  <2>2. ~Interrupted(u)
    BY <1>6 DEF Enters, Interrupted, has_pending_flow_control
  <2>3. u.loop_depth >= q.loops /\ d.loops >= q.loops
    BY <1>3, <1>4, <1>5, <1>6 DEF Enters
  <2> QED
    BY <1>4, <1>6, <2>1, <2>2, <2>3 DEF Enters
<1>10. Agrees(q, u, s, r, m)
  BY <1>2, <1>4, <1>5, <1>6, <1>9, PartAgrees
<1> HIDE DEF r, m
<1>11. /\ r.st \in States /\ r.status \in Nat /\ m \in Outcomes /\ m.s \in Stores
       /\ r.st.ran = m.s.ran /\ m.flow \in Flows /\ m.status \in Nat /\ Ends(q, r, m)
  BY <1>10 DEF Agrees, Typed, Keeps, Outcomes
<1>12. status = m.status
  <2>1. CASE m.flow = "none"
    BY <1>11, <2>1 DEF Ends, NormalEnd, Interrupted
  <2>2. CASE m.flow = "exit"
    BY <1>11, <2>2 DEF Ends, ExitEnd, Fires, Failing, Interrupted
  <2>3. CASE m.flow = "return"
    BY <1>4, <1>11, <2>3 DEF Ends, ReturnEnd
  <2>4. CASE m.flow \in {"break", "continue"}
    <3>1. m.levels \in 1 .. 0
      BY <1>4, <1>11, <2>4 DEF Ends, JumpEnd
    <3> QED
      BY <3>1
  <2> QED
    BY <1>11, <2>1, <2>2, <2>3, <2>4 DEF Flows
<1>13. /\ w \in States /\ w.errexit_ignored = v.errexit_ignored /\ w.ran = m.s.ran
       /\ w.fuel = v.fuel
       /\ w.errexit = v.errexit /\ w.loop_depth = v.loop_depth
       /\ w.function_depth = v.function_depth /\ w.should_exit = v.should_exit
       /\ w.break_levels = v.break_levels /\ w.continue_levels = v.continue_levels
       /\ w.return_requested = v.return_requested
  BY <1>11 DEF States
<1>14. t \in Stores /\ t.ran = m.s.ran /\ t.fuel = s.fuel /\ t.errexit = s.errexit
  BY <1>11 DEF Stores
<1> HIDE DEF w, t, status
<1>15. ~Interrupted(w) /\ Clear(p, w) /\ ModeFits(p, w, c, t)
  BY <1>13, <1>14 DEF Enters, ModeFits, Clear, Interrupted, has_pending_flow_control
<1>16. w.fuel = t.fuel
  BY <1>13, <1>14 DEF Enters
<1>17. Agrees(p, v, s, Result(w, m.status), Checked(c, t, m.status))
  BY <1>1, <1>3, <1>11, <1>13, <1>14, <1>15, <1>16, StatusAgrees
<1> QED
  BY <1>7, <1>8, <1>12, <1>17

(* A function takes the return that is meant for it.                       *)
LEMMA CallAgrees ==
  ASSUME NEW f, NEW g, Good(f, g), NEW p \in Places, p.node.kind = "call",
         NEW v \in States, NEW u, u = [v EXCEPT !.function_depth = @ + 1],
         NEW c \in Contexts, NEW s \in Stores, Enters(p, v, c, s), Clear(p, v)
  PROVE  Agrees(p, v, s, Returned(Part(f, u, p.node.body)), FunctionCall(g, c, s, p.node))
<1> DEFINE node == p.node
           q == FunctionPlace(p)
           d == Apart(c)
           r == Part(f, u, node.body)
           m == PartMeans(g, d, s, node.body)
           left == [r.st EXCEPT !.function_depth = @ - 1]
           w == IF r.st.return_requested THEN [left EXCEPT !.return_requested = FALSE] ELSE left
           status == IF r.st.return_requested THEN r.st.return_status ELSE r.status
           o == Result(w, status)
<1>1. PlaceOf(p) /\ p \in PlaceSet
  BY PlacesAre DEF PlaceOf
<1>2. q \in Places /\ q \in PlaceSet
  <2>1. q \in Places
    BY PlacesAre DEF Fits, SimpleKinds
  <2> QED
    BY <2>1, PlacesAssumption
<1>3. p.mode \in {"live", "off"} /\ p.node.kind # "brace" /\ p.loops \in Nat
  BY <1>1 DEF PlaceOf, SimpleKinds, PlaceSet
<1>4. /\ q.node = node.body /\ q.loops = 0 /\ q.mode = p.mode /\ q.exits = p.exits
      /\ q.tail => p.tail /\ p.mode = "off"
  BY DEF FunctionPlace, Place, Before
<1>5. d \in Contexts /\ d.ignoring = c.ignoring /\ d.loops = 0
  BY DEF Apart, Contexts
<1>6. /\ u \in States /\ u.errexit_ignored = v.errexit_ignored /\ u.ran = v.ran
      /\ u.fuel = v.fuel
      /\ u.errexit = v.errexit /\ u.loop_depth = v.loop_depth
      /\ u.function_depth = v.function_depth + 1 /\ u.should_exit = v.should_exit
      /\ u.break_levels = v.break_levels /\ u.continue_levels = v.continue_levels
      /\ u.return_requested = v.return_requested
      /\ v.loop_depth \in Int /\ v.function_depth \in Int
  BY DEF States
<1>7. Returned(r) = o
  <2>1. left.return_requested = r.st.return_requested /\ left.return_status = r.st.return_status
    OBVIOUS
  <2> QED
    BY <2>1 DEF Returned
<1>8. FunctionCall(g, c, s, node) = IF m.flow = "exit" THEN m ELSE Checked(c, m.s, m.status)
  BY DEF FunctionCall
<1> HIDE DEF q, d
<1>9. Enters(q, u, d, s) /\ Clear(q, u)
  <2>1. ModeFits(q, u, d, s) /\ Clear(q, u)
    BY <1>4, <1>5, <1>6 DEF Enters, ModeFits, Clear
  <2>2. ~Interrupted(u)
    BY <1>6 DEF Enters, Interrupted, has_pending_flow_control
  <2>3. u.loop_depth >= q.loops /\ d.loops >= q.loops /\ u.function_depth > 0
    BY <1>3, <1>4, <1>5, <1>6 DEF Enters
  <2>4. u.function_depth >= 0
    BY <1>6, <2>3
  <2> QED
    BY <1>6, <2>1, <2>2, <2>3, <2>4 DEF Enters
<1>10. Agrees(q, u, s, r, m)
  BY <1>2, <1>4, <1>5, <1>6, <1>9, PartAgrees
<1> HIDE DEF r, m
<1>11. /\ r.st \in States /\ r.status \in Nat /\ m \in Outcomes /\ m.s \in Stores
       /\ m.flow \in Flows /\ m.status \in Nat /\ Ends(q, r, m) /\ Keeps(q, u, s, r, m)
       /\ Tidy(q, u, r, m)
  BY <1>10 DEF Agrees, Typed, Outcomes
<1>12. /\ w \in States /\ w.errexit_ignored = r.st.errexit_ignored /\ w.ran = r.st.ran
       /\ w.fuel = r.st.fuel
       /\ w.errexit = r.st.errexit /\ w.loop_depth = r.st.loop_depth
       /\ w.function_depth = r.st.function_depth - 1
       /\ w.should_exit = r.st.should_exit /\ w.exit_status = r.st.exit_status
       /\ w.break_levels = r.st.break_levels /\ w.continue_levels = r.st.continue_levels
       /\ ~w.return_requested
  <2>1. /\ left \in States /\ left.errexit_ignored = r.st.errexit_ignored
        /\ left.ran = r.st.ran /\ left.fuel = r.st.fuel
        /\ left.errexit = r.st.errexit /\ left.loop_depth = r.st.loop_depth
        /\ left.function_depth = r.st.function_depth - 1
        /\ left.should_exit = r.st.should_exit /\ left.exit_status = r.st.exit_status
        /\ left.break_levels = r.st.break_levels
        /\ left.continue_levels = r.st.continue_levels
        /\ left.return_requested = r.st.return_requested
    <3>1. ASSUME NEW x \in States, NEW y, y = [x EXCEPT !.function_depth = @ - 1]
          PROVE  /\ y \in States /\ y.errexit_ignored = x.errexit_ignored
                 /\ y.ran = x.ran /\ y.fuel = x.fuel
                 /\ y.errexit = x.errexit /\ y.loop_depth = x.loop_depth
                 /\ y.function_depth = x.function_depth - 1
                 /\ y.should_exit = x.should_exit /\ y.exit_status = x.exit_status
                 /\ y.break_levels = x.break_levels
                 /\ y.continue_levels = x.continue_levels
                 /\ y.return_requested = x.return_requested
      <4>1. x.function_depth - 1 \in Int
        BY DEF States
      <4> QED
        BY <3>1, <4>1 DEF States
    <3> QED
      BY <1>11, <3>1
  <2> HIDE DEF left
  <2>2. CASE r.st.return_requested
    BY <2>1, <2>2 DEF States
  <2>3. CASE ~r.st.return_requested
    BY <2>1, <2>3
  <2> QED
    BY <2>2, <2>3
<1>13. status \in Nat
  BY <1>11 DEF States
<1>14. o.st = w /\ o.status = status
  BY DEF Result
<1> HIDE DEF left, w, o
<1>15. /\ w.ran = m.s.ran /\ w.fuel = m.s.fuel
       /\ w.loop_depth = v.loop_depth /\ w.function_depth = v.function_depth
       /\ p.mode = "off" => ~w.errexit /\ m.s.errexit = s.errexit
       /\ p.mode # "off" => w.errexit = m.s.errexit
  BY <1>4, <1>6, <1>11, <1>12 DEF Keeps
<1>16. ModeFits(p, w, c, m.s)
  BY <1>3, <1>15 DEF Enters, ModeFits
<1>17. m.flow # "exit" => /\ Clear(p, w)
                          /\ ~p.tail /\ ~v.errexit_ignored => ~w.errexit_ignored
  BY <1>4, <1>6, <1>11, <1>12 DEF Tidy, Clear
<1>18. ASSUME m.flow # "exit", status = m.status, ~Interrupted(w)
       PROVE  Agrees(p, v, s, o, Checked(c, m.s, m.status))
  BY <1>1, <1>3, <1>11, <1>12, <1>15, <1>16, <1>17, <1>18, StatusAgrees DEF o
<1>19. ASSUME m.flow = "none" PROVE Agrees(p, v, s, o, FunctionCall(g, c, s, node))
  <2>1. ~Interrupted(r.st) /\ r.status = m.status
    BY <1>11, <1>19 DEF Ends, NormalEnd
  <2>2. status = m.status /\ ~Interrupted(w)
    BY <1>12, <2>1 DEF Interrupted, has_pending_flow_control
  <2> QED
    BY <1>8, <1>18, <1>19, <2>2
<1>20. ASSUME m.flow = "return" PROVE Agrees(p, v, s, o, FunctionCall(g, c, s, node))
  <2>1. ReturnEnd(q, r, m)
    BY <1>11 DEF Ends
  <2>2. status = m.status /\ w.break_levels = 0 /\ w.continue_levels = 0
    BY <1>12, <1>20, <2>1 DEF ReturnEnd
  <2>3. CASE ~w.should_exit
    <3>1. ~Interrupted(w)
      BY <1>12, <2>2, <2>3 DEF Interrupted, has_pending_flow_control
    <3> QED
      BY <1>8, <1>18, <1>20, <2>2, <3>1
  <2>4. CASE w.should_exit
    <3> DEFINE e == Checked(c, m.s, m.status)
    <3>1. p.mode = "live" /\ w.errexit /\ w.exit_status = m.status /\ m.status # 0
      BY <1>4, <1>12, <1>20, <2>1, <2>4 DEF ReturnEnd
    <3>2. m.s.errexit /\ ~c.ignoring
      BY <1>15, <1>16, <3>1 DEF ModeFits
    <3>3. e \in Outcomes /\ e.s = m.s /\ e.status = m.status /\ e.flow = "exit"
      BY <1>11, <3>1, <3>2 DEF Checked, Outcome, Outcomes, Flows
    <3> HIDE DEF e
    <3>4. Typed(o, e)
      BY <1>12, <1>13, <1>14, <3>3 DEF Typed
    <3>5. Keeps(p, v, s, o, e)
      BY <1>14, <1>15, <3>3 DEF Keeps
    <3>6. Tidy(p, v, o, e) /\ NormalEnd(p, o, e) /\ ReturnEnd(p, o, e) /\ JumpEnd(p, o, e)
      BY <3>3 DEF Tidy, NormalEnd, ReturnEnd, JumpEnd
    <3>7. ExitEnd(p, o, e)
      BY <1>12, <1>14, <2>2, <2>4, <3>1, <3>3 DEF ExitEnd, Given
    <3>8. Agrees(p, v, s, o, e)
      BY <3>4, <3>5, <3>6, <3>7 DEF Agrees, Ends
    <3> QED
      BY <1>8, <1>20, <3>8 DEF e
  <2> QED
    BY <2>3, <2>4
<1>21. ASSUME m.flow = "exit" PROVE Agrees(p, v, s, o, FunctionCall(g, c, s, node))
  <2>1. ExitEnd(q, r, m)
    BY <1>11 DEF Ends
  <2>2. status = r.status
    BY <1>21, <2>1 DEF ExitEnd
  <2>3. Typed(o, m) /\ Keeps(p, v, s, o, m)
    BY <1>11, <1>12, <1>13, <1>14, <1>15 DEF Typed, Keeps
  <2>4. Tidy(p, v, o, m) /\ NormalEnd(p, o, m) /\ ReturnEnd(p, o, m) /\ JumpEnd(p, o, m)
    BY <1>21 DEF Tidy, NormalEnd, ReturnEnd, JumpEnd
  <2>5. Fires(q, r) => Fires(p, o)
    BY <1>4, <1>12, <1>14, <2>2
       DEF Fires, Failing, Interrupted, has_pending_flow_control
  <2>6. Given(q, r, m) => Given(p, o, m)
    BY <1>4, <1>12, <1>14, <2>2 DEF Given
  <2>7. ExitEnd(p, o, m)
    BY <1>4, <1>12, <1>14, <2>1, <2>2, <2>5, <2>6 DEF ExitEnd
  <2>8. Agrees(p, v, s, o, m)
    BY <2>3, <2>4, <2>7 DEF Agrees, Ends
  <2> QED
    BY <1>8, <1>21, <2>8
<1>22. ASSUME m.flow \in {"break", "continue"} PROVE Agrees(p, v, s, o, FunctionCall(g, c, s, node))
  <2>1. m.levels \in 1 .. 0
    BY <1>4, <1>11, <1>22 DEF Ends, JumpEnd
  <2> QED
    BY <2>1
<1> QED
  <2>1. Agrees(p, v, s, o, FunctionCall(g, c, s, node))
    BY <1>11, <1>19, <1>20, <1>21, <1>22 DEF Flows
  <2> QED
    BY <1>7, <2>1 DEF r

-----------------------------------------------------------------------------
(* Conditions and branches.                                                *)

(* A condition is executed with errexit off, and leaves it as it was.      *)
LEMMA ConditionAgrees ==
  ASSUME NEW f, NEW g, Good(f, g), NEW q \in Places, q.mode = "off",
         NEW v \in States, NEW d \in Contexts, d.ignoring, NEW s \in Stores,
         ~Interrupted(v), v.ran = s.ran, v.fuel = s.fuel,
         v.loop_depth >= q.loops, d.loops >= q.loops, v.function_depth >= 0,
         q.returns # "none" => v.function_depth > 0,
         NEW r, r = RunCondition(f, v, q.node),
         NEW m, m = PartMeans(g, d, s, q.node)
  PROVE  /\ Typed(r, m) /\ Tidy(q, v, r, m) /\ Ends(q, r, m)
         /\ r.st.ran = m.s.ran /\ r.st.fuel = m.s.fuel
         /\ r.st.loop_depth = v.loop_depth /\ r.st.function_depth = v.function_depth
         /\ r.st.errexit = v.errexit /\ m.s.errexit = s.errexit
         /\ Interrupted(r.st) <=> m.flow # "none"
<1> DEFINE u == [v EXCEPT !.errexit = FALSE]
           a == Part(f, u, q.node)
           w == [a.st EXCEPT !.errexit = v.errexit]
<1>1. /\ u \in States /\ u.errexit_ignored = v.errexit_ignored /\ u.ran = v.ran
      /\ u.fuel = v.fuel
      /\ ~u.errexit /\ u.loop_depth = v.loop_depth
      /\ u.function_depth = v.function_depth /\ u.should_exit = v.should_exit
      /\ u.break_levels = v.break_levels /\ u.continue_levels = v.continue_levels
      /\ u.return_requested = v.return_requested /\ v.errexit \in BOOLEAN
  BY DEF States
<1>2. r = Result(w, a.status)
  BY DEF RunCondition
<1> HIDE DEF u
<1>3. Enters(q, u, d, s) /\ Clear(q, u)
  <2>1. ~Interrupted(u)
    BY <1>1 DEF Interrupted, has_pending_flow_control
  <2>2. ModeFits(q, u, d, s) /\ Clear(q, u)
    BY <1>1 DEF ModeFits, Clear
  <2> QED
    BY <1>1, <2>1, <2>2 DEF Enters
<1>4. Agrees(q, u, s, a, m)
  BY <1>1, <1>3, PartAgrees
<1>5. Typed(a, m) /\ Keeps(q, u, s, a, m) /\ Tidy(q, u, a, m) /\ Ends(q, a, m)
  BY <1>4 DEF Agrees
<1> HIDE DEF a
<1>6. /\ w \in States /\ w.errexit = v.errexit
      /\ w.errexit_ignored = a.st.errexit_ignored
      /\ w.should_exit = a.st.should_exit /\ w.exit_status = a.st.exit_status
      /\ w.break_levels = a.st.break_levels /\ w.continue_levels = a.st.continue_levels
      /\ w.return_requested = a.st.return_requested /\ w.return_status = a.st.return_status
      /\ w.loop_depth = a.st.loop_depth /\ w.function_depth = a.st.function_depth
      /\ w.fuel = a.st.fuel /\ w.ran = a.st.ran
  <2>1. a.st \in States
    BY <1>5 DEF Typed
  <2> QED
    BY <1>1, <2>1 DEF States
<1>7. r.st = w /\ r.status = a.status
  BY <1>2 DEF Result
<1> HIDE DEF w
<1>8. Typed(r, m)
  BY <1>5, <1>6, <1>7 DEF Typed
<1>9. Tidy(q, v, r, m)
  BY <1>1, <1>5, <1>6, <1>7 DEF Tidy
<1>10. ~Fires(q, r) /\ ~Fires(q, a)
  BY DEF Fires
<1>11. Interrupted(w) <=> Interrupted(a.st)
  BY <1>6 DEF Interrupted, has_pending_flow_control
<1>12. Given(q, a, m) => Given(q, r, m)
  BY <1>6, <1>7 DEF Given
<1>13. NormalEnd(q, r, m)
  BY <1>5, <1>7, <1>10, <1>11 DEF Ends, NormalEnd
<1>14. ExitEnd(q, r, m)
  BY <1>5, <1>6, <1>7, <1>10, <1>12 DEF Ends, ExitEnd
<1>15. ReturnEnd(q, r, m)
  BY <1>5, <1>6, <1>7 DEF Ends, ReturnEnd
<1>16. JumpEnd(q, r, m)
  BY <1>5, <1>6, <1>7 DEF Ends, JumpEnd
<1>17. /\ r.st.ran = m.s.ran /\ r.st.fuel = m.s.fuel
       /\ r.st.loop_depth = v.loop_depth /\ r.st.function_depth = v.function_depth
       /\ r.st.errexit = v.errexit /\ m.s.errexit = s.errexit
  BY <1>1, <1>5, <1>6, <1>7 DEF Keeps
<1>18. Interrupted(r.st) <=> m.flow # "none"
  <2>1. q \in PlaceSet
    BY PlacesAssumption
  <2>2. Interrupted(a.st) <=> m.flow # "none"
    BY <1>4, <1>10, <2>1, StopsAsMeant
  <2> QED
    BY <1>7, <1>11, <2>2
<1> QED
  BY <1>8, <1>9, <1>13, <1>14, <1>15, <1>16, <1>17, <1>18 DEF Ends

(* errexit is looked at after a branch or the body of a loop.              *)
LEMMA BranchAgrees ==
  ASSUME NEW f, NEW g, Good(f, g), NEW q \in Places, q.mode # "operand", NEW v \in States,
         NEW c \in Contexts, NEW s \in Stores, Enters(q, v, c, s), Clear(q, v),
         NEW r, r = RunBranch(f, v, q.node),
         NEW m, m = PartMeans(g, c, s, q.node)
  PROVE  /\ Agrees(q, v, s, r, m)
         /\ Interrupted(r.st) <=> m.flow # "none"
         /\ m.flow = "exit" => r.st.should_exit
<1> DEFINE a == Part(f, v, q.node)
           w == maybe_trigger_errexit(a.st, a.status)
<1>1. r = Result(w, a.status)
  BY DEF RunBranch
<1>2. Agrees(q, v, s, a, m)
  BY PartAgrees
<1> HIDE DEF a
<1>3. a.st \in States /\ a.status \in Nat
  BY <1>2 DEF Agrees, Typed
<1>4. Checks(w, a.st, a.status)
  BY <1>3, TriggerChecks
<1>5. q \in PlaceSet
  BY PlacesAssumption
<1> HIDE DEF w
<1>6. /\ Agrees(q, v, s, r, m) /\ (Interrupted(w) <=> m.flow # "none")
      /\ m.flow = "exit" => w.should_exit
  BY <1>1, <1>2, <1>4, <1>5, CheckedAgrees
<1>7. r.st = w
  BY <1>1 DEF Result
<1> QED
  BY <1>6, <1>7

(* An if command whose condition ends more than itself.                    *)
LEMMA ConditionEnds ==
  ASSUME NEW p \in Places, p.node.kind = "if", NEW q, q = ConditionPlace(p),
         NEW v, NEW c, NEW s, ModeFits(p, v, c, s), Clear(p, v), NEW r, NEW m, m.flow # "none",
         Typed(r, m), Tidy(q, v, r, m), Ends(q, r, m),
         r.st.ran = m.s.ran, r.st.fuel = m.s.fuel,
         r.st.loop_depth = v.loop_depth, r.st.function_depth = v.function_depth,
         r.st.errexit = v.errexit, m.s.errexit = s.errexit
  PROVE  Agrees(p, v, s, r, m)
<1>1. PlaceOf(p) /\ p \in PlaceSet /\ p.mode \in {"live", "off"}
  BY PlacesAre DEF PlaceOf, SimpleKinds
<1>2. p.returns \in {"none", "exact", "any"} /\ p.exits \in {"none", "exact", "any"}
  BY <1>1 DEF PlaceSet
<1>3. /\ q.loops = p.loops /\ q.mode = "off"
      /\ p.mode = "off" => q.returns = p.returns /\ q.exits = p.exits /\ (q.tail => p.tail)
      /\ p.mode = "live" => /\ q.exits = "exact" /\ ~q.tail
                            /\ q.returns # "none" => q.returns = "exact" /\ p.returns # "none"
  BY <1>1, <1>2 DEF ConditionPlace, Place, Exact, Before
<1>4. Keeps(p, v, s, r, m)
  BY <1>1 DEF Keeps, ModeFits
<1>5. Tidy(p, v, r, m)
  BY <1>1, <1>3 DEF Tidy, Clear
<1>6. ~Fires(q, r)
  BY <1>3 DEF Fires
<1>7. p.mode = "off" /\ Given(q, r, m) => Given(p, r, m)
  BY <1>3 DEF Given
<1>8. ExitEnd(p, r, m)
  <2>1. m.flow = "exit" => /\ r.st.should_exit /\ r.st.exit_status = m.status
                           /\ ~r.st.return_requested /\ q.exits # "none"
                           /\ q.exits = "exact" => Given(q, r, m)
    BY <1>3, <1>6 DEF Ends, ExitEnd
  <2>2. CASE p.mode = "off"
    BY <1>3, <1>7, <2>1, <2>2 DEF ExitEnd
  <2>3. CASE p.mode = "live"
    <3>1. Given(q, r, m) => Given(p, r, m)
      BY <1>3 DEF Given
    <3> QED
      BY <1>3, <2>1, <2>3, <3>1 DEF ExitEnd
  <2> QED
    BY <1>1, <2>2, <2>3
<1>9. ReturnEnd(p, r, m)
  <2>1. m.flow = "return" =>
          /\ q.returns # "none" /\ r.st.return_requested /\ r.st.return_status = m.status
          /\ r.st.break_levels = 0 /\ r.st.continue_levels = 0
          /\ q.returns = "exact" => r.status = m.status
          /\ ~r.st.should_exit
    BY <1>3 DEF Ends, ReturnEnd
  <2>2. CASE p.mode = "off"
    BY <1>3, <2>1, <2>2 DEF ReturnEnd
  <2>3. CASE p.mode = "live"
    BY <1>3, <2>1, <2>3 DEF ReturnEnd, Given
  <2> QED
    BY <1>1, <2>2, <2>3
<1>10. JumpEnd(p, r, m)
  BY <1>3 DEF Ends, JumpEnd
<1> QED
  BY <1>4, <1>5, <1>8, <1>9, <1>10 DEF Agrees, Ends, NormalEnd

(* An if command: its condition, then the branch that it chooses.          *)
LEMMA IfAgrees ==
  ASSUME NEW f, NEW g, Good(f, g), NEW p \in Places, p.node.kind = "if",
         NEW v \in States, NEW c \in Contexts, NEW s \in Stores,
         Enters(p, v, c, s), Clear(p, v), NEW cond,
         cond = PartMeans(g, Ignoring(c), s, p.node.cond)
  PROVE  Agrees(p, v, s, ast_exec_run_if(f, v, p.node),
                IF cond.flow # "none" THEN cond
                ELSE PartMeans(g, c, cond.s,
                               IF cond.status = 0 THEN p.node.then ELSE p.node.else))
<1> DEFINE node == p.node
           q == ConditionPlace(p)
           d == Ignoring(c)
           r == RunCondition(f, v, node.cond)
           chosen == IF r.status = 0 THEN node.then ELSE node.else
           branch == RunBranch(f, r.st, chosen)
           meant == PartMeans(g, c, cond.s, chosen)
           q2 == ItemPlace(p, chosen, TRUE)
<1>1. PlaceOf(p) /\ p \in PlaceSet /\ p.loops \in Nat /\ p.mode \in {"live", "off"}
  BY PlacesAre DEF PlaceOf, SimpleKinds
<1>2. q \in Places /\ q \in PlaceSet
  <2>1. q \in Places
    BY PlacesAre DEF Fits, SimpleKinds
  <2> QED
    BY <2>1, PlacesAssumption
<1>3. /\ q.node = node.cond /\ q.loops = p.loops /\ q.mode = "off"
      /\ q.returns # "none" => p.returns # "none"
      /\ q.tail => p.tail /\ p.mode = "off"
  BY <1>1 DEF ConditionPlace, Place, Exact, Before
<1>4. d \in Contexts /\ d.ignoring /\ d.loops = c.loops
  BY DEF Ignoring, Contexts
<1>5. ast_exec_run_if(f, v, node) = IF Interrupted(r.st) THEN r ELSE branch
  BY DEF ast_exec_run_if
<1> HIDE DEF q
<1>6. /\ ~Interrupted(v) /\ v.ran = s.ran /\ v.fuel = s.fuel
      /\ v.loop_depth >= q.loops /\ d.loops >= q.loops /\ v.function_depth >= 0
      /\ q.returns # "none" => v.function_depth > 0
      /\ ModeFits(p, v, c, s)
  BY <1>3, <1>4 DEF Enters
<1> HIDE DEF d
<1>7. /\ Typed(r, cond) /\ Tidy(q, v, r, cond) /\ Ends(q, r, cond)
      /\ r.st.ran = cond.s.ran /\ r.st.fuel = cond.s.fuel
      /\ r.st.loop_depth = v.loop_depth /\ r.st.function_depth = v.function_depth
      /\ r.st.errexit = v.errexit /\ cond.s.errexit = s.errexit
      /\ Interrupted(r.st) <=> cond.flow # "none"
  BY <1>2, <1>3, <1>4, <1>6, ConditionAgrees DEF d
<1> HIDE DEF r
<1>8. ASSUME cond.flow # "none" PROVE Agrees(p, v, s, r, cond)
  BY <1>6, <1>7, <1>8, ConditionEnds DEF q
<1>9. ASSUME cond.flow = "none" PROVE Agrees(p, v, s, branch, meant) /\ r.status = cond.status
  <2>1. r.st \in States /\ cond.s \in Stores /\ r.status = cond.status /\ ~Interrupted(r.st)
    BY <1>7, <1>9 DEF Typed, Ends, NormalEnd, Outcomes
  <2>2. ~v.errexit_ignored /\ ~q.tail => ~r.st.errexit_ignored
    BY <1>7, <1>9 DEF Tidy
  <2>3. q2 \in Places /\ q2 \in PlaceSet
    <3>1. {ItemPlace(p, node.then, TRUE), ItemPlace(p, node.else, TRUE)} \subseteq Places
      BY PlacesAre DEF Fits, SimpleKinds
    <3>2. q2 \in Places
      BY <3>1
    <3> QED
      BY <3>2, PlacesAssumption
  <2>4. /\ q2.node = chosen /\ q2.mode = p.mode /\ q2.loops = p.loops /\ q2.returns = p.returns
        /\ q2.loops <= p.loops /\ Narrower(q2, p) /\ (~p.tail => ~q2.tail)
    BY <1>1 DEF ItemPlace, Place, Narrower
  <2> HIDE DEF q2, chosen
  <2>5. Clear(p, r.st) /\ ModeFits(p, r.st, c, cond.s)
    BY <1>3, <1>6, <1>7, <2>2 DEF Clear, ModeFits
  <2>6. Enters(q2, r.st, c, cond.s) /\ Clear(q2, r.st)
    <3>1. ModeFits(q2, r.st, c, cond.s) /\ Clear(q2, r.st)
      BY <2>4, <2>5 DEF ModeFits, Clear
    <3> QED
      BY <1>7, <2>1, <2>4, <3>1 DEF Enters
  <2>7. Agrees(q2, r.st, cond.s, branch, meant)
    <3>1. q2.mode # "operand"
      BY <1>1, <2>4
    <3> QED
      BY <2>1, <2>3, <2>4, <2>6, <3>1, BranchAgrees
  <2> HIDE DEF branch, meant
  <2>8. Tidy(p, r.st, branch, meant)
    BY <1>1, <2>4, <2>7 DEF Agrees, Tidy
  <2>9. Agrees(p, r.st, cond.s, branch, meant)
    BY <1>1, <2>3, <2>4, <2>7, <2>8, Widened
  <2>10. Agrees(p, v, s, branch, meant)
    BY <1>3, <1>7, <2>2, <2>9, Chained
  <2> QED
    BY <2>1, <2>10
<1> HIDE DEF branch
<1>10. CASE cond.flow # "none"
  BY <1>5, <1>7, <1>8, <1>10
<1>11. CASE cond.flow = "none"
  BY <1>5, <1>7, <1>9, <1>11 DEF meant, chosen
<1> QED
  BY <1>10, <1>11

-----------------------------------------------------------------------------
(* Loops.                                                                  *)

(* The loop in place p may take another turn, after a body that ended with *)
(* status.                                                                 *)
Turns(p, v, c, s, status) ==
  /\ Enters(p, v, c, s) /\ Clear(p, v)
  /\ v.loop_depth > p.loops
  /\ p.mode # "off" => status = 0 \/ ~v.errexit

(* The turn after the one in which the body left the state b and e.        *)
LEMMA TurnsAgain ==
  ASSUME NEW f, NEW g, Good(f, g), NEW p \in Places, p.node.kind \in Loops,
         NEW q \in PlaceSet, q.mode = p.mode, q.tail = Before(p),
         NEW at \in Nat \ {0}, NEW v \in States, NEW c \in Contexts, NEW s \in Stores,
         Turns(p, v, c, s, 0), NEW r, NEW m, Agrees(q, v, s, r, m), m.flow # "exit",
         NEW w \in States, NEW status \in Nat, NEW last \in Outcomes,
         Alike(w, [r.st EXCEPT !.continue_levels = w.continue_levels]), ~Interrupted(w),
         last.flow = "none", last.s = m.s, last.status = status,
         p.mode # "off" => status = 0 \/ ~w.errexit
  PROVE  Agrees(p, v, s, f[Call(p.node, at, w, status)], g[Task(p.node, at, c, m.s, last)])
<1>1. PlaceOf(p) /\ p \in PlaceSet /\ p.node.kind # "brace"
  BY PlacesAre DEF PlaceOf, Loops
<1>2. Keeps(q, v, s, r, m) /\ Tidy(q, v, r, m) /\ m.s \in Stores /\ r.st \in States
  BY DEF Agrees, Typed, Outcomes
<1>3. /\ w.errexit = r.st.errexit /\ w.errexit_ignored = r.st.errexit_ignored
      /\ w.loop_depth = r.st.loop_depth /\ w.function_depth = r.st.function_depth
      /\ w.fuel = r.st.fuel /\ w.ran = r.st.ran
  BY <1>2 DEF Alike, States
<1>4. Enters(p, v, c, s) /\ Clear(p, v) /\ v.loop_depth > p.loops
  BY DEF Turns
<1>5. /\ w.ran = m.s.ran /\ w.fuel = m.s.fuel
      /\ w.loop_depth = v.loop_depth /\ w.function_depth = v.function_depth
      /\ p.mode = "off" => ~w.errexit /\ m.s.errexit = s.errexit
      /\ p.mode # "off" => w.errexit = m.s.errexit
  BY <1>2, <1>3 DEF Keeps
<1>6. ModeFits(p, w, c, m.s)
  BY <1>4, <1>5 DEF Enters, ModeFits
<1>7. Enters(p, w, c, m.s)
  BY <1>4, <1>5, <1>6 DEF Enters
<1>8. ~v.errexit_ignored /\ ~Before(p) => ~w.errexit_ignored
  BY <1>2, <1>3 DEF Tidy
<1>9. Clear(p, w)
  BY <1>4, <1>8 DEF Clear, Before
<1>10. GoesOn(p, at, w, status)
  BY <1>4, <1>5, <1>9 DEF GoesOn, LoopGoesOn
<1> DEFINE r2 == f[Call(p.node, at, w, status)]
           m2 == g[Task(p.node, at, c, m.s, last)]
<1>11. Agrees(p, w, m.s, r2, m2)
  BY <1>2, <1>7, <1>10, RestAgrees
<1>12. ~p.tail /\ ~v.errexit_ignored => ~w.errexit_ignored
  BY <1>8 DEF Before
<1> HIDE DEF r2, m2
<1>13. Agrees(p, v, s, r2, m2)
  BY <1>5, <1>11, <1>12, Chained
<1> QED
  BY <1>13 DEF r2, m2

(* A loop takes one level of break or continue, and leaves the others to   *)
(* the loops around it.                                                    *)
LEMMA TurnAgrees ==
  ASSUME NEW f, NEW g, Good(f, g), NEW p \in Places, p.node.kind \in Loops,
         NEW q, q = LoopBodyPlace(p), NEW turns, NEW at \in Nat \ {0},
         at = Further(p.node, turns), NEW v \in States, NEW c \in Contexts, NEW s \in Stores,
         Turns(p, v, c, s, 0), NEW r, NEW m, Agrees(q, v, s, r, m),
         Interrupted(r.st) <=> m.flow # "none", m.flow = "exit" => r.st.should_exit,
         NEW next_, next_ = AfterBody(r.st, r.status)
  PROVE  Agrees(p, v, s,
                IF next_.again THEN f[Call(p.node, at, next_.st, next_.status)]
                ELSE Result(next_.st, next_.status),
                AfterTurn(g, c, p.node, turns, m))
<1> DEFINE node == p.node
           o == IF next_.again THEN f[Call(node, at, next_.st, next_.status)]
                ELSE Result(next_.st, next_.status)
           e == AfterTurn(g, c, node, turns, m)
<1>1. PlaceOf(p) /\ p \in PlaceSet /\ p.loops \in Nat /\ p.mode \in {"live", "off"}
  BY PlacesAre DEF PlaceOf, SimpleKinds, Loops
<1>2. q \in Places /\ q \in PlaceSet
  <2>1. q \in Places
    BY PlacesAre DEF Fits, SimpleKinds, Loops
  <2> QED
    BY <2>1, PlacesAssumption
<1>3. /\ q.node = node.body /\ q.loops = p.loops + 1 /\ q.mode = p.mode
      /\ q.returns = p.returns /\ q.exits = p.exits /\ q.tail = Before(p)
  BY DEF LoopBodyPlace, Place
<1>4. /\ r.st \in States /\ r.status \in Nat /\ m \in Outcomes /\ m.s \in Stores
      /\ m.flow \in Flows /\ Keeps(q, v, s, r, m) /\ Tidy(q, v, r, m) /\ Ends(q, r, m)
  BY DEF Agrees, Typed, Outcomes
<1>5. Enters(p, v, c, s) /\ Clear(p, v)
  BY DEF Turns
<1>6. Narrower(q, p)
  BY <1>1, <1>3 DEF Narrower
<1>7. m.flow # "exit" => Tidy(p, v, r, m)
  BY <1>3, <1>4 DEF Tidy, Before, Loops
<1>8. r.st.break_levels \in Nat /\ r.st.continue_levels \in Nat
  BY <1>4 DEF States
<1>9. ASSUME m.flow = "none" PROVE Agrees(p, v, s, o, e)
  <2>1. ~Interrupted(r.st) /\ ~Fires(q, r) /\ r.status = m.status
    BY <1>4, <1>9 DEF Ends, NormalEnd
  <2>2. next_.again /\ next_.st = r.st /\ next_.status = r.status
    BY <1>8, <2>1 DEF AfterBody, Leaves, Interrupted, has_pending_flow_control
  <2>3. e = g[Task(node, at, c, m.s, m)]
    BY <1>9 DEF AfterTurn
  <2>4. Alike(r.st, [r.st EXCEPT !.continue_levels = r.st.continue_levels])
    BY <1>4 DEF Alike, States
  <2>5. p.mode # "off" => r.status = 0 \/ ~r.st.errexit
    <3>1. p.mode # "off" => ~r.st.errexit_ignored
      BY <1>3, <1>4, <1>5, <1>9 DEF Tidy, Clear, Before
    <3> QED
      BY <1>1, <1>3, <2>1, <3>1 DEF Fires, Failing
  <2>6. Agrees(p, v, s, f[Call(node, at, r.st, r.status)], g[Task(node, at, c, m.s, m)])
    BY <1>2, <1>3, <1>4, <1>9, <2>1, <2>4, <2>5, TurnsAgain
  <2> QED
    BY <2>2, <2>3, <2>6
<1>10. ASSUME m.flow = "exit" \/ m.flow = "return" PROVE Agrees(p, v, s, o, e)
  <2>1. Leaves(r.st)
    BY <1>4, <1>10 DEF Leaves, Ends, ReturnEnd
  <2>2. ~next_.again /\ next_.st = r.st /\ next_.status = r.status
    BY <2>1 DEF AfterBody
  <2>3. o.st = r.st /\ o.status = r.status /\ o = Result(r.st, r.status)
    BY <2>2 DEF Result
  <2>4. e = m
    BY <1>10 DEF AfterTurn
  <2> HIDE DEF o, e
  <2>5. Tidy(p, v, r, m)
    BY <1>7 DEF Tidy
  <2>6. Agrees(p, v, s, r, m)
    BY <1>1, <1>2, <1>6, <1>10, <2>5, Widened
  <2>7. Typed(o, m) /\ Keeps(p, v, s, o, m) /\ Tidy(p, v, o, m)
    BY <2>3, <2>6 DEF Agrees, Typed, Keeps, Tidy
  <2>8. Ends(p, o, m)
    <3>1. Ends(p, r, m)
      BY <2>6 DEF Agrees
    <3> QED
      BY <2>3, <3>1 DEF Ends, NormalEnd, ExitEnd, ReturnEnd, JumpEnd, Fires, Given
  <2> QED
    BY <2>4, <2>7, <2>8 DEF Agrees
<1>11. ASSUME m.flow \in {"break", "continue"} PROVE Agrees(p, v, s, o, e)
  <2> DEFINE broken == [r.st EXCEPT !.break_levels = @ - 1]
             continued == [r.st EXCEPT !.continue_levels = @ - 1]
             w == IF m.flow = "break" THEN broken ELSE continued
             reduced == [m EXCEPT !.levels = @ - 1]
  <2>1. /\ ~r.st.should_exit /\ ~r.st.return_requested
        /\ m.levels \in 1 .. p.loops + 1
        /\ r.st.break_levels = IF m.flow = "break" THEN m.levels ELSE 0
        /\ r.st.continue_levels = IF m.flow = "break" THEN 0 ELSE m.levels
        /\ r.status = 0 \/ r.st.errexit_ignored
    BY <1>3, <1>4, <1>11 DEF Ends, JumpEnd
  <2>2. m.levels \in Nat /\ m.levels > 0 /\ m.levels - 1 \in Nat /\ ~Leaves(r.st)
        /\ m.levels <= p.loops + 1
    BY <1>1, <2>1 DEF Leaves
  <2>3. /\ w \in States /\ w.errexit_ignored = r.st.errexit_ignored /\ w.ran = r.st.ran
        /\ w.fuel = r.st.fuel
        /\ w.errexit = r.st.errexit /\ w.loop_depth = r.st.loop_depth
        /\ w.function_depth = r.st.function_depth /\ w.should_exit = r.st.should_exit
        /\ w.return_requested = r.st.return_requested
        /\ w.return_status = r.st.return_status
        /\ w.break_levels = IF m.flow = "break" THEN m.levels - 1 ELSE 0
        /\ w.continue_levels = IF m.flow = "break" THEN 0 ELSE m.levels - 1
    <3>1. ASSUME m.flow = "break" PROVE r.st.break_levels - 1 \in Nat /\ w = broken
      BY <2>1, <2>2, <3>1
    <3>2. ASSUME m.flow # "break" PROVE r.st.continue_levels - 1 \in Nat /\ w = continued
      BY <2>1, <2>2, <3>2
    <3>3. CASE m.flow = "break"
      BY <1>4, <2>1, <3>1, <3>3 DEF States
    <3>4. CASE m.flow # "break"
      BY <1>4, <2>1, <3>2, <3>4 DEF States
    <3> QED
      BY <3>3, <3>4
  <2>4. /\ next_.st = w /\ next_.status = 0
        /\ next_.again <=> m.flow = "continue" /\ m.levels = 1
    <3>1. CASE m.flow = "break"
      <4>1. r.st.break_levels > 0
        BY <2>1, <2>2, <3>1
      <4>2. next_ = [again |-> FALSE, st |-> broken, status |-> 0]
        BY <2>2, <4>1 DEF AfterBody
      <4> QED
        BY <3>1, <4>2
    <3>2. CASE m.flow = "continue"
      <4>1. r.st.break_levels = 0 /\ r.st.continue_levels > 0
        BY <2>1, <2>2, <3>2
      <4> DEFINE last == r.st.continue_levels = 1
      <4>2. next_ = [again |-> last, st |-> continued, status |-> 0]
        BY <2>2, <4>1 DEF AfterBody
      <4> HIDE DEF last
      <4>3. next_.st = continued /\ next_.status = 0
        BY <4>2
      <4>4. next_.again <=> r.st.continue_levels = 1
        <5>1. next_.again = last
          BY <4>2
        <5> QED
          BY <5>1 DEF last
      <4>5. w = continued /\ r.st.continue_levels = m.levels
        BY <2>1, <3>2
      <4> HIDE DEF w, continued
      <4> QED
        BY <3>2, <4>3, <4>4, <4>5
    <3> QED
      BY <1>11, <3>1, <3>2
  <2>5. /\ reduced \in Outcomes /\ reduced.s = m.s /\ reduced.status = m.status
        /\ reduced.flow = m.flow /\ reduced.levels = m.levels - 1
    BY <1>4, <2>2 DEF Outcomes
  <2>6. /\ Normal(m.s, 0) \in Outcomes /\ Normal(m.s, 0).s = m.s /\ Normal(m.s, 0).status = 0
        /\ Normal(m.s, 0).flow = "none"
    BY <1>4 DEF Normal, Outcome, Outcomes, Flows
  <2>7. e = IF m.levels > 1 THEN reduced
            ELSE IF m.flow = "break" THEN Normal(m.s, 0)
            ELSE g[Task(node, at, c, m.s, Normal(m.s, 0))]
    <3>1. CASE m.levels > 1
      BY <1>11, <2>2, <3>1 DEF AfterTurn
    <3>2. CASE m.levels <= 1 /\ m.flow = "break"
      BY <2>2, <3>2 DEF AfterTurn
    <3>3. CASE m.levels <= 1 /\ m.flow = "continue"
      BY <2>2, <3>3 DEF AfterTurn
    <3> QED
      BY <1>11, <2>2, <3>1, <3>2, <3>3
  <2> HIDE DEF w, e
  <2>8. CASE m.levels > 1
    <3>1. ~next_.again /\ o.st = w /\ o.status = 0
      BY <2>4, <2>8 DEF Result
    <3>2. e = reduced /\ m.levels - 1 \in 1 .. p.loops
      BY <1>1, <2>2, <2>7, <2>8
    <3> HIDE DEF o, reduced
    <3>3. Typed(o, e)
      BY <2>3, <2>5, <3>1, <3>2 DEF Typed
    <3>4. Keeps(p, v, s, o, e)
      BY <1>3, <1>4, <2>3, <2>5, <3>1, <3>2 DEF Keeps
    <3>5. Tidy(p, v, o, e)
      BY <1>7, <1>11, <2>3, <2>5, <3>1, <3>2 DEF Tidy
    <3>6. JumpEnd(p, o, e)
      BY <2>1, <2>3, <2>5, <3>1, <3>2 DEF JumpEnd
    <3> QED
      BY <1>11, <2>5, <3>2, <3>3, <3>4, <3>5, <3>6
         DEF Agrees, Ends, NormalEnd, ExitEnd, ReturnEnd
  <2>9. CASE m.levels = 1 /\ m.flow = "break"
    <3> DEFINE normal == Normal(m.s, 0)
    <3>1. ~next_.again /\ o.st = w /\ o.status = 0
      BY <2>4, <2>9 DEF Result
    <3>2. e = normal
      BY <2>7, <2>9
    <3> HIDE DEF o, normal
    <3>3. /\ e \in Outcomes /\ e.s = m.s /\ e.status = 0 /\ e.flow = "none"
      BY <2>6, <3>2 DEF normal
    <3>4. Typed(o, e)
      BY <2>3, <3>1, <3>3 DEF Typed
    <3>5. Keeps(p, v, s, o, e)
      BY <1>3, <1>4, <2>3, <3>1, <3>3 DEF Keeps
    <3>6. Tidy(p, v, o, e)
      BY <1>7, <1>11, <2>3, <3>1, <3>3 DEF Tidy
    <3>7. ~Interrupted(w) /\ ~Fires(p, o)
      BY <2>1, <2>3, <2>9, <3>1 DEF Interrupted, has_pending_flow_control, Fires, Failing
    <3> QED
      BY <3>1, <3>3, <3>4, <3>5, <3>6, <3>7
         DEF Agrees, Ends, NormalEnd, ExitEnd, ReturnEnd, JumpEnd
  <2>10. CASE m.levels = 1 /\ m.flow = "continue"
    <3>1. o = f[Call(node, at, w, 0)]
      BY <2>4, <2>10
    <3>2. e = g[Task(node, at, c, m.s, Normal(m.s, 0))]
      BY <2>7, <2>10
    <3>3. ~Interrupted(w)
      BY <2>1, <2>3, <2>10 DEF Interrupted, has_pending_flow_control
    <3>4. Alike(w, [r.st EXCEPT !.continue_levels = w.continue_levels])
      BY <1>4, <2>1, <2>3, <2>10 DEF Alike, States
    <3> DEFINE normal == Normal(m.s, 0)
    <3> HIDE DEF normal
    <3>5. normal \in Outcomes /\ normal.flow = "none" /\ normal.s = m.s /\ normal.status = 0
      BY <2>6 DEF normal
    <3>6. Agrees(p, v, s, f[Call(node, at, w, 0)], g[Task(node, at, c, m.s, normal)])
      <4>1. 0 \in Nat /\ m.flow # "exit"
        BY <2>10
      <4> QED
        BY <1>2, <1>3, <2>3, <3>3, <3>4, <3>5, <4>1, TurnsAgain
    <3> QED
      BY <3>1, <3>2, <3>6 DEF normal
  <2> QED
    BY <1>11, <2>2, <2>8, <2>9, <2>10
<1> HIDE DEF o, e
<1>12. Agrees(p, v, s, o, e)
  BY <1>4, <1>9, <1>10, <1>11 DEF Flows
<1> QED
  BY <1>12 DEF o, e

(* The body of a loop, and what follows it.                                *)
LEMMA BodyAgrees ==
  ASSUME NEW f, NEW g, Good(f, g), NEW p \in Places, p.node.kind \in Loops,
         NEW turns, NEW at \in Nat \ {0}, at = Further(p.node, turns),
         NEW v \in States, NEW c \in Contexts, NEW s \in Stores, Turns(p, v, c, s, 0),
         NEW r, r = RunBranch(f, v, p.node.body),
         NEW m, m = PartMeans(g, Inside(c), s, p.node.body),
         NEW next_, next_ = AfterBody(r.st, r.status)
  PROVE  Agrees(p, v, s,
                IF next_.again THEN f[Call(p.node, at, next_.st, next_.status)]
                ELSE Result(next_.st, next_.status),
                AfterTurn(g, c, p.node, turns, m))
<1> DEFINE q == LoopBodyPlace(p)
           d == Inside(c)
<1>1. PlaceOf(p) /\ p.loops \in Nat /\ p.mode \in {"live", "off"}
  BY PlacesAre DEF PlaceOf, SimpleKinds, Loops
<1>2. q \in Places
  BY PlacesAre DEF Fits, SimpleKinds, Loops
<1>3. /\ q.node = p.node.body /\ q.loops = p.loops + 1 /\ q.mode = p.mode
      /\ q.returns = p.returns
  BY DEF LoopBodyPlace, Place
<1>4. d \in Contexts /\ d.ignoring = c.ignoring /\ d.loops = c.loops + 1 /\ c.loops \in Nat
  BY DEF Inside, Contexts
<1>5. Enters(p, v, c, s) /\ Clear(p, v) /\ v.loop_depth > p.loops /\ v.loop_depth \in Int
  BY DEF Turns, States
<1> HIDE DEF q, d
<1>6. Enters(q, v, d, s) /\ Clear(q, v)
  <2>1. ModeFits(q, v, d, s) /\ Clear(q, v)
    BY <1>3, <1>4, <1>5 DEF Enters, ModeFits, Clear
  <2>2. v.loop_depth >= q.loops /\ d.loops >= q.loops
    BY <1>1, <1>3, <1>4, <1>5 DEF Enters
  <2> QED
    BY <1>3, <1>5, <2>1, <2>2 DEF Enters
<1>7. q.mode # "operand"
  BY <1>1, <1>3
<1>8. /\ Agrees(q, v, s, r, m)
      /\ Interrupted(r.st) <=> m.flow # "none"
      /\ m.flow = "exit" => r.st.should_exit
  BY <1>2, <1>3, <1>4, <1>6, <1>7, BranchAgrees DEF d
<1> QED
  BY <1>8, TurnAgrees DEF q

(* A while loop that its condition ends has the status of its body.        *)
LEMMA LoopConditionEnds ==
  ASSUME NEW p \in Places, p.node.kind = "while", NEW q, q = LoopConditionPlace(p),
         NEW v \in States, NEW c, NEW s, NEW status \in Nat, Turns(p, v, c, s, status),
         NEW r, NEW m, m.flow # "none", NEW o, o = Result(r.st, status),
         Typed(r, m), Tidy(q, v, r, m), Ends(q, r, m),
         r.st.ran = m.s.ran, r.st.fuel = m.s.fuel,
         r.st.loop_depth = v.loop_depth, r.st.function_depth = v.function_depth,
         r.st.errexit = v.errexit, m.s.errexit = s.errexit
  PROVE  Agrees(p, v, s, o, m) /\ m.flow \in {"return", "exit"}
<1>1. PlaceOf(p) /\ p \in PlaceSet /\ p.mode \in {"live", "off"} /\ p.node.kind # "brace"
  BY PlacesAre DEF PlaceOf, SimpleKinds
<1>2. p.returns \in {"none", "exact", "any"} /\ p.exits \in {"none", "exact", "any"}
  BY <1>1 DEF PlaceSet
<1>3. /\ q.loops = 0 /\ q.mode = "off" /\ q.tail = Before(p)
      /\ q.returns # "none" => p.returns = "any"
      /\ p.mode = "off" /\ q.exits # "none" => p.exits = "any"
  BY <1>2 DEF LoopConditionPlace, Place, Lax
<1>4. /\ ModeFits(p, v, c, s) /\ Clear(p, v)
      /\ p.mode # "off" => status = 0 \/ ~v.errexit
  BY DEF Turns, Enters
<1>5. o.st = r.st /\ o.status = status
  BY DEF Result
<1>6. m \in Outcomes /\ r.st \in States /\ m.flow \in Flows
  BY DEF Typed, Outcomes
<1>7. Typed(o, m)
  BY <1>5, <1>6 DEF Typed
<1>8. Keeps(p, v, s, o, m)
  BY <1>1, <1>4, <1>5 DEF Keeps, ModeFits
<1>9. Tidy(p, v, o, m)
  BY <1>1, <1>3, <1>5 DEF Tidy, Before
<1>10. p.mode # "off" => Given(p, o, m)
  BY <1>4, <1>5 DEF Given
<1>11. ~Fires(q, r)
  BY <1>3 DEF Fires
<1>12. ExitEnd(p, o, m)
  BY <1>3, <1>5, <1>10, <1>11 DEF Ends, ExitEnd
<1>13. ReturnEnd(p, o, m)
  BY <1>3, <1>5, <1>10 DEF Ends, ReturnEnd
<1>14. m.flow \notin {"break", "continue"}
  <2>1. ASSUME m.flow \in {"break", "continue"} PROVE m.levels \in 1 .. 0
    BY <1>3, <2>1 DEF Ends, JumpEnd
  <2> QED
    BY <2>1
<1>15. NormalEnd(p, o, m) /\ JumpEnd(p, o, m)
  BY <1>14 DEF NormalEnd, JumpEnd
<1> QED
  BY <1>6, <1>7, <1>8, <1>9, <1>12, <1>13, <1>14, <1>15 DEF Agrees, Ends, Flows

(* A loop that ends has the status of its last turn.                       *)
LEMMA LoopEnds ==
  ASSUME NEW p \in Places, p.node.kind \in Loops, NEW v \in States, NEW w \in States,
         NEW s \in Stores, NEW t \in Stores, NEW c, NEW status \in Nat,
         Turns(p, v, c, s, status), NEW last \in Outcomes,
         last.flow = "none", last.status = status,
         NEW o, o = Result(w, status), NEW e, e = [last EXCEPT !.s = t],
         ~Interrupted(w), w.ran = t.ran, w.fuel = t.fuel,
         w.loop_depth = v.loop_depth, w.function_depth = v.function_depth,
         w.errexit = v.errexit, t.errexit = s.errexit,
         ~v.errexit_ignored /\ ~Before(p) => ~w.errexit_ignored
  PROVE  Agrees(p, v, s, o, e)
<1>1. PlaceOf(p) /\ p.mode \in {"live", "off"} /\ p.node.kind # "brace"
  BY PlacesAre DEF PlaceOf, SimpleKinds, Loops
<1>2. /\ ModeFits(p, v, c, s)
      /\ p.mode # "off" => status = 0 \/ ~v.errexit
  BY DEF Turns, Enters
<1>3. o.st = w /\ o.status = status
  BY DEF Result
<1>4. e \in Outcomes /\ e.s = t /\ e.status = status /\ e.flow = "none"
  BY DEF Outcomes
<1>5. Typed(o, e)
  BY <1>3, <1>4 DEF Typed
<1>6. Keeps(p, v, s, o, e)
  BY <1>1, <1>2, <1>3, <1>4 DEF Keeps, ModeFits
<1>7. Tidy(p, v, o, e)
  BY <1>1, <1>3 DEF Tidy, Before
<1>8. ~Fires(p, o)
  BY <1>2, <1>3 DEF Fires, Failing
<1> QED
  BY <1>3, <1>4, <1>5, <1>6, <1>7, <1>8
     DEF Agrees, Ends, NormalEnd, ExitEnd, ReturnEnd, JumpEnd

(* A while loop that may take another turn.                                *)
LEMMA WhileAgrees ==
  ASSUME NEW f, NEW g, Good(f, g), NEW p \in Places, p.node.kind = "while",
         NEW v \in States, NEW c \in Contexts, NEW s \in Stores, NEW status \in Nat,
         Turns(p, v, c, s, status), NEW last \in Outcomes,
         last.flow = "none", last.status = status
  PROVE  Agrees(p, v, s, RunWhile(f, v, p.node, status), WhileLoop(g, c, s, p.node, last))
<1> DEFINE node == p.node
           q == LoopConditionPlace(p)
           d == Ignoring(Inside(c))
           r == RunCondition(f, v, node.cond)
           m == PartMeans(g, d, s, node.cond)
           body == RunBranch(f, r.st, node.body)
           meant == PartMeans(g, Inside(c), m.s, node.body)
           next_ == AfterBody(body.st, body.status)
           again == IF next_.again THEN f[Call(node, 1, next_.st, next_.status)]
                    ELSE Result(next_.st, next_.status)
           turn == AfterTurn(g, c, node, 0, meant)
           Goal == Agrees(p, v, s, RunWhile(f, v, node, status), WhileLoop(g, c, s, node, last))
<1>1. PlaceOf(p) /\ p \in PlaceSet /\ p.loops \in Nat /\ p.mode \in {"live", "off"}
  BY PlacesAre DEF PlaceOf, SimpleKinds
<1>2. q \in Places
  BY PlacesAre DEF Fits, SimpleKinds
<1>3. /\ q.node = node.cond /\ q.loops = 0 /\ q.mode = "off" /\ q.tail = Before(p)
      /\ q.returns # "none" => p.returns # "none"
  BY DEF LoopConditionPlace, Place, Lax
<1>4. d \in Contexts /\ d.ignoring /\ d.loops \in Nat
  <2>1. Inside(c) \in Contexts
    BY DEF Inside, Contexts
  <2> QED
    BY <2>1 DEF Ignoring, Contexts
<1>5. Enters(p, v, c, s) /\ Clear(p, v) /\ v.loop_depth > p.loops /\ v.loop_depth \in Int
  BY DEF Turns, States
<1>6. RunWhile(f, v, node, status) =
        IF Leaves(r.st) \/ r.status # 0 THEN Result(r.st, status) ELSE again
  BY DEF RunWhile
<1>7. WhileLoop(g, c, s, node, last) =
        CASE m.flow # "none" -> AfterTurn(g, c, node, 0, m)
          [] m.flow = "none" /\ m.status # 0 -> [last EXCEPT !.s = m.s]
          [] OTHER -> turn
  BY DEF WhileLoop
<1> HIDE DEF q, d
<1>8. /\ ~Interrupted(v) /\ v.ran = s.ran /\ v.fuel = s.fuel
      /\ v.loop_depth >= q.loops /\ d.loops >= q.loops /\ v.function_depth >= 0
      /\ q.returns # "none" => v.function_depth > 0
      /\ ModeFits(p, v, c, s)
  BY <1>1, <1>3, <1>4, <1>5 DEF Enters
<1>9. /\ Typed(r, m) /\ Tidy(q, v, r, m) /\ Ends(q, r, m)
      /\ r.st.ran = m.s.ran /\ r.st.fuel = m.s.fuel
      /\ r.st.loop_depth = v.loop_depth /\ r.st.function_depth = v.function_depth
      /\ r.st.errexit = v.errexit /\ m.s.errexit = s.errexit
      /\ Interrupted(r.st) <=> m.flow # "none"
  BY <1>2, <1>3, <1>4, <1>8, ConditionAgrees
<1> HIDE DEF r, m
<1>10. r.st \in States /\ m.s \in Stores
  BY <1>9 DEF Typed, Outcomes
<1>11. ASSUME m.flow # "none" PROVE Goal
  <2> DEFINE o == Result(r.st, status)
  <2>1. Agrees(p, v, s, o, m) /\ m.flow \in {"return", "exit"}
    BY <1>9, <1>11, LoopConditionEnds DEF q
  <2>2. WhileLoop(g, c, s, node, last) = m
    BY <1>7, <1>11, <2>1 DEF AfterTurn
  <2>3. Leaves(r.st)
    BY <1>3, <1>9, <2>1 DEF Ends, ExitEnd, ReturnEnd, Fires, Leaves
  <2> QED
    BY <1>6, <2>1, <2>2, <2>3
<1>12. ASSUME m.flow = "none", m.status # 0 PROVE Goal
  <2>1. r.status = m.status /\ ~Interrupted(r.st)
    BY <1>9, <1>12 DEF Ends, NormalEnd
  <2>2. WhileLoop(g, c, s, node, last) = [last EXCEPT !.s = m.s]
    BY <1>7, <1>12
  <2>3. RunWhile(f, v, node, status) = Result(r.st, status)
    BY <1>6, <1>12, <2>1
  <2>4. ~v.errexit_ignored /\ ~Before(p) => ~r.st.errexit_ignored
    BY <1>3, <1>9, <1>12 DEF Tidy
  <2>5. p.node.kind \in Loops
    BY DEF Loops
  <2> QED
    BY <1>9, <1>10, <2>1, <2>2, <2>3, <2>4, <2>5, LoopEnds
<1>13. ASSUME m.flow = "none", m.status = 0 PROVE Goal
  <2>1. r.status = 0 /\ ~Interrupted(r.st)
    BY <1>9, <1>13 DEF Ends, NormalEnd
  <2>2. WhileLoop(g, c, s, node, last) = turn
    BY <1>7, <1>13
  <2>3. RunWhile(f, v, node, status) = again
    BY <1>6, <2>1 DEF Leaves, Interrupted, has_pending_flow_control
  <2>4. ~v.errexit_ignored /\ ~Before(p) => ~r.st.errexit_ignored
    BY <1>3, <1>9, <1>13 DEF Tidy
  <2>5. Clear(p, r.st)
    BY <1>5, <2>4 DEF Clear, Before
  <2>6. Turns(p, r.st, c, m.s, 0)
    <3>1. ModeFits(p, r.st, c, m.s)
      BY <1>8, <1>9 DEF ModeFits
    <3>2. Enters(p, r.st, c, m.s)
      BY <1>5, <1>9, <2>1, <3>1 DEF Enters
    <3> QED
      BY <1>5, <1>9, <2>5, <3>2 DEF Turns
  <2>7. p.node.kind \in Loops /\ 1 = Further(node, 0) /\ 1 \in Nat \ {0}
    BY DEF Loops, Further
  <2>8. Agrees(p, r.st, m.s, again, turn)
    BY <1>10, <2>6, <2>7, BodyAgrees
  <2> HIDE DEF again, turn
  <2>9. p.mode = "off" => m.s.errexit = s.errexit
    BY <1>9
  <2>10. ~p.tail /\ ~v.errexit_ignored => ~r.st.errexit_ignored
    BY <2>4 DEF Before
  <2>11. Agrees(p, v, s, again, turn)
    BY <1>9, <2>8, <2>9, <2>10, Chained
  <2> QED
    BY <2>2, <2>3, <2>11
<1> QED
  BY <1>11, <1>12, <1>13

(* A for loop that has n words left.                                       *)
LEMMA ForAgrees ==
  ASSUME NEW f, NEW g, Good(f, g), NEW p \in Places, p.node.kind = "for", NEW n \in Nat,
         NEW v \in States, NEW c \in Contexts, NEW s \in Stores, NEW status \in Nat,
         Turns(p, v, c, s, status), NEW last \in Outcomes,
         last.flow = "none", last.status = status
  PROVE  Agrees(p, v, s, RunFor(f, v, p.node, n, status), ForLoop(g, c, s, p.node, n, last))
<1> DEFINE node == p.node
           Goal == Agrees(p, v, s, RunFor(f, v, node, n, status),
                          ForLoop(g, c, s, node, n, last))
<1>1. p.node.kind \in Loops
  BY DEF Loops
<1>2. Enters(p, v, c, s) /\ Clear(p, v)
  BY DEF Turns
<1>3. ASSUME n = 0 PROVE Goal
  <2>1. RunFor(f, v, node, n, status) = Result(v, status)
    BY <1>3 DEF RunFor
  <2>2. ForLoop(g, c, s, node, n, last) = [last EXCEPT !.s = s]
    BY <1>3 DEF ForLoop
  <2>3. ~Interrupted(v) /\ v.ran = s.ran /\ v.fuel = s.fuel
    BY <1>2 DEF Enters
  <2> QED
    BY <1>1, <2>1, <2>2, <2>3, LoopEnds
<1>4. ASSUME n # 0 PROVE Goal
  <2> DEFINE body == RunBranch(f, v, node.body)
             meant == PartMeans(g, Inside(c), s, node.body)
             next_ == AfterBody(body.st, body.status)
             again == IF next_.again THEN f[Call(node, n, next_.st, next_.status)]
                      ELSE Result(next_.st, next_.status)
             turn == AfterTurn(g, c, node, n, meant)
  <2>1. ~v.should_exit
    BY <1>2 DEF Enters, Interrupted
  <2>2. RunFor(f, v, node, n, status) = again
    BY <1>4, <2>1 DEF RunFor
  <2>3. ForLoop(g, c, s, node, n, last) = turn
    BY <1>4 DEF ForLoop
  <2>4. n = Further(node, n) /\ n \in Nat \ {0}
    BY <1>4 DEF Further
  <2>5. Turns(p, v, c, s, 0)
    BY DEF Turns
  <2>6. Agrees(p, v, s, again, turn)
    BY <1>1, <2>4, <2>5, BodyAgrees
  <2> HIDE DEF again, turn
  <2> QED
    BY <2>2, <2>3, <2>6
<1> QED
  BY <1>3, <1>4

(* Outside of the loop, one loop less encloses the commands.               *)
LEMMA LeftAgrees ==
  ASSUME NEW p, NEW v \in States, NEW u \in States, NEW s, NEW r, NEW m,
         Agrees(p, u, s, r, m), u = InLoop(v)
  PROVE  Agrees(p, v, s, OutOfLoop(r), m)
<1> DEFINE w == [r.st EXCEPT !.loop_depth = @ - 1]
           o == Result(w, r.status)
<1>1. Typed(r, m) /\ Keeps(p, u, s, r, m) /\ Tidy(p, u, r, m) /\ Ends(p, r, m)
  BY DEF Agrees
<1>2. /\ u.loop_depth = v.loop_depth + 1 /\ v.loop_depth \in Int
      /\ u.function_depth = v.function_depth /\ u.errexit_ignored = v.errexit_ignored
  BY DEF InLoop, States
<1>3. /\ w \in States /\ w.loop_depth = r.st.loop_depth - 1
      /\ w.errexit = r.st.errexit /\ w.errexit_ignored = r.st.errexit_ignored
      /\ w.should_exit = r.st.should_exit /\ w.exit_status = r.st.exit_status
      /\ w.break_levels = r.st.break_levels /\ w.continue_levels = r.st.continue_levels
      /\ w.return_requested = r.st.return_requested /\ w.return_status = r.st.return_status
      /\ w.function_depth = r.st.function_depth
      /\ w.fuel = r.st.fuel /\ w.ran = r.st.ran
  <2>1. ASSUME NEW x \in States, NEW y, y = [x EXCEPT !.loop_depth = @ - 1]
        PROVE  /\ y \in States /\ y.loop_depth = x.loop_depth - 1
               /\ y.errexit = x.errexit /\ y.errexit_ignored = x.errexit_ignored
               /\ y.should_exit = x.should_exit /\ y.exit_status = x.exit_status
               /\ y.break_levels = x.break_levels /\ y.continue_levels = x.continue_levels
               /\ y.return_requested = x.return_requested /\ y.return_status = x.return_status
               /\ y.function_depth = x.function_depth
               /\ y.fuel = x.fuel /\ y.ran = x.ran
    <3>1. x.loop_depth - 1 \in Int
      <4>1. x.loop_depth \in Int
        BY DEF States
      <4> QED
        BY <4>1
    <3> QED
      BY <2>1, <3>1 DEF States
  <2> QED
    BY <1>1, <2>1 DEF Typed
<1>4. OutOfLoop(r) = o
  BY DEF OutOfLoop
<1>5. o.st = w /\ o.status = r.status
  BY DEF Result
<1> HIDE DEF w, o
<1>6. Typed(o, m)
  BY <1>1, <1>3, <1>5 DEF Typed
<1>7. Keeps(p, v, s, o, m)
  BY <1>1, <1>2, <1>3, <1>5 DEF Keeps
<1>8. Tidy(p, v, o, m)
  BY <1>1, <1>2, <1>3, <1>5 DEF Tidy
<1>9. Interrupted(w) <=> Interrupted(r.st)
  BY <1>3 DEF Interrupted, has_pending_flow_control
<1>10. Fires(p, o) <=> Fires(p, r)
  BY <1>3, <1>5, <1>9 DEF Fires, Failing
<1>11. Given(p, r, m) => Given(p, o, m)
  BY <1>3, <1>5 DEF Given
<1>12. NormalEnd(p, o, m)
  BY <1>1, <1>5, <1>9, <1>10 DEF Ends, NormalEnd
<1>13. ExitEnd(p, o, m)
  BY <1>1, <1>3, <1>5, <1>10, <1>11 DEF Ends, ExitEnd
<1>14. ReturnEnd(p, o, m)
  BY <1>1, <1>3, <1>5, <1>11 DEF Ends, ReturnEnd
<1>15. JumpEnd(p, o, m)
  BY <1>1, <1>3, <1>5 DEF Ends, JumpEnd
<1> QED
  BY <1>4, <1>6, <1>7, <1>8, <1>12, <1>13, <1>14, <1>15 DEF Agrees, Ends

(* A loop that begins may take a turn.                                     *)
LEMMA LoopBegins ==
  ASSUME NEW p \in Places, NEW v \in States, NEW c \in Contexts, NEW s \in Stores,
         Enters(p, v, c, s), Clear(p, v)
  PROVE  InLoop(v) \in States /\ Turns(p, InLoop(v), c, s, 0)
<1> DEFINE u == InLoop(v)
<1>1. /\ u \in States /\ u.loop_depth = v.loop_depth + 1
      /\ u.errexit = v.errexit /\ u.errexit_ignored = v.errexit_ignored
      /\ u.should_exit = v.should_exit
      /\ u.break_levels = v.break_levels /\ u.continue_levels = v.continue_levels
      /\ u.return_requested = v.return_requested
      /\ u.function_depth = v.function_depth
      /\ u.fuel = v.fuel /\ u.ran = v.ran /\ v.loop_depth \in Int
  BY DEF InLoop, States
<1>2. p.loops \in Nat
  BY PlacesAre DEF PlaceOf
<1> HIDE DEF u
<1>3. u.loop_depth > p.loops /\ u.loop_depth >= p.loops
  BY <1>1, <1>2 DEF Enters
<1>4. ~Interrupted(u)
  BY <1>1 DEF Enters, Interrupted, has_pending_flow_control
<1>5. ModeFits(p, u, c, s) /\ Clear(p, u)
  BY <1>1 DEF Enters, ModeFits, Clear
<1>6. Enters(p, u, c, s)
  BY <1>1, <1>3, <1>4, <1>5 DEF Enters
<1>7. Turns(p, u, c, s, 0)
  BY <1>3, <1>5, <1>6 DEF Turns
<1> QED
  BY <1>1, <1>7 DEF u

-----------------------------------------------------------------------------
(* Every command.                                                          *)

(* Nor does a call that is not followed disagree.                          *)
LEMMA NotFollowedAgrees ==
  ASSUME NEW p \in Places, NEW x \in Calls, NEW y \in Tasks, Related(p, x, y)
  PROVE  Agrees(p, x.st, y.s, NotFollowed(x.st), Normal(y.s, 0))
<1> DEFINE v == x.st
           w == [v EXCEPT !.errexit_ignored = FALSE]
           r == NotFollowed(v)
           m == Normal(y.s, 0)
<1>1. v \in States /\ y.s \in Stores
  BY DEF Calls, Tasks
<1>2. Enters(p, v, y.c, y.s)
  BY DEF Related
<1>3. p.mode \in {"live", "operand", "off"}
  BY PlacesAre DEF PlaceOf
<1> HIDE DEF v
<1>4. /\ w \in States /\ ~w.errexit_ignored /\ w.ran = v.ran /\ w.fuel = v.fuel
      /\ w.errexit = v.errexit /\ w.loop_depth = v.loop_depth
      /\ w.function_depth = v.function_depth /\ w.should_exit = v.should_exit
      /\ w.break_levels = v.break_levels /\ w.continue_levels = v.continue_levels
      /\ w.return_requested = v.return_requested
  BY <1>1 DEF States
<1>5. r.st = w /\ r.status = 0
  BY DEF NotFollowed, Result
<1>6. m \in Outcomes /\ m.s = y.s /\ m.status = 0 /\ m.flow = "none"
  BY <1>1 DEF Normal, Outcome, Outcomes, Flows
<1> HIDE DEF w, r, m
<1>7. Typed(r, m)
  BY <1>4, <1>5, <1>6 DEF Typed
<1>8. Keeps(p, v, y.s, r, m)
  BY <1>2, <1>3, <1>4, <1>5, <1>6 DEF Keeps, Enters, ModeFits
<1>9. Tidy(p, v, r, m)
  BY <1>4, <1>5 DEF Tidy
<1>10. ~Interrupted(w) /\ ~Fires(p, r)
  BY <1>2, <1>4, <1>5 DEF Enters, Interrupted, has_pending_flow_control, Fires, Failing
<1>11. Agrees(p, v, y.s, r, m)
  BY <1>5, <1>6, <1>7, <1>8, <1>9, <1>10
     DEF Agrees, Ends, NormalEnd, ExitEnd, ReturnEnd, JumpEnd
<1> QED
  BY <1>11 DEF v, r, m

(* The executor follows the meaning one call further.                      *)
LEMMA StepAgrees ==
  ASSUME NEW f, NEW g, Good(f, g), NEW p \in Places, NEW x \in Calls, NEW y \in Tasks,
         Related(p, x, y)
  PROVE  Agrees(p, x.st, y.s, Execute(f, x), Mean(g, y))
<1> DEFINE node == p.node
           v == x.st
           s == y.s
           c == y.c
           at == x.at
           first == IF at = 0 THEN 1 ELSE at
           Goal == Agrees(p, v, s, Execute(f, x), Mean(g, y))
<1>1. /\ v \in States /\ at \in Nat /\ x.status \in Nat
      /\ c \in Contexts /\ s \in Stores /\ y.last \in Outcomes
  BY DEF Calls, Tasks
<1>2. x.node = node /\ y.node = node /\ y.at = at /\ Enters(p, v, c, s)
  BY DEF Related
<1>3. PlaceOf(p) /\ Formed(node)
  BY PlacesAre DEF PlaceOf
<1>4. Starts(p, x, y) \/ Resumes(p, x, y)
  BY DEF Related
<1>5. Starts(p, x, y) => /\ at = 0 /\ Clear(p, v)
                         /\ y.last.flow = "none" /\ y.last.status = 0 /\ y.last.s = s
  BY DEF Starts, Normal, Outcome
<1>6. Resumes(p, x, y) =>
        /\ at # 0 /\ y.last.flow = "none" /\ y.last.s = s /\ y.last.status = x.status
        /\ GoesOn(p, at, v, x.status)
  BY DEF Resumes
<1>7. node.kind \notin Lists \cup Loops => at = 0 /\ Clear(p, v)
  BY <1>4, <1>5, <1>6 DEF GoesOn, Lists, Loops
<1> HIDE DEF v, s, c, at
<1>8. ASSUME node.kind \in SimpleKinds PROVE Goal
  <2>1. Execute(f, x) = Simple(v, node)
    BY <1>2, <1>8 DEF Execute, SimpleKinds, v
  <2>2. Mean(g, y) = Leaf(c, s, node)
    BY <1>2, <1>8 DEF Mean, SimpleKinds, c, s
  <2>3. Clear(p, v)
    BY <1>7, <1>8 DEF SimpleKinds, Lists, Loops
  <2> QED
    BY <1>1, <1>2, <1>8, <2>1, <2>2, <2>3, SimpleAgrees
<1>9. ASSUME node.kind = "sequence" PROVE Goal
  <2>1. Execute(f, x) = RunSequence(f, v, node, first)
    BY <1>2, <1>9 DEF Execute, SimpleKinds, v, at
  <2>2. Mean(g, y) = InOrder(g, c, s, node, first)
    BY <1>2, <1>9 DEF Mean, SimpleKinds, c, s, at
  <2>3. node.items \in Seq(Commands) /\ node.items # <<>>
    BY <1>3, <1>9 DEF Formed, Lists
  <2>4. first \in 1 .. Len(node.items) /\ Clear(p, v)
    <3>1. CASE Starts(p, x, y)
      BY <1>5, <2>3, <3>1
    <3>2. CASE Resumes(p, x, y)
      <4>1. SequenceGoesOn(p, at, v) /\ at # 0
        BY <1>6, <1>9, <3>2 DEF GoesOn, Loops
      <4> QED
        BY <2>3, <4>1 DEF SequenceGoesOn
    <3> QED
      BY <1>4, <3>1, <3>2
  <2> QED
    BY <1>1, <1>2, <1>9, <2>1, <2>2, <2>4, SequenceAgrees
<1>10. ASSUME node.kind = "brace" PROVE Goal
  <2>1. Execute(f, x) = RunText(f, v, node, first)
    BY <1>2, <1>10 DEF Execute, SimpleKinds, v, at
  <2>2. Mean(g, y) = InOrder(g, c, s, node, first)
    BY <1>2, <1>10 DEF Mean, SimpleKinds, c, s, at
  <2>3. node.items \in Seq(Commands) /\ node.items # <<>>
    BY <1>3, <1>10 DEF Formed, Lists
  <2>4. first \in 1 .. Len(node.items)
    <3>1. CASE Starts(p, x, y)
      BY <1>5, <2>3, <3>1
    <3>2. CASE Resumes(p, x, y)
      <4>1. TextGoesOn(p, at) /\ at # 0
        BY <1>6, <1>10, <3>2 DEF GoesOn, Loops
      <4> QED
        BY <2>3, <4>1 DEF TextGoesOn
    <3> QED
      BY <1>4, <3>1, <3>2
  <2> QED
    BY <1>1, <1>2, <1>10, <2>1, <2>2, <2>4, TextAgrees
<1>11. ASSUME node.kind = "andor" PROVE Goal
  <2>1. CASE Starts(p, x, y)
    <3>1. Execute(f, x) = RunFirstOperand(f, v, node)
      BY <1>2, <1>5, <1>11, <2>1 DEF Execute, SimpleKinds, v, at
    <3>2. Mean(g, y) = FirstOperand(g, c, s, node)
      BY <1>2, <1>5, <1>11, <2>1 DEF Mean, SimpleKinds, c, s, at
    <3> QED
      BY <1>1, <1>2, <1>5, <1>11, <2>1, <3>1, <3>2, FirstOperandAgrees
  <2>2. CASE Resumes(p, x, y)
    <3>1. Execute(f, x) = RunAndOr(f, v, node, at, x.status)
      BY <1>2, <1>6, <1>11, <2>2 DEF Execute, SimpleKinds, v, at
    <3>2. Mean(g, y) = AndOr(g, c, node, at, y.last)
      BY <1>2, <1>6, <1>11, <2>2 DEF Mean, SimpleKinds, c, s, at
    <3>3. AndOrGoesOn(p, at, v, x.status)
      BY <1>6, <1>11, <2>2 DEF GoesOn, Loops
    <3>4. at \in 1 .. Len(node.ops)
      BY <3>3 DEF AndOrGoesOn
    <3> QED
      BY <1>1, <1>2, <1>6, <1>11, <2>2, <3>1, <3>2, <3>3, <3>4, AndOrAgrees
  <2> QED
    BY <1>4, <2>1, <2>2
<1>12. ASSUME node.kind = "not" PROVE Goal
  <2>1. Execute(f, x) = RunNegated(f, v, node)
    BY <1>2, <1>12 DEF Execute, SimpleKinds, v
  <2>2. Mean(g, y) = Negated(g, c, s, node)
    BY <1>2, <1>12 DEF Mean, SimpleKinds, c, s
  <2>3. Clear(p, v)
    BY <1>7, <1>12 DEF Lists, Loops
  <2> QED
    BY <1>1, <1>2, <1>12, <2>1, <2>2, <2>3, NotAgrees
<1>13. ASSUME node.kind = "subshell" PROVE Goal
  <2>1. Execute(f, x) = RunSubshell(f, v, node)
    BY <1>2, <1>13 DEF Execute, SimpleKinds, v
  <2>2. Mean(g, y) = Subshell(g, c, s, node)
    BY <1>2, <1>13 DEF Mean, SimpleKinds, c, s
  <2>3. Clear(p, v)
    BY <1>7, <1>13 DEF Lists, Loops
  <2> QED
    BY <1>1, <1>2, <1>13, <2>1, <2>2, <2>3, SubshellAgrees
<1>14. ASSUME node.kind = "if" PROVE Goal
  <2> DEFINE cond == PartMeans(g, Ignoring(c), s, node.cond)
             meant == IF cond.flow # "none" THEN cond
                      ELSE PartMeans(g, c, cond.s,
                                     IF cond.status = 0 THEN node.then ELSE node.else)
  <2>1. Execute(f, x) = ast_exec_run_if(f, v, node)
    BY <1>2, <1>14 DEF Execute, SimpleKinds, v
  <2>2. Mean(g, y) = meant
    BY <1>2, <1>14 DEF Mean, SimpleKinds, c, s
  <2>3. Clear(p, v)
    BY <1>7, <1>14 DEF Lists, Loops
  <2>4. Agrees(p, v, s, ast_exec_run_if(f, v, node), meant)
    BY <1>1, <1>2, <1>14, <2>3, IfAgrees
  <2> HIDE DEF cond, meant
  <2> QED
    BY <2>1, <2>2, <2>4
<1>15. ASSUME node.kind = "while" PROVE Goal
  <2>1. CASE Starts(p, x, y)
    <3> DEFINE u == InLoop(v)
               r == RunWhile(f, u, node, 0)
    <3>1. Execute(f, x) = OutOfLoop(r)
      BY <1>2, <1>5, <1>15, <2>1 DEF Execute, SimpleKinds, v, at
    <3>2. Mean(g, y) = WhileLoop(g, c, s, node, y.last)
      BY <1>2, <1>15 DEF Mean, SimpleKinds, c, s
    <3>3. u \in States /\ Turns(p, u, c, s, 0)
      BY <1>1, <1>2, <1>5, <2>1, LoopBegins
    <3> HIDE DEF u
    <3>4. Agrees(p, u, s, r, WhileLoop(g, c, s, node, y.last))
      BY <1>1, <1>5, <1>15, <2>1, <3>3, WhileAgrees
    <3> HIDE DEF r
    <3> QED
      BY <1>1, <3>1, <3>2, <3>3, <3>4, LeftAgrees DEF u
  <2>2. CASE Resumes(p, x, y)
    <3>1. Execute(f, x) = RunWhile(f, v, node, x.status)
      BY <1>2, <1>6, <1>15, <2>2 DEF Execute, SimpleKinds, v, at
    <3>2. Mean(g, y) = WhileLoop(g, c, s, node, y.last)
      BY <1>2, <1>15 DEF Mean, SimpleKinds, c, s
    <3>3. Turns(p, v, c, s, x.status)
      <4>1. LoopGoesOn(p, at, v, x.status)
        BY <1>6, <1>15, <2>2 DEF GoesOn
      <4> QED
        BY <1>2, <4>1 DEF LoopGoesOn, Turns
    <3> QED
      BY <1>1, <1>6, <1>15, <2>2, <3>1, <3>2, <3>3, WhileAgrees
  <2> QED
    BY <1>4, <2>1, <2>2
<1>16. ASSUME node.kind = "for" PROVE Goal
  <2>1. CASE Starts(p, x, y)
    <3> DEFINE u == InLoop(v)
               r == RunFor(f, u, node, node.words, 0)
    <3>1. Execute(f, x) = OutOfLoop(r)
      BY <1>2, <1>5, <1>16, <2>1 DEF Execute, SimpleKinds, v, at
    <3>2. Mean(g, y) = ForLoop(g, c, s, node, node.words, y.last)
      BY <1>2, <1>5, <1>16, <2>1 DEF Mean, SimpleKinds, c, s, at
    <3>3. u \in States /\ Turns(p, u, c, s, 0)
      BY <1>1, <1>2, <1>5, <2>1, LoopBegins
    <3>4. node.words \in Nat
      BY <1>3, <1>16 DEF Formed
    <3> HIDE DEF u
    <3>5. Agrees(p, u, s, r, ForLoop(g, c, s, node, node.words, y.last))
      BY <1>1, <1>5, <1>16, <2>1, <3>3, <3>4, ForAgrees
    <3> HIDE DEF r
    <3> QED
      BY <1>1, <3>1, <3>2, <3>3, <3>5, LeftAgrees DEF u
  <2>2. CASE Resumes(p, x, y)
    <3>1. Execute(f, x) = RunFor(f, v, node, at - 1, x.status)
      BY <1>2, <1>6, <1>16, <2>2 DEF Execute, SimpleKinds, v, at
    <3>2. Mean(g, y) = ForLoop(g, c, s, node, at - 1, y.last)
      BY <1>2, <1>6, <1>16, <2>2 DEF Mean, SimpleKinds, c, s, at
    <3>3. Turns(p, v, c, s, x.status)
      <4>1. LoopGoesOn(p, at, v, x.status)
        BY <1>6, <1>16, <2>2 DEF GoesOn
      <4> QED
        BY <1>2, <4>1 DEF LoopGoesOn, Turns
    <3>4. at - 1 \in Nat
      BY <1>1, <1>6, <2>2
    <3> QED
      BY <1>1, <1>6, <1>16, <2>2, <3>1, <3>2, <3>3, <3>4, ForAgrees
  <2> QED
    BY <1>4, <2>1, <2>2
<1>17. ASSUME node.kind = "call" PROVE Goal
  <2> DEFINE u == [v EXCEPT !.function_depth = @ + 1]
  <2>1. Execute(f, x) = Returned(Part(f, u, node.body))
    BY <1>2, <1>17 DEF Execute, SimpleKinds, v
  <2>2. Mean(g, y) = FunctionCall(g, c, s, node)
    BY <1>2, <1>17 DEF Mean, SimpleKinds, c, s
  <2>3. Clear(p, v)
    BY <1>7, <1>17 DEF Lists, Loops
  <2> QED
    BY <1>1, <1>2, <1>17, <2>1, <2>2, <2>3, CallAgrees
<1>18. node.kind \in SimpleKinds \cup Lists \cup Loops \cup {"not", "subshell", "if", "call"}
  BY <1>3 DEF Formed
<1>19. Goal
  <2> HIDE DEF Goal
  <2> QED
    BY <1>8, <1>9, <1>10, <1>11, <1>12, <1>13, <1>14, <1>15, <1>16, <1>17, <1>18
       DEF Lists, Loops
<1> QED
  BY <1>19 DEF v, s

(* However many nested calls are followed, the executor does what the      *)
(* command means.                                                          *)
THEOREM ExecutorKeepsPromise ==
  \A n \in 0 .. Patience : Good(Execution[n], Meaning[n])
<1> DEFINE T == {n \in 0 .. Patience : Good(Execution[n], Meaning[n])}
<1>1. Patience \in Nat /\ 0 \in 0 .. Patience
  BY PatienceAssumption
<1>2. 0 \in T
  <2>1. Execution[0] = [call \in Calls |-> NotFollowed(call.st)]
    BY <1>1, ExecutionIs
  <2>2. Meaning[0] = [task \in Tasks |-> Normal(task.s, 0)]
    BY <1>1, MeaningIs
  <2>3. ASSUME NEW p \in Places, NEW x \in Calls, NEW y \in Tasks, Related(p, x, y)
        PROVE  Agrees(p, x.st, y.s, Execution[0][x], Meaning[0][y])
    <3>1. Execution[0][x] = NotFollowed(x.st) /\ Meaning[0][y] = Normal(y.s, 0)
      BY <2>1, <2>2
    <3> QED
      BY <2>3, <3>1, NotFollowedAgrees
  <2>4. Good(Execution[0], Meaning[0])
    BY <2>3 DEF Good
  <2> QED
    BY <1>1, <2>4
<1>3. ASSUME NEW n \in 0 .. Patience, n \in T, n < Patience PROVE n + 1 \in T
  <2>1. n + 1 \in 0 .. Patience /\ n + 1 # 0 /\ (n + 1) - 1 = n
    BY <1>1, <1>3
  <2> DEFINE k == n + 1
  <2> HIDE DEF k
  <2>2. k \in 0 .. Patience /\ k # 0 /\ k - 1 = n
    BY <2>1 DEF k
  <2>3. Execution[k] = [call \in Calls |-> Execute(Execution[n], call)]
    BY <2>2, ExecutionIs
  <2>4. Meaning[k] = [task \in Tasks |-> Mean(Meaning[n], task)]
    BY <2>2, MeaningIs
  <2>5. Good(Execution[n], Meaning[n])
    BY <1>3
  <2>6. ASSUME NEW p \in Places, NEW x \in Calls, NEW y \in Tasks, Related(p, x, y)
        PROVE  Agrees(p, x.st, y.s, Execution[k][x], Meaning[k][y])
    <3>1. Execution[k][x] = Execute(Execution[n], x) /\ Meaning[k][y] = Mean(Meaning[n], y)
      BY <2>3, <2>4
    <3> QED
      BY <2>5, <2>6, <3>1, StepAgrees
  <2>7. Good(Execution[k], Meaning[k])
    BY <2>6 DEF Good
  <2> QED
    BY <2>2, <2>7 DEF k
<1> HIDE DEF T
<1>4. 0 .. Patience \subseteq T
  BY <1>1, <1>2, <1>3, UpTo
<1> QED
  BY <1>4 DEF T

-----------------------------------------------------------------------------
(* Scripts.                                                                *)

(* Nothing is left to commands that it could confuse.  A script of the one *)
(* kind never has errexit on.  In one of the other kind no command before  *)
(* the last leaves errexit_ignored set.                                    *)
OffScript == \A k \in DOMAIN script : AtTop(script[k], "off", TRUE)
LiveScript == \A k \in DOMAIN script : AtTop(script[k], "live", k = Len(script))

ScriptInvariant ==
  /\ script \in Seq(Commands)
  /\ next \in 1 .. Len(script) + 1
  /\ st \in States
  /\ \/ OffScript /\ ~st.errexit
     \/ LiveScript /\ (~st.should_exit /\ next <= Len(script) => ~st.errexit_ignored)
  /\ AgreesWithMeaning

(* A command of a script does what it means, and leaves the shell as it    *)
(* found it.                                                               *)
LEMMA CommandAgrees ==
  ASSUME NEW p \in Places, NEW v \in States, NEW errs, errs = v.errexit,
         p.loops = 0, p.returns = "none", p.exits = "any",
         (p.mode = "live" /\ ~v.errexit_ignored) \/ (p.mode = "off" /\ ~v.errexit),
         ~Interrupted(v), v.loop_depth = 0, v.function_depth = 0, v.fuel = Fuel,
         NEW w, w = shell_run_command(v, p.node),
         NEW m, m = MeaningOf(errs, Fuel, p.node)
  PROVE  /\ w \in States
         /\ w.ran = m.s.ran
         /\ w.should_exit = (m.flow = "exit")
         /\ m.status = IF w.should_exit THEN w.exit_status ELSE w.last_status
         /\ w.errexit = m.s.errexit
         /\ ~w.should_exit => /\ ~Interrupted(w) /\ w.loop_depth = 0 /\ w.function_depth = 0
                              /\ ~p.tail /\ ~v.errexit_ignored => ~w.errexit_ignored
         /\ p.mode = "off" => ~w.errexit
<1> DEFINE u == [v EXCEPT !.ran = <<>>]
           c == [ignoring |-> FALSE, loops |-> 0]
           s == [errexit |-> errs, fuel |-> Fuel, ran |-> <<>>]
           r == Part(Execution[Patience], u, p.node)
           noted == [r.st EXCEPT !.last_status = r.status]
<1>1. p \in PlaceSet /\ p.mode \in {"live", "off"} /\ p.mode # "operand"
  BY PlacesAssumption
<1>2. Good(Execution[Patience], Meaning[Patience])
  BY PatienceAssumption, ExecutorKeepsPromise
<1>3. /\ u \in States /\ u.ran = <<>>
      /\ u.errexit = v.errexit /\ u.errexit_ignored = v.errexit_ignored
      /\ u.should_exit = v.should_exit
      /\ u.break_levels = v.break_levels /\ u.continue_levels = v.continue_levels
      /\ u.return_requested = v.return_requested /\ u.fuel = v.fuel
      /\ u.loop_depth = v.loop_depth /\ u.function_depth = v.function_depth
  <2>1. <<>> \in Seq(Commands)
    OBVIOUS
  <2> QED
    BY <2>1 DEF States
<1>4. c \in Contexts /\ ~c.ignoring /\ c.loops = 0
  BY DEF Contexts
<1>5. s \in Stores /\ s.errexit = v.errexit /\ s.fuel = Fuel /\ s.ran = <<>>
  BY InputsAssumption DEF Stores, States
<1>6. w = maybe_trigger_errexit(noted, r.status)
  BY DEF shell_run_command, execute_ast_node
<1>7. m = PartMeans(Meaning[Patience], c, s, p.node)
  BY DEF MeaningOf
<1> HIDE DEF u, c, s
<1>8. Enters(p, u, c, s) /\ Clear(p, u)
  <2>1. ~Interrupted(u)
    BY <1>3 DEF Interrupted, has_pending_flow_control
  <2>2. ModeFits(p, u, c, s) /\ Clear(p, u)
    BY <1>3, <1>4, <1>5 DEF ModeFits, Clear
  <2> QED
    BY <1>3, <1>4, <1>5, <2>1, <2>2 DEF Enters
<1>9. Agrees(p, u, s, r, m)
  BY <1>2, <1>3, <1>4, <1>5, <1>7, <1>8, PartAgrees
<1> HIDE DEF r
<1>10. r.st \in States /\ r.status \in Nat /\ m \in Outcomes /\ m.flow \in Flows /\ Ends(p, r, m)
  BY <1>9 DEF Agrees, Typed, Outcomes
<1>11. Checks(w, r.st, r.status)
  BY <1>6, <1>10, NotedChecks
<1>12. w.last_status = r.status
  BY <1>6, <1>10 DEF maybe_trigger_errexit, Exit, States
<1>13. /\ Agrees(p, u, s, Result(w, r.status), m)
       /\ Interrupted(w) <=> m.flow # "none"
       /\ m.flow = "exit" => w.should_exit /\ w.exit_status = m.status
  BY <1>1, <1>9, <1>11, CheckedAgrees
<1>14. m.flow = "none" \/ m.flow = "exit"
  <2>1. m.flow # "return"
    BY <1>10 DEF Ends, ReturnEnd
  <2>2. ASSUME m.flow \in {"break", "continue"} PROVE m.levels \in 1 .. 0
    BY <1>10, <2>2 DEF Ends, JumpEnd
  <2> QED
    BY <1>10, <2>1, <2>2 DEF Flows
<1>15. w \in States
  BY <1>11 DEF Checks
<1>16. w.should_exit <=> m.flow = "exit"
  BY <1>13, <1>14 DEF Interrupted
<1>17. w.should_exit \in BOOLEAN
  BY <1>15 DEF States
<1>18. m.status = IF w.should_exit THEN w.exit_status ELSE w.last_status
  <2>1. m.flow = "none" => r.status = m.status
    BY <1>10 DEF Ends, NormalEnd
  <2> QED
    BY <1>12, <1>13, <1>14, <1>16, <2>1
<1>19. Keeps(p, u, s, Result(w, r.status), m) /\ Tidy(p, u, Result(w, r.status), m)
  BY <1>13 DEF Agrees
<1>20. Result(w, r.status).st = w
  BY DEF Result
<1>21. w.ran = m.s.ran /\ w.loop_depth = 0 /\ w.function_depth = 0
  BY <1>3, <1>19, <1>20 DEF Keeps
<1>22. w.errexit = m.s.errexit /\ (p.mode = "off" => ~w.errexit)
  <2>1. CASE p.mode = "live"
    BY <1>19, <1>20, <2>1 DEF Keeps
  <2>2. CASE p.mode = "off"
    <3>1. ~w.errexit /\ m.s.errexit = v.errexit /\ ~v.errexit
      BY <1>5, <1>19, <1>20, <2>2 DEF Keeps
    <3>2. w.errexit \in BOOLEAN /\ v.errexit \in BOOLEAN
      BY <1>15 DEF States
    <3> QED
      BY <3>1, <3>2
  <2> QED
    BY <1>1, <2>1, <2>2
<1>23. m.flow # "exit" /\ ~p.tail /\ ~v.errexit_ignored => ~w.errexit_ignored
  BY <1>3, <1>19, <1>20 DEF Tidy
<1>24. ~w.should_exit => ~Interrupted(w)
  BY <1>13, <1>14, <1>16
<1> QED
  BY <1>15, <1>16, <1>17, <1>18, <1>21, <1>22, <1>23, <1>24

(* No command has run yet.                                                 *)
LEMMA ScriptInit == Init => ScriptInvariant
<1> SUFFICES ASSUME Init PROVE ScriptInvariant
  OBVIOUS
<1>1. PICK input \in Inputs : /\ script = input.script
                              /\ st = StartState(input.errexit, Fuel)
  BY DEF Init
<1>2. /\ input.errexit \in BOOLEAN /\ script \in Seq(Commands) /\ Fuel \in Nat
      /\ (~input.errexit /\ OffScript) \/ LiveScript
  BY <1>1, InputsAssumption DEF OffScript, LiveScript
<1>3. /\ st \in States /\ st.errexit = input.errexit /\ ~st.errexit_ignored
      /\ ~has_pending_flow_control(st)
      /\ st.loop_depth = 0 /\ st.function_depth = 0
  BY <1>1, <1>2 DEF StartState, States, has_pending_flow_control
<1>4. next = 1 /\ next \in 1 .. Len(script) + 1
  BY <1>2 DEF Init
<1>5. AgreesWithMeaning
  BY <1>3, <1>4 DEF AgreesWithMeaning, NothingPending, Ran
<1> QED
  BY <1>2, <1>3, <1>4, <1>5 DEF ScriptInvariant

(* A command keeps the invariant.                                          *)
LEMMA ScriptNext == ScriptInvariant /\ [Next]_vars => ScriptInvariant'
<1> SUFFICES ASSUME ScriptInvariant, [Next]_vars PROVE ScriptInvariant'
  OBVIOUS
<1>1. CASE RunCommand
  <2> DEFINE node == script[next]
             v == [st EXCEPT !.fuel = Fuel]
             m == MeaningOf(st.errexit, Fuel, node)
             w == shell_run_command(v, node)
  <2>1. /\ script \in Seq(Commands) /\ next \in 1 .. Len(script) /\ Len(script) \in Nat
        /\ st \in States /\ ~st.should_exit
        /\ \/ OffScript /\ ~st.errexit
           \/ LiveScript /\ ~st.errexit_ignored
        /\ NothingPending
    BY <1>1 DEF ScriptInvariant, RunCommand, AgreesWithMeaning
  <2>2. /\ script' = script /\ next' = next + 1 /\ errexit' = st.errexit /\ st' = w
    BY <1>1 DEF RunCommand
  <2>3. PICK p \in Places :
          /\ p.node = node /\ p.loops = 0 /\ p.returns = "none" /\ p.exits = "any"
          /\ \/ p.mode = "off" /\ OffScript /\ ~st.errexit
             \/ /\ p.mode = "live" /\ LiveScript /\ ~st.errexit_ignored
                /\ next # Len(script) => ~p.tail
    <3>1. CASE OffScript /\ ~st.errexit
      <4> DEFINE p == Place(node, 0, "none", "any", "off", TRUE)
      <4>1. p \in Places
        BY <2>1, <3>1 DEF OffScript, AtTop, Place
      <4>2. /\ p.node = node /\ p.loops = 0 /\ p.returns = "none" /\ p.exits = "any"
            /\ p.mode = "off"
        BY DEF Place
      <4> HIDE DEF p
      <4> QED
        BY <3>1, <4>1, <4>2
    <3>2. CASE LiveScript /\ ~st.errexit_ignored
      <4> DEFINE final == next = Len(script)
                 p == Place(node, 0, "none", "any", "live", final)
      <4>1. p \in Places
        BY <2>1, <3>2 DEF LiveScript, AtTop
      <4>2. /\ p.node = node /\ p.loops = 0 /\ p.returns = "none" /\ p.exits = "any"
            /\ p.mode = "live" /\ p.tail = final
        <5> HIDE DEF final
        <5> QED
          BY DEF Place
      <4> HIDE DEF p
      <4>3. next # Len(script) => ~p.tail
        BY <4>2
      <4> QED
        BY <3>2, <4>1, <4>2, <4>3
    <3> QED
      BY <2>1, <3>1, <3>2
  <2>4. /\ v \in States /\ v.fuel = Fuel
        /\ v.errexit = st.errexit /\ v.errexit_ignored = st.errexit_ignored
        /\ v.should_exit = st.should_exit
        /\ v.break_levels = st.break_levels /\ v.continue_levels = st.continue_levels
        /\ v.return_requested = st.return_requested
        /\ v.loop_depth = st.loop_depth /\ v.function_depth = st.function_depth
    BY <2>1, InputsAssumption DEF States
  <2> HIDE DEF v
  <2>5. ~Interrupted(v) /\ v.loop_depth = 0 /\ v.function_depth = 0
    BY <2>1, <2>4 DEF NothingPending, Interrupted, has_pending_flow_control
  <2> HIDE DEF m, w
  <2>6. /\ w \in States
        /\ w.ran = m.s.ran
        /\ w.should_exit = (m.flow = "exit")
        /\ m.status = IF w.should_exit THEN w.exit_status ELSE w.last_status
        /\ w.errexit = m.s.errexit
        /\ ~w.should_exit => /\ ~Interrupted(w) /\ w.loop_depth = 0 /\ w.function_depth = 0
                             /\ ~p.tail /\ ~v.errexit_ignored => ~w.errexit_ignored
        /\ p.mode = "off" => ~w.errexit
    <3>1. st.errexit = v.errexit
      BY <2>4
    <3>2. (p.mode = "live" /\ ~v.errexit_ignored) \/ (p.mode = "off" /\ ~v.errexit)
      BY <2>3, <2>4
    <3>3. p.loops = 0 /\ p.returns = "none" /\ p.exits = "any"
      BY <2>3
    <3>4. w = shell_run_command(v, p.node) /\ m = MeaningOf(st.errexit, Fuel, p.node)
      BY <2>3 DEF m, w
    <3> QED
      BY <2>4, <2>5, <3>1, <3>2, <3>3, <3>4, CommandAgrees
  <2>7. next' \in 1 .. Len(script') + 1
    BY <2>1, <2>2
  <2>8. NothingPending'
    BY <2>2, <2>6 DEF NothingPending, Interrupted, has_pending_flow_control
  <2>9. MeaningOf(errexit', Fuel, Command') = m
    <3>1. Command' = node
      BY <2>1, <2>2 DEF Command
    <3> QED
      BY <2>2, <3>1 DEF m
  <2>10. AgreesWithMeaning'
    BY <2>2, <2>6, <2>8, <2>9 DEF AgreesWithMeaning
  <2>11. \/ OffScript' /\ ~st'.errexit
         \/ LiveScript' /\ (~st'.should_exit /\ next' <= Len(script') => ~st'.errexit_ignored)
    <3>1. CASE p.mode = "off" /\ OffScript
      BY <2>2, <2>6, <3>1 DEF OffScript
    <3>2. CASE p.mode = "live" /\ LiveScript /\ ~st.errexit_ignored
               /\ (next # Len(script) => ~p.tail)
      <4>1. LiveScript'
        BY <2>2, <3>2 DEF LiveScript
      <4>2. next' <= Len(script') => next # Len(script)
        BY <2>1, <2>2
      <4> QED
        BY <2>2, <2>4, <2>6, <3>2, <4>1, <4>2
    <3> QED
      BY <2>3, <3>1, <3>2
  <2> QED
    BY <2>1, <2>2, <2>6, <2>7, <2>10, <2>11 DEF ScriptInvariant
<1>2. CASE UNCHANGED vars
  BY <1>2 DEF ScriptInvariant, vars, OffScript, LiveScript, AgreesWithMeaning, NothingPending,
              Ran, Command
<1> QED
  BY <1>1, <1>2 DEF Next

(* The invariant holds of every script.                                    *)
THEOREM ScriptSafety == Spec => []ScriptInvariant
  BY ScriptInit, ScriptNext, PTL DEF Spec

(* Every command executes exactly what its meaning names, leaves its       *)
(* status and errexit as it means to, ends the shell exactly if it means   *)
(* to, and leaves nothing pending.                                         *)
THEOREM CommandsDoWhatTheyMean == Spec => []AgreesWithMeaning
<1>1. ScriptInvariant => AgreesWithMeaning
  BY DEF ScriptInvariant
<1> QED
  BY <1>1, ScriptSafety, PTL
=============================================================================
