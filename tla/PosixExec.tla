----------------------------- MODULE PosixExec ------------------------------
(***************************************************************************)
(* What the executor promises: the meaning of a command as the test suite  *)
(* under tests/posix states it (errexit-p, break-p, continue-p, return-p), *)
(* told without flags.  A command ends with a flow: "none", "return",      *)
(* "exit", or "break" and "continue" with the loops left to unwind.        *)
(*                                                                         *)
(* The context c says whether failures are ignored here (the condition of  *)
(* an if or a loop, a negated pipeline, an operand of an and-or list other *)
(* than the last) and how many loops enclose the command.  The store s is  *)
(* what commands change: the errexit option, the fuel of conditions and    *)
(* the leaves that ran.  A simple command, a subshell or a function that   *)
(* fails where failures are not ignored ends the shell; no other compound  *)
(* command fails again because of it.                                      *)
(***************************************************************************)
EXTENDS AstExec

Contexts == [ignoring : BOOLEAN, loops : Nat]
Stores == [errexit : BOOLEAN, fuel : Nat, ran : Seq(Commands)]
Flows == {"none", "break", "continue", "return", "exit"}
Outcomes == [s : Stores, status : Nat, flow : Flows, levels : Nat]

Outcome(s, status, flow, levels) ==
  [s |-> s, status |-> status, flow |-> flow, levels |-> levels]

Normal(s, status) == Outcome(s, status, "none", 0)

(* A failure that is not ignored ends a shell that has errexit on.         *)
Checked(c, s, status) ==
  IF status # 0 /\ s.errexit /\ ~c.ignoring THEN Outcome(s, status, "exit", 0)
                                            ELSE Normal(s, status)

Least(a, b) == IF a < b THEN a ELSE b

Leaf(c, s, node) ==
  LET done == [s EXCEPT !.ran = Append(@, node)]
  IN  CASE node.kind = "empty" -> Normal(s, 0)
        [] node.kind \in {"utility", "pipeline"} -> Checked(c, done, node.status)
        [] node.kind = "count" ->
             IF s.fuel > 0 THEN Normal([done EXCEPT !.fuel = @ - 1], 0) ELSE Checked(c, done, 1)
        [] node.kind \in {"break", "continue"} ->
             Outcome(done, 0, node.kind, Least(node.levels, c.loops))
        [] node.kind \in {"return", "exit"} -> Outcome(done, node.status, node.kind, 0)
        [] node.kind = "set_e" -> Normal([done EXCEPT !.errexit = node.on], 0)

Ignoring(c) == [c EXCEPT !.ignoring = TRUE]

(* A command, or a list or a loop that has come as far as at, where last   *)
(* is how its operand or body last ended.  The operators below take the    *)
(* meaning of the parts as mean, a function.                               *)
Task(node, at, c, s, last) == [node |-> node, at |-> at, c |-> c, s |-> s, last |-> last]
Tasks == [node : Commands, at : Nat, c : Contexts, s : Stores, last : Outcomes]

PartMeans(mean, c, s, node) == mean[Task(node, 0, c, s, Normal(s, 0))]

InOrder(mean, c, s, node, i) ==
  LET r == PartMeans(mean, c, s, node.items[i])
  IN  IF r.flow # "none" \/ i = Len(node.items) THEN r
      ELSE mean[Task(node, i + 1, c, r.s, r)]

(* An and-or list from its i-th operator on, after an operand that ended   *)
(* with last.                                                              *)
AndOr(mean, c, node, i, last) ==
  LET wanted == (node.ops[i] = "and") = (last.status = 0)
      where == IF i = Len(node.ops) THEN c ELSE Ignoring(c)
      next == IF wanted THEN PartMeans(mean, where, last.s, node.items[i + 1]) ELSE last
  IN  IF next.flow # "none" \/ i = Len(node.ops) THEN next
      ELSE mean[Task(node, i + 1, c, next.s, next)]

FirstOperand(mean, c, s, node) ==
  LET r == PartMeans(mean, Ignoring(c), s, node.items[1])
  IN  IF r.flow # "none" THEN r ELSE AndOr(mean, c, node, 1, r)

Negated(mean, c, s, node) ==
  LET r == PartMeans(mean, Ignoring(c), s, node.item)
  IN  IF r.flow # "none" THEN r ELSE Normal(r.s, IF r.status = 0 THEN 1 ELSE 0)

(* A loop that goes on, for a for loop with turns words left.              *)
Further(node, turns) == IF node.kind = "for" THEN turns ELSE 1

(* How a loop ends or goes on after its body: it takes one level of break  *)
(* or continue.                                                            *)
AfterTurn(mean, c, node, turns, end) ==
  CASE end.flow = "none" -> mean[Task(node, Further(node, turns), c, end.s, end)]
    [] end.flow \in {"break", "continue"} /\ end.levels > 1 ->
         [end EXCEPT !.levels = @ - 1]
    [] end.flow = "break" /\ end.levels <= 1 -> Normal(end.s, 0)
    [] end.flow = "continue" /\ end.levels <= 1 ->
         mean[Task(node, Further(node, turns), c, end.s, Normal(end.s, 0))]
    [] end.flow \in {"return", "exit"} -> end

Inside(c) == [c EXCEPT !.loops = @ + 1]

(* A loop whose body last ended with last.                                 *)
WhileLoop(mean, c, s, node, last) ==
  LET cond == PartMeans(mean, Ignoring(Inside(c)), s, node.cond)
  IN  CASE cond.flow # "none" -> AfterTurn(mean, c, node, 0, cond)
        [] cond.flow = "none" /\ cond.status # 0 -> [last EXCEPT !.s = cond.s]
        [] OTHER -> AfterTurn(mean, c, node, 0, PartMeans(mean, Inside(c), cond.s, node.body))

ForLoop(mean, c, s, node, turns, last) ==
  IF turns = 0 THEN [last EXCEPT !.s = s]
  ELSE AfterTurn(mean, c, node, turns, PartMeans(mean, Inside(c), s, node.body))

(* Neither loops nor a return reach out of a subshell or a function.       *)
Apart(c) == [c EXCEPT !.loops = 0]

Subshell(mean, c, s, node) ==
  LET r == PartMeans(mean, Apart(c), s, node.body)
  IN  Checked(c, [s EXCEPT !.ran = r.s.ran], r.status)

FunctionCall(mean, c, s, node) ==
  LET r == PartMeans(mean, Apart(c), s, node.body)
  IN  IF r.flow = "exit" THEN r ELSE Checked(c, r.s, r.status)

Mean(mean, task) ==
  LET node == task.node
      c == task.c
      s == task.s
      at == task.at
      first == IF at = 0 THEN 1 ELSE at
  IN  CASE node.kind \in SimpleKinds -> Leaf(c, s, node)
        [] node.kind \in {"sequence", "brace"} -> InOrder(mean, c, s, node, first)
        [] node.kind = "andor" /\ at = 0 -> FirstOperand(mean, c, s, node)
        [] node.kind = "andor" /\ at # 0 -> AndOr(mean, c, node, at, task.last)
        [] node.kind = "not" -> Negated(mean, c, s, node)
        [] node.kind = "subshell" -> Subshell(mean, c, s, node)
        [] node.kind = "if" ->
             LET cond == PartMeans(mean, Ignoring(c), s, node.cond)
             IN  IF cond.flow # "none" THEN cond
                 ELSE PartMeans(mean, c, cond.s, IF cond.status = 0 THEN node.then ELSE node.else)
        [] node.kind = "while" -> WhileLoop(mean, c, s, node, task.last)
        [] node.kind = "for" /\ at = 0 -> ForLoop(mean, c, s, node, node.words, task.last)
        [] node.kind = "for" /\ at # 0 -> ForLoop(mean, c, s, node, at - 1, task.last)
        [] node.kind = "call" -> FunctionCall(mean, c, s, node)

(* Followed as far as the executor is.                                     *)
Meaning[n \in 0..Patience] ==
  [task \in Tasks |-> IF n = 0 THEN Normal(task.s, 0) ELSE Mean(Meaning[n - 1], task)]

(* A whole command at top level.                                           *)
MeaningOf(errexit, fuel, node) ==
  PartMeans(Meaning[Patience], [ignoring |-> FALSE, loops |-> 0],
            [errexit |-> errexit, fuel |-> fuel, ran |-> <<>>], node)
=============================================================================
