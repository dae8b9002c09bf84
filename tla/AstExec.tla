------------------------------ MODULE AstExec -------------------------------
(***************************************************************************)
(* How the shell executes a parsed command: execute_ast_node and its       *)
(* helpers in exec.c and ast_exec.c, the text executor that runs the body  *)
(* of a brace group (program_text.c), function calls (simple_command.c),   *)
(* the flow-control builtins (special.c) and shell_run_command (shell.c).  *)
(* It is about the flags these functions share in struct shell_state:      *)
(* break_levels, continue_levels, return_requested, should_exit, errexit   *)
(* and errexit_ignored.                                                    *)
(*                                                                         *)
(* A program is a tree of records.  A utility is its exit status; the leaf *)
(* "count" stands for a condition that holds until the counter st.fuel is  *)
(* used up, so every loop over it ends; "empty" is a missing else part.    *)
(* st.ran lists the leaves executed.  How the executor calls itself is in  *)
(* Execution, a recursive function of how many calls may still be nested:  *)
(* with enough of them for its loops and functions a command is executed   *)
(* as the code does it.                                                    *)
(*                                                                         *)
(* Left out: signals and traps, redirections, the variable of a for loop,  *)
(* and the processes behind pipelines and subshells (see JobControl).      *)
(***************************************************************************)
EXTENDS Programs

CONSTANTS Commands, \* the commands that are executed, and their parts
          Patience  \* how many nested calls of the executor are followed

(* A node of the tree, struct ast_node: its parts are nodes, too.          *)
Formed(node) ==
  /\ node.kind \in SimpleKinds \cup Lists \cup Loops \cup {"not", "subshell", "if", "call"}
  /\ node.kind \in {"utility", "pipeline", "return", "exit"} => node.status \in Nat
  /\ node.kind \in {"break", "continue"} => node.levels \in Nat \ {0}
  /\ node.kind = "set_e" => node.on \in BOOLEAN
  /\ node.kind \in Lists => node.items \in Seq(Commands) /\ node.items # <<>>
  /\ node.kind = "andor" => /\ node.ops \in Seq({"and", "or"})
                            /\ node.ops # <<>>
                            /\ Len(node.items) = Len(node.ops) + 1
  /\ node.kind = "not" => node.item \in Commands
  /\ node.kind = "if" => {node.cond, node.then, node.else} \subseteq Commands
  /\ node.kind = "while" => {node.cond, node.body} \subseteq Commands
  /\ node.kind = "for" => node.words \in Nat /\ node.body \in Commands
  /\ node.kind = "subshell" => node.body \in Commands /\ node.body.kind = "brace"
  /\ node.kind = "call" => node.body \in Commands

ASSUME CommandsAssumption == \A node \in Commands : Formed(node)
ASSUME PatienceAssumption == Patience \in Nat

(* The part of struct shell_state that the executors read and write.       *)
States ==
  [errexit : BOOLEAN, errexit_ignored : BOOLEAN, should_exit : BOOLEAN, exit_status : Nat,
   last_status : Nat, break_levels : Nat, continue_levels : Nat, loop_depth : Int,
   return_requested : BOOLEAN, return_status : Nat, function_depth : Int, fuel : Nat,
   ran : Seq(Commands)]

StartState(errexit, fuel) ==
  [errexit |-> errexit, errexit_ignored |-> FALSE, should_exit |-> FALSE, exit_status |-> 0,
   last_status |-> 0, break_levels |-> 0, continue_levels |-> 0, loop_depth |-> 0,
   return_requested |-> FALSE, return_status |-> 0, function_depth |-> 0,
   fuel |-> fuel, ran |-> <<>>]

(* What a function of the executor leaves: the state and a status.         *)
Result(st, status) == [st |-> st, status |-> status]

has_pending_flow_control(st) ==
  st.break_levels > 0 \/ st.continue_levels > 0 \/ st.return_requested

Interrupted(st) == st.should_exit \/ has_pending_flow_control(st)

Exit(st, status) == [st EXCEPT !.should_exit = TRUE, !.exit_status = status]

(* Mutant: fires for a failure that is being ignored, too.                 *)
maybe_trigger_errexit_Always(st, status) ==
  IF status # 0 /\ st.errexit /\ ~Interrupted(st) THEN Exit(st, status) ELSE st

maybe_trigger_errexit(st, status) ==
  IF status # 0 /\ st.errexit /\ ~st.errexit_ignored /\ ~Interrupted(st)
  THEN Exit(st, status)
  ELSE st

-----------------------------------------------------------------------------
(* The builtins break, continue, return, exit and set -e, set +e.          *)

(* Mutant: counts the levels outside the innermost loop.                   *)
builtin_break_or_continue_OuterOnly(st, node) ==
  IF st.loop_depth = 0 THEN Result(st, 1)
  ELSE Result(IF node.kind = "continue"
              THEN [st EXCEPT !.continue_levels = node.levels - 1, !.break_levels = 0]
              ELSE [st EXCEPT !.break_levels = node.levels - 1, !.continue_levels = 0], 0)

builtin_break_or_continue(st, node) ==
  IF st.loop_depth = 0 THEN Result(st, 1)
  ELSE Result(IF node.kind = "continue"
              THEN [st EXCEPT !.continue_levels = node.levels, !.break_levels = 0]
              ELSE [st EXCEPT !.break_levels = node.levels, !.continue_levels = 0], 0)

builtin_return(st, node) ==
  IF st.function_depth = 0 THEN Result(st, 1)
  ELSE Result([st EXCEPT !.return_requested = TRUE, !.return_status = node.status], node.status)

Simple(st, node) ==
  LET done == [st EXCEPT !.ran = Append(@, node)]
  IN  CASE node.kind = "empty" -> Result(st, 0)
        [] node.kind = "utility" -> Result(done, node.status)
        [] node.kind = "pipeline" -> Result([done EXCEPT !.errexit_ignored = FALSE], node.status)
        [] node.kind = "count" -> IF st.fuel > 0 THEN Result([done EXCEPT !.fuel = @ - 1], 0)
                                                 ELSE Result(done, 1)
        [] node.kind \in {"break", "continue"} -> builtin_break_or_continue(done, node)
        [] node.kind = "return" -> builtin_return(done, node)
        [] node.kind = "exit" -> Result(Exit(done, node.status), node.status)
        [] node.kind = "set_e" -> Result([done EXCEPT !.errexit = node.on], 0)

-----------------------------------------------------------------------------
(* A call of the executor: a node, and how far its list or loop has come   *)
(* (at; 0 at the start) with which status.  The operators below take the   *)
(* executor as run, a function from calls to results.                      *)
Call(node, at, st, status) == [node |-> node, at |-> at, st |-> st, status |-> status]
Calls == [node : Commands, at : Nat, st : States, status : Nat]

Part(run, st, node) == run[Call(node, 0, st, 0)]

(* AST_NODE_SEQUENCE, from the i-th item on.                               *)
RunSequence(run, st, node, i) ==
  LET r == Part(run, st, node.items[i])
      after == maybe_trigger_errexit([r.st EXCEPT !.last_status = r.status], r.status)
  IN  IF Interrupted(after) \/ i = Len(node.items) THEN Result(after, r.status)
      ELSE run[Call(node, i + 1, after, r.status)]

(* AST_NODE_AND_OR: the i-th operator, after the operands before it gave   *)
(* status.                                                                 *)
RunAndOr(run, st, node, i, status) ==
  LET runs == (node.ops[i] = "and") = (status = 0)
      skipped == IF node.ops[i] = "and" THEN [st EXCEPT !.errexit_ignored = TRUE] ELSE st
      next == IF runs THEN Part(run, st, node.items[i + 1]) ELSE Result(skipped, status)
  IN  IF Interrupted(next.st) \/ i = Len(node.ops) THEN next
      ELSE run[Call(node, i + 1, next.st, next.status)]

RunFirstOperand(run, st, node) ==
  LET r == Part(run, st, node.items[1])
  IN  IF Interrupted(r.st) THEN r ELSE RunAndOr(run, r.st, node, 1, r.status)

(* A pipeline of one negated command.                                      *)
RunNegated(run, st, node) ==
  LET r == Part(run, st, node.item)
      status == IF r.status = 0 THEN 1 ELSE 0
  IN  Result([r.st EXCEPT !.errexit_ignored = TRUE, !.last_status = status], status)

(* The text executor, which runs the body of a brace group and of a        *)
(* subshell: like a sequence, but it forgets errexit_ignored before each   *)
(* command.                                                                *)
RunText(run, st, node, i) ==
  LET r == Part(run, [st EXCEPT !.errexit_ignored = FALSE], node.items[i])
      noted == [r.st EXCEPT !.last_status = r.status]
      after == IF r.status # 0 /\ noted.errexit /\ ~noted.errexit_ignored
               THEN Exit(noted, r.status)
               ELSE noted
  IN  IF Interrupted(after) \/ i = Len(node.items) THEN Result(after, r.status)
      ELSE run[Call(node, i + 1, after, r.status)]

(* Only the status and what was executed come back from a subshell.        *)
RunSubshell(run, st, node) ==
  LET r == Part(run, [st EXCEPT !.should_exit = FALSE, !.exit_status = 0], node.body)
  IN  Result([st EXCEPT !.ran = r.st.ran],
             IF r.st.should_exit THEN r.st.exit_status ELSE r.status)

(* Mutant: errexit stays off after a condition.                            *)
RunCondition_NoRestore(run, st, cond) == Part(run, [st EXCEPT !.errexit = FALSE], cond)

(* Conditions run with errexit switched off.                               *)
RunCondition(run, st, cond) ==
  LET r == Part(run, [st EXCEPT !.errexit = FALSE], cond)
  IN  Result([r.st EXCEPT !.errexit = st.errexit], r.status)

RunBranch(run, st, branch) ==
  LET r == Part(run, st, branch)
  IN  Result(maybe_trigger_errexit(r.st, r.status), r.status)

ast_exec_run_if(run, st, node) ==
  LET cond == RunCondition(run, st, node.cond)
  IN  IF Interrupted(cond.st) THEN cond
      ELSE RunBranch(run, cond.st, IF cond.status = 0 THEN node.then ELSE node.else)

Leaves(st) == st.should_exit \/ st.return_requested

(* Mutant: the outer level of continue n goes on with the inner loop.      *)
AfterBody_ContinueHere(st, status) ==
  CASE Leaves(st) -> [again |-> FALSE, st |-> st, status |-> status]
    [] ~Leaves(st) /\ st.break_levels > 0 ->
         [again |-> FALSE, st |-> [st EXCEPT !.break_levels = @ - 1], status |-> 0]
    [] ~Leaves(st) /\ st.break_levels = 0 /\ st.continue_levels > 0 ->
         [again |-> TRUE, st |-> [st EXCEPT !.continue_levels = @ - 1], status |-> 0]
    [] OTHER -> [again |-> TRUE, st |-> st, status |-> status]

(* What a loop makes of the flags its body left: whether it goes on.       *)
AfterBody(st, status) ==
  CASE Leaves(st) -> [again |-> FALSE, st |-> st, status |-> status]
    [] ~Leaves(st) /\ st.break_levels > 0 ->
         [again |-> FALSE, st |-> [st EXCEPT !.break_levels = @ - 1], status |-> 0]
    [] ~Leaves(st) /\ st.break_levels = 0 /\ st.continue_levels > 0 ->
         [again |-> st.continue_levels = 1,
          st |-> [st EXCEPT !.continue_levels = @ - 1], status |-> 0]
    [] OTHER -> [again |-> TRUE, st |-> st, status |-> status]

(* A while loop, whose body last gave status.                              *)
RunWhile(run, st, node, status) ==
  LET cond == RunCondition(run, st, node.cond)
      body == RunBranch(run, cond.st, node.body)
      next == AfterBody(body.st, body.status)
  IN  IF Leaves(cond.st) \/ cond.status # 0 THEN Result(cond.st, status)
      ELSE IF next.again THEN run[Call(node, 1, next.st, next.status)]
      ELSE Result(next.st, next.status)

(* A for loop with n words left.                                           *)
RunFor(run, st, node, n, status) ==
  LET body == RunBranch(run, st, node.body)
      next == AfterBody(body.st, body.status)
  IN  IF n = 0 \/ st.should_exit THEN Result(st, status)
      ELSE IF next.again THEN run[Call(node, n, next.st, next.status)]
      ELSE Result(next.st, next.status)

InLoop(st) == [st EXCEPT !.loop_depth = @ + 1]
OutOfLoop(r) == Result([r.st EXCEPT !.loop_depth = @ - 1], r.status)

(* Mutant: the request is not withdrawn.                                   *)
Returned_Sticky(r) ==
  LET st == [r.st EXCEPT !.function_depth = @ - 1]
  IN  IF st.return_requested THEN Result(st, st.return_status) ELSE Result(st, r.status)

Returned(r) ==
  LET st == [r.st EXCEPT !.function_depth = @ - 1]
  IN  IF st.return_requested
      THEN Result([st EXCEPT !.return_requested = FALSE], st.return_status)
      ELSE Result(st, r.status)

(* execute_ast_node, and how a list or a loop goes on.                     *)
Execute(run, call) ==
  LET node == call.node
      st == call.st
      at == call.at
      first == IF at = 0 THEN 1 ELSE at
  IN  CASE node.kind \in SimpleKinds -> Simple(st, node)
        [] node.kind = "sequence" -> RunSequence(run, st, node, first)
        [] node.kind = "andor" /\ at = 0 -> RunFirstOperand(run, st, node)
        [] node.kind = "andor" /\ at # 0 -> RunAndOr(run, st, node, at, call.status)
        [] node.kind = "not" -> RunNegated(run, st, node)
        [] node.kind = "brace" -> RunText(run, st, node, first)
        [] node.kind = "subshell" -> RunSubshell(run, st, node)
        [] node.kind = "if" -> ast_exec_run_if(run, st, node)
        [] node.kind = "while" /\ at = 0 -> OutOfLoop(RunWhile(run, InLoop(st), node, 0))
        [] node.kind = "while" /\ at # 0 -> RunWhile(run, st, node, call.status)
        [] node.kind = "for" /\ at = 0 -> OutOfLoop(RunFor(run, InLoop(st), node, node.words, 0))
        [] node.kind = "for" /\ at # 0 -> RunFor(run, st, node, at - 1, call.status)
        [] node.kind = "call" ->
             Returned(Part(run, [st EXCEPT !.function_depth = @ + 1], node.body))

(* A call that is not followed: it is taken to do nothing, with success.   *)
NotFollowed(st) == Result([st EXCEPT !.errexit_ignored = FALSE], 0)

Execution[n \in 0..Patience] ==
  [call \in Calls |->
     IF n = 0 THEN NotFollowed(call.st) ELSE Execute(Execution[n - 1], call)]

execute_ast_node(st, node) == Part(Execution[Patience], st, node)

shell_run_command(st, node) ==
  LET r == execute_ast_node([st EXCEPT !.ran = <<>>], node)
  IN  maybe_trigger_errexit([r.st EXCEPT !.last_status = r.status], r.status)
=============================================================================
