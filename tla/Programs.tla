------------------------------ MODULE Programs ------------------------------
(***************************************************************************)
(* The commands of AstExec, by name, and where they stand in a script.     *)
(***************************************************************************)
EXTENDS Integers, Sequences

SimpleKinds == {"empty", "utility", "pipeline", "count", "break", "continue", "return", "exit",
                "set_e"}
Lists == {"sequence", "brace", "andor"}
Loops == {"while", "for"}

Utility(s) == [kind |-> "utility", status |-> s]
Pipeline(s) == [kind |-> "pipeline", status |-> s]
Count == [kind |-> "count"]
Empty == [kind |-> "empty"]
Break(n) == [kind |-> "break", levels |-> n]
Continue(n) == [kind |-> "continue", levels |-> n]
Return(s) == [kind |-> "return", status |-> s]
ExitWith(s) == [kind |-> "exit", status |-> s]
SetE(on) == [kind |-> "set_e", on |-> on]
Sequence(items) == [kind |-> "sequence", items |-> items]
Brace(items) == [kind |-> "brace", items |-> items]
SubshellOf(items) == [kind |-> "subshell", body |-> Brace(items)]
Not(item) == [kind |-> "not", item |-> item]
If(c, t, e) == [kind |-> "if", cond |-> c, then |-> t, else |-> e]
While(c, b) == [kind |-> "while", cond |-> c, body |-> b]
For(n, b) == [kind |-> "for", words |-> n, body |-> b]
CallOf(b) == [kind |-> "call", body |-> b]
AndOrList(items, ops) == [kind |-> "andor", items |-> items, ops |-> ops]

True == Utility(0)
False == Utility(1)
Pairs(A, B) == {<<a, b>> : a \in A, b \in B}
AndOrs(pairs) == {AndOrList(p, <<op>>) : p \in pairs, op \in {"and", "or"}}

-----------------------------------------------------------------------------
(* A place: a command, and what holds where it stands.                     *)
(* loops: how many enclosing loops a break may leave.                      *)
(* returns: "none" if no return may stand here, as outside of functions;   *)
(*   "exact" if it has to give its status at once; "any" otherwise.        *)
(* exits: the same for exit.                                               *)
(* mode: "live" where a failure ends a shell with errexit on; "operand" if *)
(*   it does not, but errexit is on; "off" where errexit is off.           *)
(* tail: may errexit_ignored be left set?                                  *)
Place(node, loops, returns, exits, mode, tail) ==
  [node |-> node, loops |-> loops, returns |-> returns, exits |-> exits, mode |-> mode,
   tail |-> tail]

(* Before other commands errexit_ignored may be left set if errexit is off *)
(* from here to the end of the script.                                     *)
Before(p) == p.mode = "off" /\ p.tail

Exact(allowed) == IF allowed = "any" THEN "exact" ELSE allowed
Lax(allowed) == IF allowed = "exact" THEN "none" ELSE allowed
Aside(p) == IF p.mode = "off" THEN "off" ELSE "operand"

(* The places of the parts of the command in place p.                      *)
ItemPlace(p, item, last) ==
  Place(item, p.loops, p.returns, p.exits, p.mode, IF last THEN p.tail ELSE Before(p))

EnclosedPlace(p, item) == Place(item, 0, "none", p.exits, p.mode, TRUE)
OperandPlace(p, item) == Place(item, p.loops, p.returns, p.exits, Aside(p), Before(p))
NegatedPlace(p) == Place(p.node.item, p.loops, Lax(p.returns), p.exits, Aside(p), Before(p))

ConditionPlace(p) ==
  IF p.mode = "off" THEN Place(p.node.cond, p.loops, p.returns, p.exits, "off", Before(p))
  ELSE Place(p.node.cond, p.loops, Exact(p.returns), "exact", "off", FALSE)

(* A loop that its condition ends has the status of its body.              *)
LoopConditionPlace(p) ==
  Place(p.node.cond, 0, Lax(p.returns), IF p.mode = "off" THEN Lax(p.exits) ELSE "any", "off",
        Before(p))

LoopBodyPlace(p) == Place(p.node.body, p.loops + 1, p.returns, p.exits, p.mode, Before(p))
SubshellPlace(p) == Place(p.node.body, 0, Exact(p.returns), "any", p.mode, TRUE)
FunctionPlace(p) == Place(p.node.body, 0, "any", p.exits, p.mode, Before(p))

LeafFits(p) ==
  /\ p.node.kind \in {"break", "continue"} => p.node.levels <= p.loops
  /\ p.node.kind = "return" => p.returns # "none"
  /\ p.node.kind = "exit" => p.exits # "none"
  /\ p.node.kind = "set_e" => p.mode # "off"
=============================================================================
