--------------------------- MODULE PortableScript ---------------------------
(***************************************************************************)
(* Scripts for which the executor keeps the promise of PosixExec: what     *)
(* their commands do is what they mean.  Which they are is a matter of     *)
(* where a command stands: its place.  The code leaves errexit_ignored set *)
(* after a negation and after an && that skips its operand, clears errexit *)
(* in conditions but not in the operands of and-or lists and negations,    *)
(* and looks at a break from the condition of a loop after the body only.  *)
(* So with errexit on, a negation or an && stands where nothing is         *)
(* executed after it, and so on: Fits.                                     *)
(***************************************************************************)
EXTENDS Script

CONSTANT Places \* every command of the scripts, and where it stands

PlaceSet ==
  [node : Commands, loops : Nat, returns : {"none", "exact", "any"},
   exits : {"none", "exact", "any"}, mode : {"live", "operand", "off"}, tail : BOOLEAN]

SequenceFits(p) ==
  \A i \in 1..Len(p.node.items) :
    ItemPlace(p, p.node.items[i], i = Len(p.node.items)) \in Places

(* The text executor clears errexit_ignored before each command, so it may *)
(* be left set by one from which neither break nor return leads out.       *)
TextFits(p) ==
  \A i \in 1..Len(p.node.items) :
    \/ ItemPlace(p, p.node.items[i], i = Len(p.node.items)) \in Places
    \/ /\ i # Len(p.node.items)
       /\ EnclosedPlace(p, p.node.items[i]) \in Places

AndOrFits(p) ==
  LET n == Len(p.node.ops)
  IN  /\ (\E i \in 1..n : p.node.ops[i] = "and") => p.tail
      /\ ItemPlace(p, p.node.items[n + 1], TRUE) \in Places
      /\ \A i \in 1..n : OperandPlace(p, p.node.items[i]) \in Places
      /\ p.mode # "off" =>
           \A i, j \in 1..n : i < j /\ p.node.ops[i] = "and" => p.node.ops[j] = "and"

Fits(p) ==
  CASE p.node.kind \in SimpleKinds -> LeafFits(p)
    [] p.node.kind = "sequence" -> SequenceFits(p)
    [] p.node.kind = "brace" -> TextFits(p)
    [] p.node.kind = "andor" -> AndOrFits(p)
    [] p.node.kind = "not" -> p.tail /\ NegatedPlace(p) \in Places
    [] p.node.kind = "if" ->
         /\ ConditionPlace(p) \in Places
         /\ {ItemPlace(p, p.node.then, TRUE), ItemPlace(p, p.node.else, TRUE)} \subseteq Places
    [] p.node.kind = "for" -> LoopBodyPlace(p) \in Places
    [] p.node.kind = "while" -> {LoopBodyPlace(p), LoopConditionPlace(p)} \subseteq Places
    [] p.node.kind = "subshell" -> SubshellPlace(p) \in Places
    [] p.node.kind = "call" -> FunctionPlace(p) \in Places

(* What stands in a place has its parts in places, too.                    *)
ASSUME PlacesAssumption ==
  /\ Places \subseteq PlaceSet
  /\ \A p \in Places : Fits(p)
  /\ \A p \in Places : p.mode = "operand" => p.node.kind \in SimpleKinds

-----------------------------------------------------------------------------
(* A script is one whose commands have a place: anywhere if errexit is     *)
(* never on.                                                               *)
AtTop(node, mode, tail) == Place(node, 0, "none", "any", mode, tail) \in Places

ASSUME InputsAssumption ==
  /\ Fuel \in Nat
  /\ \A input \in Inputs :
       /\ input.errexit \in BOOLEAN
       /\ input.script \in Seq(Commands)
       /\ \/ ~input.errexit /\ \A k \in DOMAIN input.script : AtTop(input.script[k], "off", TRUE)
          \/ \A k \in DOMAIN input.script :
               AtTop(input.script[k], "live", k = Len(input.script))

-----------------------------------------------------------------------------
(* Every break, continue and return was consumed by the loop or function   *)
(* it was for, loop_depth and function_depth are back at zero.             *)
NothingPending ==
  ~st.should_exit => /\ ~has_pending_flow_control(st)
                     /\ st.loop_depth = 0
                     /\ st.function_depth = 0

(* Every command executes exactly the utilities its meaning names, in that *)
(* order, leaves its status in $?, leaves errexit as it means to, and ends *)
(* the shell exactly if it means to: the flags in which execute_ast_node   *)
(* and the loops pass break, continue, return and ignored failures around  *)
(* never reach a command they were not meant for, and nothing is pending   *)
(* between commands.                                                       *)
AgreesWithMeaning ==
  /\ NothingPending
  /\ Ran =>
       LET promise == MeaningOf(errexit, Fuel, Command)
       IN  /\ st.ran = promise.s.ran
           /\ st.should_exit = (promise.flow = "exit")
           /\ promise.status = IF st.should_exit THEN st.exit_status ELSE st.last_status
           /\ st.errexit = promise.s.errexit
=============================================================================
