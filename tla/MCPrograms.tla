----------------------------- MODULE MCPrograms -----------------------------
(***************************************************************************)
(* The programs TLC runs: all the small ones of the two kinds below, and   *)
(* the places of their commands.                                           *)
(***************************************************************************)
EXTENDS Programs

-----------------------------------------------------------------------------
(* The commands after which errexit_ignored may be left set.               *)
Leaks(node) == node.kind = "not" \/ (node.kind = "andor" /\ node.ops = <<"and">>)

(* The places of the parts of the command in place p.                      *)
PartsOf(p) ==
  LET node == p.node
  IN  CASE node.kind = "sequence" ->
             [i \in DOMAIN node.items |-> ItemPlace(p, node.items[i], i = Len(node.items))]
        [] node.kind = "brace" ->
             [i \in DOMAIN node.items |->
                IF i # Len(node.items) /\ Leaks(node.items[i]) /\ ~Before(p)
                THEN EnclosedPlace(p, node.items[i])
                ELSE ItemPlace(p, node.items[i], i = Len(node.items))]
        [] node.kind = "andor" ->
             [i \in DOMAIN node.items |->
                IF i = Len(node.items) THEN ItemPlace(p, node.items[i], TRUE)
                                       ELSE OperandPlace(p, node.items[i])]
        [] node.kind = "not" -> <<NegatedPlace(p)>>
        [] node.kind = "if" ->
             <<ConditionPlace(p), ItemPlace(p, node.then, TRUE), ItemPlace(p, node.else, TRUE)>>
        [] node.kind = "for" -> <<LoopBodyPlace(p)>>
        [] node.kind = "while" -> <<LoopConditionPlace(p), LoopBodyPlace(p)>>
        [] node.kind = "subshell" -> <<SubshellPlace(p)>>
        [] node.kind = "call" -> <<FunctionPlace(p)>>
        [] OTHER -> <<>>

(* The k-th of them; no command has more than three.                       *)
Part3(p, k) == IF k \in DOMAIN PartsOf(p) THEN PartsOf(p)[k] ELSE p

(* No command is nested deeper than this.                                 *)
Depth == 8
PlacesOf(places) ==
  LET grown[n \in 0..Depth] ==
        IF n = 0 THEN places ELSE {Part3(p, k) : p \in grown[n - 1], k \in 0..3}
  IN  grown[Depth]

Top(node, mode, tail) == Place(node, 0, "none", "any", mode, tail)

-----------------------------------------------------------------------------
(* Scripts of nested loops, functions and flow-control builtins.           *)

(* Flow control: break and continue only in the bodies of loops and never  *)
(* for more loops than there are, return only in functions.                *)
Allowed(node) ==
  \A p \in PlacesOf({Top(node, "off", TRUE)}) : p.node.kind \in SimpleKinds => LeafFits(p)

Steps == {True, Break(1), Break(2), Continue(1), Continue(2), Return(7)}
LoopsOf(bodies) == {For(2, b) : b \in bodies} \cup {While(Count, b) : b \in bodies}

FlowBodies ==
  Steps \cup {Sequence(p) : p \in Pairs(Steps, Steps)}
        \cup AndOrs(Pairs(Steps \cup {False}, Steps))
        \cup {If(False, True, s) : s \in Steps} \cup {If(s, False, Empty) : s \in Steps}
FlowInner ==
  LoopsOf(FlowBodies)
    \cup {While(Sequence(<<s, Count>>), b) : s \in Steps, b \in Steps}
    \cup {Brace(p) : p \in Pairs(Steps, Steps)} \cup {SubshellOf(p) : p \in Pairs(Steps, Steps)}
    \cup {CallOf(b) : b \in FlowBodies} \cup {Not(s) : s \in Steps \cup {ExitWith(3)}}
FlowMiddle ==
  FlowInner \cup {Sequence(p) : p \in Pairs(FlowInner, Steps) \cup Pairs({True, False}, FlowInner)}
FlowOuter ==
  FlowMiddle \cup LoopsOf(FlowMiddle) \cup {CallOf(b) : b \in FlowMiddle}

(* Afterwards a loop that runs twice shows what is left over.              *)
Probe == For(2, Sequence(<<True, False>>))
FlowScripts == {<<c, Probe>> : c \in {x \in FlowOuter : Allowed(x)}}

-----------------------------------------------------------------------------
(* Programs for a shell with set -e.  A negated command and an and-or list *)
(* stand only where nothing is executed after them, and set never stands   *)
(* in a condition: there the code differs (see README).  The parser        *)
(* rejects a loop as the first command of the condition of a loop.         *)
Utilities == {True, False, Pipeline(1)}
Sets == {SetE(TRUE), SetE(FALSE)}
InTail == Utilities \cup {Not(s) : s \in {True, False}} \cup AndOrs(Pairs({True, False}, Utilities))

Conditions ==
  {True, False, Count, ExitWith(3)}
    \cup {Sequence(<<False, x>>) : x \in {True, Count}}
    \cup {SubshellOf(<<False, True>>), Brace(<<False, True>>), For(1, Sequence(<<False, True>>)),
          CallOf(Sequence(<<False, Return(0)>>))}

(* Compound commands over leaves.                                          *)
Compound(leaves) ==
  {Sequence(p) : p \in Pairs(leaves, leaves)}
    \cup {SubshellOf(p) : p \in Pairs(leaves, leaves)}
    \cup {Brace(p) : p \in Pairs(InTail, leaves)}
    \cup {If(c, x, Empty) : c \in Conditions, x \in leaves}
    \cup {If(c, True, x) : c \in Conditions, x \in leaves}
    \cup {While(Sequence(<<c, Count>>), x) : c \in {True, False}, x \in leaves}
    \cup {For(2, x) : x \in leaves}
    \cup {CallOf(Sequence(<<x, Return(s)>>)) : x \in leaves, s \in {0, 1}}

AnyWhere == Compound(Utilities \cup Sets)

Programs ==
  {Sequence(p) : p \in Pairs(AnyWhere, InTail \cup Sets)}
    \cup {For(2, x) : x \in AnyWhere} \cup {CallOf(x) : x \in AnyWhere}
    \cup {SubshellOf(<<x, True>>) : x \in AnyWhere} \cup {Brace(<<x, True>>) : x \in AnyWhere}
    \cup {While(Sequence(<<x, Count>>), False) :
             x \in {y \in Compound(Utilities) : y.kind \notin {"while", "for"}}}
    \cup {If(x, True, False) : x \in Compound(Utilities)}

ExitScripts == {<<c>> : c \in Programs}

-----------------------------------------------------------------------------
(* The scripts, and the commands in them.                                  *)
With(scripts, options) ==
  {[script |-> s, errexit |-> o] : s \in scripts, o \in options}

AllInputs == With(FlowScripts, {FALSE}) \cup With(ExitScripts, BOOLEAN)

AllPlaces ==
  PlacesOf({Top(s[1], "off", TRUE) : s \in FlowScripts} \cup {Top(Probe, "off", TRUE)}
             \cup {Top(s[1], "live", TRUE) : s \in ExitScripts})

AllCommands == {p.node : p \in AllPlaces}
=============================================================================
