---------------------------- MODULE ArithMeaning ----------------------------
(***************************************************************************)
(* What an arithmetic expression means, whatever evaluates it: expressions *)
(* as trees, the text of a tree with the parentheses it needs, and the     *)
(* value of a tree.  The operators on numbers are those of Arith; what is  *)
(* said here of its own is which operands belong to which operator, in     *)
(* which order they are evaluated and which are not.                       *)
(*   number n;  variable x;  unary op e;  binary op l r;                   *)
(*   choice c t f;  assign op x e                                          *)
(***************************************************************************)
EXTENDS Arith

(* The level of an operator: the higher, the tighter.                      *)
LevelOf(op) ==
  CASE op = "||" -> 3
    [] op = "&&" -> 4
    [] op = "|" -> 5
    [] op = "^" -> 6
    [] op = "&" -> 7
    [] op \in {"==", "!="} -> 8
    [] op \in {"<", "<=", ">", ">="} -> 9
    [] op \in {"<<", ">>"} -> 10
    [] op \in {"+", "-"} -> 11
    [] op \in {"*", "/", "%"} -> 12

LevelOfTree(e) ==
  CASE e.k = "assign" -> 1
    [] e.k = "choice" -> 2
    [] e.k = "binary" -> LevelOf(e.op)
    [] e.k = "unary" -> 13
    [] e.k \in {"number", "variable"} -> 14

RECURSIVE Written(_, _)
Bare(e) ==
  CASE e.k = "number" -> <<Digit[1 + e.n]>>
    [] e.k = "variable" -> <<e.x>>
    [] e.k = "unary" -> <<e.op>> \o Written(e.e, 13)
    [] e.k = "binary" -> Written(e.l, LevelOf(e.op)) \o <<e.op>> \o Written(e.r, LevelOf(e.op) + 1)
    [] e.k = "choice" -> Written(e.c, 3) \o <<"?">> \o Written(e.t, 1) \o <<":">> \o Written(e.f, 2)
    [] e.k = "assign" -> <<e.x, e.op>> \o Written(e.e, 1)
Written(e, level) == IF LevelOfTree(e) < level THEN <<"(">> \o Bare(e) \o <<")">> ELSE Bare(e)

-----------------------------------------------------------------------------
(* A value, the variables after it, and how it went: "ok", "error" (no     *)
(* such quotient or shift, or a readonly variable), "unset" (a name without *)
(* a value under set -u), "undefined" (no such number).                    *)
Yields(n, vars) == [value |-> n, vars |-> vars, how |-> "ok"]
Stops(how, vars) == [value |-> 0, vars |-> vars, how |-> how]

Applied(op, m, n, vars) ==
  CASE Refused(op, n) -> Stops("error", vars)
    [] ~Refused(op, n) /\ (Traps(op, m, n) \/ Exact(op, m, n) \notin Longs) -> Stops("undefined", vars)
    [] OTHER -> Yields(Exact(op, m, n), vars)

UnaryApplied(op, n, vars) ==
  IF op = "-" /\ n = Least THEN Stops("undefined", vars)
  ELSE Yields(CASE op = "+" -> n
                [] op = "-" -> 0 - n
                [] op = "!" -> IF n = 0 THEN 1 ELSE 0
                [] op = "~" -> CHOOSE v \in Longs : v + n = -1, vars)

(* What a name stands for: 0 if it has no value.                           *)
Holds(sh, vars, x) == IF x \in DOMAIN vars THEN LongOf(vars[x]) ELSE 0
Lacks(sh, vars, x) == sh.nounset /\ (x \notin DOMAIN vars \/ vars[x] = <<>>)

StoredIn(sh, vars, x, n) ==
  IF x \in sh.readonly THEN Stops("error", vars)
  ELSE Yields(n, [y \in DOMAIN vars \cup {x} |-> IF y = x THEN Decimal(n) ELSE vars[y]])

RECURSIVE Value(_, _, _)

(* The right operand of && and || is left out if the left one decides.     *)
Decided(op, m) == (op = "&&" /\ m = 0) \/ (op = "||" /\ m # 0)
WithRight(e, sh, left) ==
  CASE left.how # "ok" -> left
    [] left.how = "ok" /\ Decided(e.op, left.value) -> Yields(Truth(e.op = "||"), left.vars)
    [] OTHER -> LET right == Value(e.r, sh, left.vars) IN
                IF right.how # "ok" THEN right
                ELSE Applied(e.op, left.value, right.value, right.vars)

AfterCondition(e, sh, c) ==
  IF c.how # "ok" THEN c ELSE Value(IF c.value # 0 THEN e.t ELSE e.f, sh, c.vars)

(* The variable of a compound assignment is read first.                    *)
AfterOperand(e, sh, old, right) ==
  CASE right.how # "ok" -> right
    [] right.how = "ok" /\ e.op = "=" -> StoredIn(sh, right.vars, e.x, right.value)
    [] OTHER -> LET result == Applied(Compound[e.op], old, right.value, right.vars) IN
                IF result.how # "ok" THEN result
                ELSE StoredIn(sh, result.vars, e.x, result.value)

Value(e, sh, vars) ==
  CASE e.k = "number" -> Yields(e.n, vars)
    [] e.k = "variable" ->
         IF Lacks(sh, vars, e.x) THEN Stops("unset", vars) ELSE Yields(Holds(sh, vars, e.x), vars)
    [] e.k = "unary" ->
         LET operand == Value(e.e, sh, vars) IN
         IF operand.how # "ok" THEN operand ELSE UnaryApplied(e.op, operand.value, operand.vars)
    [] e.k = "binary" -> WithRight(e, sh, Value(e.l, sh, vars))
    [] e.k = "choice" -> AfterCondition(e, sh, Value(e.c, sh, vars))
    [] e.k = "assign" -> AfterOperand(e, sh, Holds(sh, vars, e.x), Value(e.e, sh, vars))

-----------------------------------------------------------------------------
(* Is text an expression at all?  The grammar of C, level by level where   *)
(* the level matters.                                                      *)
BinaryOperators == UNION {Levels[i] : i \in DOMAIN Levels}
UnaryOperators == {"+", "-", "!", "~"}

RECURSIVE IsAssignment(_), IsConditional(_), IsBinary(_), IsUnary(_)
From(text, i) == SubSeq(text, i, Len(text))
Upto(text, i) == SubSeq(text, 1, i)

IsPrimary(text) ==
  \/ Len(text) = 1 /\ text[1] \in Literals \cup Names
  \/ Len(text) > 2 /\ text[1] = "(" /\ text[Len(text)] = ")" /\ IsAssignment(SubSeq(text, 2, Len(text) - 1))
IsUnary(text) ==
  IF Len(text) > 1 /\ text[1] \in UnaryOperators THEN IsUnary(Tail(text)) ELSE IsPrimary(text)
IsBinary(text) ==
  \/ IsUnary(text)
  \/ \E i \in 2 .. Len(text) - 1 :
       text[i] \in BinaryOperators /\ IsBinary(Upto(text, i - 1)) /\ IsUnary(From(text, i + 1))
IsConditional(text) ==
  \/ IsBinary(text)
  \/ \E i, j \in 2 .. Len(text) - 1 :
       /\ i + 1 < j /\ text[i] = "?" /\ text[j] = ":"
       /\ IsBinary(Upto(text, i - 1)) /\ IsAssignment(SubSeq(text, i + 1, j - 1))
       /\ IsConditional(From(text, j + 1))
IsAssignment(text) ==
  \/ IsConditional(text)
  \/ Len(text) > 2 /\ text[1] \in Names /\ text[2] \in AssignmentOperators /\ IsAssignment(From(text, 3))
=============================================================================
