------------------------------- MODULE Arith -------------------------------
(***************************************************************************)
(* arith.c: the evaluator of $((...)), a recursive descent that computes   *)
(* while it parses.  Operands that are not to be evaluated are parsed with *)
(* eval = FALSE.  A text is a sequence of tokens; cutting characters into  *)
(* tokens is left out (two tokens next to each other are always two).      *)
(*                                                                         *)
(* p is struct arith_parser together with the value of the function that   *)
(* is about to return:                                                     *)
(*   text, at     p->src and p->pos                                        *)
(*   tok          p->tok                                                   *)
(*   sh           the shell: vars, what the names that are set hold;       *)
(*                readonly; nounset, interactive; exits is should_exit     *)
(*   failed       p->failed                                                *)
(*   killed       the processor has refused the division: SIGFPE           *)
(*   value, name  struct arith_value; name is "" if it is not assignable   *)
(*                                                                         *)
(* long has Width bits.  Overflow is undefined in C; the builds wrap.      *)
(***************************************************************************)
EXTENDS Integers, Sequences
LOCAL INSTANCE Bitwise

CONSTANTS Width, Names

ASSUME WidthAssumption == Width \in 2 .. 4

Least == -(2 ^ (Width - 1))
Greatest == 2 ^ (Width - 1) - 1
Longs == Least .. Greatest
Wrap(n) == ((n - Least) % (2 ^ Width)) + Least
Unsigned(n) == n % (2 ^ Width)

Digit == <<"0", "1", "2", "3", "4", "5", "6", "7", "8">>

(* vars_format_long_decimal, and strtol of such a text.                    *)
Decimal(n) == IF n < 0 THEN <<"-", Digit[1 - n]>> ELSE <<Digit[1 + n]>>
Literals == {Digit[1 + n] : n \in 0 .. Greatest}
Number(token) == CHOOSE n \in 0 .. Greatest : Digit[1 + n] = token

(* vars_get_long_n: what is no number counts as 0, the empty value as      *)
(* unset.                                                                  *)
IsSet(sh, name) == name \in DOMAIN sh.vars /\ sh.vars[name] # <<>>
LongOf(value) ==
  IF \E n \in Longs : Decimal(n) = value THEN CHOOSE n \in Longs : Decimal(n) = value ELSE 0

AssignmentOperators == {"=", "*=", "/=", "%=", "+=", "-=", "<<=", ">>=", "&=", "^=", "|="}
Operators == AssignmentOperators \cup
  {"(", ")", "?", ":", "+", "-", "*", "/", "%", "<", "<=", ">", ">=", "==", "!=", "&", "^",
   "|", "&&", "||", "<<", ">>", "~", "!"}

next_token(p) ==
  CASE p.at > Len(p.text) -> [p EXCEPT !.tok = "end"]
    [] p.at <= Len(p.text) /\ p.text[p.at] \in Operators \cup Literals \cup Names ->
         [p EXCEPT !.tok = p.text[p.at], !.at = @ + 1]
    [] OTHER -> [p EXCEPT !.tok = "end", !.at = @ + 1, !.failed = TRUE]

Valued(p, n) == [p EXCEPT !.value = n, !.name = ""]
parser_fail(p) == [Valued(p, 0) EXCEPT !.failed = TRUE]

-----------------------------------------------------------------------------
(* starts_with(s, "=") also holds of "==".                                 *)
follows_assignment_operator(p) ==
  p.at <= Len(p.text) /\ p.text[p.at] \in AssignmentOperators \cup {"=="}

(* read_identifier_value_n cannot read an unset name under set -u.         *)
Unreadable(p, name) ==
  ~IsSet(p.sh, name) /\ p.sh.nounset /\ ~follows_assignment_operator(p)

(* Mutant: an interactive shell ends, too.                                 *)
expansion_fatal_Always(sh) == [sh EXCEPT !.exits = TRUE]

expansion_fatal(sh) == [sh EXCEPT !.exits = @ \/ ~sh.interactive]

Read(p, name) ==
  CASE Unreadable(p, name) -> [Valued(p, 0) EXCEPT !.sh = expansion_fatal(@)]
    [] ~IsSet(p.sh, name) -> [p EXCEPT !.value = 0, !.name = name]
    [] OTHER -> [p EXCEPT !.value = LongOf(p.sh.vars[name]), !.name = name]

SetTo(sh, name, value) ==
  [sh EXCEPT !.vars = [x \in DOMAIN sh.vars \cup {name} |->
                        IF x = name THEN value ELSE sh.vars[x]]]

assign_identifier_value(p, name, n) ==
  IF name \in p.sh.readonly
  THEN [parser_fail(p) EXCEPT !.sh = expansion_fatal(@)]
  ELSE [Valued(p, n) EXCEPT !.sh = SetTo(@, name, Decimal(n))]

-----------------------------------------------------------------------------
(* What an operator computes, and when it cannot.                          *)
valid_shift_width(n) == n \in 0 .. Width - 1

Refused(op, n) ==
  \/ op \in {"/", "%"} /\ n = 0
  \/ op \in {"<<", ">>"} /\ ~valid_shift_width(n)

(* Least / -1 does not fit: the instruction traps.                         *)
Traps(op, m, n) == op \in {"/", "%"} /\ m = Least /\ n = -1

Absolute(n) == IF n < 0 THEN -n ELSE n
Quotient(m, n) ==
  IF (m < 0) = (n < 0) THEN Absolute(m) \div Absolute(n) ELSE -(Absolute(m) \div Absolute(n))
Truth(condition) == IF condition THEN 1 ELSE 0

Exact(op, m, n) ==
  CASE op = "*" -> m * n
    [] op = "/" -> Quotient(m, n)
    [] op = "%" -> m - n * Quotient(m, n)
    [] op = "+" -> m + n
    [] op = "-" -> m - n
    [] op = "<<" -> m * 2 ^ n
    [] op = ">>" -> m \div 2 ^ n
    [] op = "<" -> Truth(m < n)
    [] op = "<=" -> Truth(m <= n)
    [] op = ">" -> Truth(m > n)
    [] op = ">=" -> Truth(m >= n)
    [] op = "==" -> Truth(m = n)
    [] op = "!=" -> Truth(m # n)
    [] op = "&" -> Wrap(Unsigned(m) & Unsigned(n))
    [] op = "^" -> Wrap(Unsigned(m) ^^ Unsigned(n))
    [] op = "|" -> Wrap(Unsigned(m) | Unsigned(n))
    [] op = "&&" -> Truth(m # 0 /\ n # 0)
    [] op = "||" -> Truth(m # 0 \/ n # 0)

Result(op, m, n) == Wrap(Exact(op, m, n))

Computed(p, op, m, n) ==
  CASE Refused(op, n) -> parser_fail(p)
    [] ~Refused(op, n) /\ Traps(op, m, n) -> [Valued(p, 0) EXCEPT !.killed = TRUE]
    [] OTHER -> Valued(p, Result(op, m, n))

UnaryResult(op, n) ==
  CASE op = "+" -> n
    [] op = "-" -> Wrap(-n)
    [] op = "!" -> Truth(n = 0)
    [] op = "~" -> -n - 1

-----------------------------------------------------------------------------
(* The operators of each level, tightest first: parse_multiplicative to    *)
(* parse_logical_or.                                                       *)
Multiplicative == {"*", "/", "%"}
Additive == {"+", "-"}
Shifts == {"<<", ">>"}
Relational == {"<", "<=", ">", ">="}
Equalities == {"==", "!="}
BitAnd == {"&"}
BitXor == {"^"}
BitOr == {"|"}
LogicalAnd == {"&&"}
LogicalOr == {"||"}
Levels == <<Multiplicative, Additive, Shifts, Relational, Equalities, BitAnd, BitXor, BitOr,
            LogicalAnd, LogicalOr>>

(* Mutant: both operands of && and || are evaluated.                       *)
right_eval_Always(op, left, eval) == eval

(* Is the right operand evaluated?                                         *)
right_eval(op, left, eval) ==
  /\ eval
  /\ op = "&&" => left # 0
  /\ op = "||" => left = 0

RECURSIVE parse_assignment(_, _), parse_conditional(_, _), parse_binary(_, _, _),
          more_operands(_, _, _), parse_unary(_, _), parse_primary(_, _)

Closed(p) ==
  IF p.tok = ")" THEN [next_token(p) EXCEPT !.name = ""] ELSE parser_fail(p)

(* An unset name under set -u is not passed over.                          *)
parse_primary(p, eval) ==
  CASE p.tok \in Literals -> next_token(Valued(p, Number(p.tok)))
    [] p.tok \in Names /\ eval /\ Unreadable(p, p.tok) -> Read(p, p.tok)
    [] p.tok \in Names /\ eval /\ ~Unreadable(p, p.tok) -> next_token(Read(p, p.tok))
    [] p.tok \in Names /\ ~eval -> next_token([p EXCEPT !.value = 0, !.name = p.tok])
    [] p.tok = "(" -> Closed(parse_assignment(next_token(p), eval))
    [] OTHER -> parser_fail(p)

Negated(op, p, eval) ==
  [p EXCEPT !.name = "", !.value = IF eval /\ ~p.failed THEN UnaryResult(op, @) ELSE @]

parse_unary(p, eval) ==
  IF p.tok \in {"+", "-", "!", "~"}
  THEN Negated(p.tok, parse_unary(next_token(p), eval), eval)
  ELSE parse_primary(p, eval)

(* With the right operand parsed: compute, and go on at the same level     *)
(* unless the operation has failed.                                        *)
Combined(level, op, left, right, eval) ==
  CASE ~eval \/ right.failed -> more_operands(level, Valued(right, left), eval)
    [] eval /\ ~right.failed /\ Refused(op, right.value) -> parser_fail(right)
    [] OTHER -> more_operands(level, Computed(right, op, left, right.value), eval)

more_operands(level, p, eval) ==
  IF p.tok \in Levels[level]
  THEN Combined(level, p.tok, p.value,
                parse_binary(level - 1, next_token(p), right_eval(p.tok, p.value, eval)), eval)
  ELSE p

parse_binary(level, p, eval) ==
  IF level = 0 THEN parse_unary(p, eval)
  ELSE more_operands(level, parse_binary(level - 1, p, eval), eval)

Chosen(cond, on_true, on_false, eval) ==
  Valued(on_false, IF ~eval \/ on_false.failed THEN cond
                   ELSE IF cond # 0 THEN on_true ELSE on_false.value)

Alternatives(cond, p, eval) ==
  IF p.tok = ":"
  THEN Chosen(cond, p.value, parse_conditional(next_token(p), eval /\ cond = 0), eval)
  ELSE parser_fail(p)

Conditional(p, eval) ==
  IF p.tok = "?"
  THEN Alternatives(p.value, parse_assignment(next_token(p), eval /\ p.value # 0), eval)
  ELSE p

parse_conditional(p, eval) ==
  Conditional(parse_binary(Len(Levels), p, eval), eval)

(* The operator of a compound assignment.                                  *)
Compound ==
  [op \in AssignmentOperators \ {"="} |->
    CASE op = "*=" -> "*" [] op = "/=" -> "/" [] op = "%=" -> "%" [] op = "+=" -> "+"
      [] op = "-=" -> "-" [] op = "<<=" -> "<<" [] op = ">>=" -> ">>" [] op = "&=" -> "&"
      [] op = "^=" -> "^" [] op = "|=" -> "|"]

Stored(p, name, q) ==
  IF p.failed \/ p.killed THEN p ELSE assign_identifier_value(p, name, q)

Assigned(op, left, right, eval) ==
  CASE ~eval \/ right.failed -> Valued(right, 0)
    [] eval /\ ~right.failed /\ left.name = "" -> parser_fail(right)
    [] eval /\ ~right.failed /\ left.name # "" /\ op = "=" ->
         assign_identifier_value(right, left.name, right.value)
    [] OTHER ->
         LET result == Computed(right, Compound[op], left.value, right.value)
         IN  Stored(result, left.name, result.value)

Assignment(left, eval) ==
  IF left.tok \in AssignmentOperators
  THEN Assigned(left.tok, left, parse_assignment(next_token(left), eval), eval)
  ELSE left

parse_assignment(p, eval) == Assignment(parse_conditional(p, eval), eval)

-----------------------------------------------------------------------------
(* try_fast_eval: a name, a number, or one of each with + or - between;    *)
(* strtol takes a sign before the number.                                  *)
Signs == {"+", "-"}
SignedNumber(text) ==
  \/ Len(text) = 1 /\ text[1] \in Literals
  \/ Len(text) = 2 /\ text[1] \in Signs /\ text[2] \in Literals
SignedValue(text) ==
  CASE Len(text) = 1 -> Number(text[1])
    [] Len(text) = 2 /\ text[1] = "+" -> Number(text[2])
    [] OTHER -> -Number(text[2])

NameThenNumber(text) ==
  Len(text) >= 3 /\ text[1] \in Names /\ text[2] \in Signs /\ SignedNumber(SubSeq(text, 3, Len(text)))
NumberThenName(text) ==
  /\ Len(text) >= 3 /\ text[Len(text)] \in Names /\ text[Len(text) - 1] \in Signs
  /\ SignedNumber(SubSeq(text, 1, Len(text) - 2))

Fast(text) ==
  \/ Len(text) = 1 /\ text[1] \in Names
  \/ SignedNumber(text)
  \/ NameThenNumber(text)
  \/ NumberThenName(text)

(* A name that cannot be read gives 0 here, and no failure.                *)
FastSum(p, name, op, left, right) ==
  IF Unreadable(p, name) THEN Read(p, name)
  ELSE Valued(p, IF op = "+" THEN Wrap(left + right) ELSE Wrap(left - right))

try_fast_eval(p, text) ==
  CASE Len(text) = 1 /\ text[1] \in Names -> Read(p, text[1])
    [] SignedNumber(text) -> Valued(p, SignedValue(text))
    [] NameThenNumber(text) ->
         FastSum(p, text[1], text[2], Read(p, text[1]).value, SignedValue(SubSeq(text, 3, Len(text))))
    [] NumberThenName(text) ->
         FastSum(p, text[Len(text)], text[Len(text) - 1], SignedValue(SubSeq(text, 1, Len(text) - 2)),
                 Read(p, text[Len(text)]).value)

Parser(text, sh) ==
  [text |-> text, at |-> 1, tok |-> "end", sh |-> sh, failed |-> FALSE, killed |-> FALSE,
   value |-> 0, name |-> ""]

(* Mutant: what follows the expression is not looked at.                   *)
Finished_Early(p) == p

Finished(p) == IF ~p.failed /\ p.tok # "end" THEN parser_fail(p) ELSE p

arith_eval(text, sh) ==
  IF Fast(text) THEN try_fast_eval([Parser(text, sh) EXCEPT !.at = Len(text) + 1], text)
  ELSE Finished(parse_assignment(next_token(Parser(text, sh)), TRUE))
=============================================================================
