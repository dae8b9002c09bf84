--------------------------- MODULE MCCommandWords ---------------------------
(***************************************************************************)
(* Small commands and shells for TLC.                                      *)
(***************************************************************************)
EXTENDS CommandWords

Char(c) == [k |-> "char", c |-> c]
Backslash(c) == [k |-> "backslash", c |-> c]
Single(text) == [k |-> "single", text |-> text]
Double(word) == [k |-> "double", word |-> word]
Param(name) == [k |-> "param", name |-> name]
Brace(name, op, word) == [k |-> "braced", name |-> name, op |-> op, word |-> word]
Printing(text, status) == [k |-> "command", printed |-> text, status |-> status]
Chars(text) == [i \in DOMAIN text |-> Char(text[i])]
Reckoned(tree) == [k |-> "arith", word |-> Chars(Bare(tree)), tree |-> tree]
Item(k, word) == [k |-> k, word |-> word]

MCFiles == <<<<"a">>, <<"a", "b">>>>

Specials0 == [s \in Specials |-> IF s = "!" THEN <<>> ELSE <<s>>]
NoValue == <<"unset">>
Holding(names) == [n \in {m \in DOMAIN names : names[m] # NoValue} |-> names[n]]
ShellOf(x, y, ifs, params) ==
  [vars |-> Holding([n \in {"x", "y", "IFS", "HOME"} |->
              CASE n = "x" -> x [] n = "y" -> y [] n = "IFS" -> ifs [] n = "HOME" -> <<"/", "h">>]),
   readonly |-> {}, nounset |-> FALSE, interactive |-> FALSE, exits |-> FALSE, params |-> params,
   special |-> Specials0, noglob |-> FALSE, status |-> NoStatus]

-----------------------------------------------------------------------------
(* Words: up to two parts, and three of those that split.                  *)
Values == {NoValue, <<>>, <<"a">>, <<" ", "a">>, <<"a", " ", "b">>, <<"a", ":", "b">>, <<":">>, <<"*">>,
           <<"a", ":", " ">>, <<" ">>}
Separators == {NoValue, <<>>, <<":">>, <<" ", ":">>}
Parameters == {<<>>, <<<<"a">>>>, <<<<"a", " ", "b">>, <<"c">>>>, <<<<"a">>, <<>>>>}

Simple == {Char("a"), Char(":"), Char("*"), Char("~"), Char("/"), Backslash("a"), Single(<<>>),
           Single(<<" ", "a">>), Double(<<>>), Double(<<Param("x")>>), QuotedAt, Double(<<Param("*")>>),
           Param("x"), Param("@"), Param("*"), Printing(<<"a", " ", "newline">>, 3)}
Words2 == {<<p>> : p \in Simple} \cup {<<p, q>> : p, q \in Simple}
Splitting == {Char("a"), Single(<<>>), Double(<<Param("x")>>), Param("x"), QuotedAt, Param("@")}
Words3 == {<<p, q, r>> : p, q, r \in Splitting}

PlainShells == {ShellOf(x, <<"a">>, ifs, params) : x \in Values, ifs \in Separators, params \in Parameters}
Words ==
  \E w \in Words2 \cup Words3, s \in PlainShells : Begin(<<Item("word", w)>>, s)

Assigning(w) == <<Char("x"), Char("=")>> \o w
Written2 == {<<p>> : p \in Simple} \cup
            {<<p, Char(":"), q>> : p \in {Char("a"), Param("x")}, q \in {Char("~"), Param("x"), Double(<<>>)}}
Unsplits ==
  \E w \in Written2, s \in PlainShells :
    Begin(<<Item("value", Assigning(w))>>, s) \/ Begin(<<Item("operand", w)>>, s)

-----------------------------------------------------------------------------
(* Braces, bare and between quotes, and in a here-document.                *)
Inner == {<<>>, <<Char("a")>>, <<Char("~")>>, <<Char("a"), Param("y")>>, <<Double(<<Param("y")>>)>>,
          <<Backslash("*")>>, <<Char("*"), Char("a")>>, <<Backslash("}")>>,
          <<Brace("y", "=", <<Char("b")>>)>>, <<Printing(<<" ", "b">>, 3)>>}
Operators1 == Defaults \cup Alternates \cup Assigns \cup Errors \cup Trims
BracePart == {Brace(n, op, w) : n \in {"x", "1"}, op \in Operators1, w \in Inner}
             \cup {Brace(n, op, <<>>) : n \in {"x", "1", "#", "?", "!"}, op \in {"", "length"}}
             \cup {Brace(n, op, <<Char("a")>>) : n \in {"@", "*"}, op \in {"+", ":-"}}
             \cup {Brace(n, "", <<>>) : n \in {"@", "*"}}
BraceShells ==
  {[ShellOf(x, y, <<" ", ":">>, params) EXCEPT !.nounset = u, !.interactive = i, !.readonly = r] :
     x \in {NoValue, <<>>, <<"a", "*", "a">>, <<"b", " ", "a">>}, y \in {NoValue, <<"a", ":">>},
     params \in {<<>>, <<<<>>, <<"a", "a">>>>}, u, i \in BOOLEAN, r \in {{}, {"x"}}}
Settled(s) == s.readonly \subseteq DOMAIN s.vars   \* readonly gives a variable a value
Braces ==
  \E b \in BracePart, s \in {t \in BraceShells : Settled(t)} :
    \/ Begin(<<Item("word", <<b>>)>>, s)
    \/ Begin(<<Item("word", <<Double(<<b>>)>>)>>, s)
    \/ Begin(<<Item("heredoc", <<b>>)>>, s)

-----------------------------------------------------------------------------
(* Commands of several items that change what the next ones see.           *)
Effects == {<<Brace("x", "=", <<Char("b"), Single(<<" ">>)>>)>>, <<Brace("IFS", "=", <<Char(":")>>)>>,
            <<Brace("y", "?", <<>>)>>, <<Printing(<<>>, 3)>>, <<Param("x")>>,
            <<Reckoned([k |-> "assign", op |-> "+=", x |-> "y", e |-> [k |-> "number", n |-> 1]])>>}
EffectShells ==
  {[ShellOf(x, y, ifs, <<>>) EXCEPT !.interactive = i] :
     x \in {NoValue, <<"a", ":", "b">>}, y \in {NoValue, <<"1">>}, ifs \in {NoValue, <<":">>}, i \in BOOLEAN}
Sequences3 ==
  \E k1 \in {"word", "operand"}, k2 \in {"operand", "heredoc"} :
    \E w1, w2, w3 \in Effects, s \in EffectShells :
      Begin(<<Item(k1, w1), Item(k2, w2), Item("value", Assigning(w3))>>, s)

-----------------------------------------------------------------------------
(* Arithmetic: trees of two levels, and texts of up to five tokens.        *)
Num(n) == [k |-> "number", n |-> n]
Var(x) == [k |-> "variable", x |-> x]
BinaryOps == {"*", "/", "%", "+", "-", "<<", ">>", "<", ">=", "==", "&", "^", "|", "&&", "||"}
UnaryOps == {"-", "!", "~", "+"}
AssignOps == {"=", "/=", "-=", "<<="}
Over(L, R) ==
  {[k |-> "unary", op |-> op, e |-> e] : op \in UnaryOps, e \in L}
  \cup {[k |-> "binary", op |-> op, l |-> l, r |-> r] : op \in BinaryOps, l \in L, r \in R}
  \cup {[k |-> "choice", c |-> c, t |-> t, f |-> Num(2)] : c \in L, t \in R}
  \cup {[k |-> "choice", c |-> c, t |-> Num(2), f |-> f] : c \in L, f \in R}
  \cup {[k |-> "assign", op |-> op, x |-> "x", e |-> e] : op \in AssignOps, e \in R}
Leaves == {Num(1), Var("x")}
Trees1 == Over(Leaves \cup {Num(2)}, Leaves)
Trees2 == Over(Trees1, {Var("x")}) \cup Over({Num(1), Var("x")}, Trees1)
Reckonings == {Num(0), Var("y")} \cup Trees1 \cup Trees2
ArithShells ==
  {[ShellOf(x, <<"1">>, NoValue, <<>>) EXCEPT !.nounset = u, !.interactive = i, !.readonly = r] :
     x \in {NoValue, <<"0">>, <<"2">>, <<"-", "1">>, <<"-", "4">>}, u, i \in {FALSE}, r \in {{}}}
  \cup {[ShellOf(x, <<"1">>, NoValue, <<>>) EXCEPT !.nounset = TRUE, !.interactive = i, !.readonly = r] :
          x \in {NoValue, <<"1">>}, i \in BOOLEAN, r \in {{}, {"x"}}}
Arithmetics ==
  \E e \in Reckonings, s \in {t \in ArithShells : Settled(t)} : Begin(<<Item("word", <<Reckoned(e)>>)>>, s)

Tokens == {"1", "x", "+", "=", "(", ")", "?", ":"}
Count(text, n, token) == Cardinality({i \in 1 .. n : text[i] = token})
(* Other parentheses would end $((...)) elsewhere.                         *)
Balanced(text) ==
  /\ \A n \in DOMAIN text : Count(text, n, ")") <= Count(text, n, "(")
  /\ Count(text, Len(text), "(") = Count(text, Len(text), ")")
Texts == {text \in UNION {[1 .. n -> Tokens] : n \in 0 .. 5} : Balanced(text)}
AnyTexts ==
  \E text \in Texts :
    Begin(<<Item("word", <<[k |-> "arith", word |-> Chars(text), tree |-> [k |-> "unknown"]]>>)>>,
          ShellOf(<<"1">>, <<"1">>, NoValue, <<>>))

-----------------------------------------------------------------------------
Init == Words \/ Unsplits \/ Braces \/ Sequences3 \/ Arithmetics \/ AnyTexts
Next == Expand
Spec == Init /\ [][Next]_vars
=============================================================================
