------------------------------ MODULE MCParser ------------------------------
(***************************************************************************)
(* Scripts for Reader: trees up to two compound commands deep, in every    *)
(* style, and the properties that compare what ran with what was written.  *)
(***************************************************************************)
EXTENDS Reader, Grammar

Redirect(node) == [node EXCEPT !.redirs = <<Redirection>>]
Async(node) == Node("async", <<>>, <<>>, <<node>>)
AndOr(l, op, r) == Node("andor", <<op>>, <<>>, <<l, r>>)
Piped(bang, items) == Node("pipeline", bang, <<>>, items)

a == Simple(<<"a">>)
b == Simple(<<"b">>)

(* Lists without compound commands; reserved words are arguments too.      *)
PlainLists ==
  {a, Simple(<<"a", "done">>), Simple(<<"b", "fi">>), Redirect(a), List(<<a, b>>),
   Async(a), List(<<Async(a), b>>), AndOr(a, "&&", b), AndOr(a, "||", b),
   Piped(<<>>, <<a, b>>), Piped(<<"!">>, <<a>>)}

(* The compound commands around a list.                                    *)
If(items) == Node("if", <<>>, <<>>, items)
Compounds(x) ==
  {If(<<x, a>>), If(<<a, x>>), If(<<a, b, x>>), If(<<a, x, b>>),
   Node("while", <<>>, <<>>, <<x, a>>), Node("until", <<>>, <<>>, <<a, x>>),
   Node("for", <<"i", "in", "w">>, <<>>, <<x>>), Node("for", <<"i">>, <<>>, <<x>>),
   Node("case", <<"w", "p">>, <<>>, <<x>>), Node("case", <<"w", "p", "q">>, <<>>, <<x, b>>),
   Node("case", <<"w", "p", "q">>, <<>>, <<a, x>>),
   Node("subshell", <<>>, <<>>, <<x>>), Node("group", <<>>, <<>>, <<x>>)}
Functions(x) == {Node("function", <<"f">>, <<>>, <<c>>) : c \in
                   {Node("subshell", <<>>, <<>>, <<x>>), Node("group", <<>>, <<>>, <<x>>)}}

(* The lists around a command.                                             *)
ListsWith(c) ==
  {c, List(<<c, b>>), List(<<a, c>>), AndOr(c, "&&", b), AndOr(a, "||", c),
   Piped(<<>>, <<c, b>>), Piped(<<>>, <<a, c>>), Piped(<<"!">>, <<c>>), Async(c),
   List(<<Async(c), b>>)}

Redirectable(c) == IF c.kind = "function" THEN {c} ELSE {c, Redirect(c)}

Small == UNION {Compounds(x) \cup Functions(x) : x \in {a}}
Large == UNION {Compounds(x) \cup Functions(x) : x \in PlainLists}
Nested == UNION {UNION {Compounds(x) : x \in ListsWith(c)} : c \in Small}

Shallow == PlainLists \cup UNION {ListsWith(d) : d \in UNION {Redirectable(c) : c \in Large}}

Styles == {<<OneLine>>, <<Lines>>, <<Lines, OneLine>>}

Items(node) == IF node.kind = "sequence" THEN node.items ELSE <<node>>

(* Programs that the scanners are known to misread (see the README): a     *)
(* negated command that starts with a reserved word, an and-or list with a  *)
(* redirected loop, a loop right behind `while' or `until' on its line, a   *)
(* negated group over several lines, a function whose body is on the next   *)
(* line and whose name does not start its own line, and a subshell with a   *)
(* `case' that has no ( before its patterns.                               *)
Keywords == {"if", "while", "until", "for", "case"}
IsLoop(n) == n.kind \in {"while", "until", "for"}

RECURSIVE Leading(_)
Leading(n) ==
  IF n.kind \in {"sequence", "async", "andor", "pipeline"} /\ n.words # <<"!">>
  THEN Leading(n.items[1]) ELSE n

Misread(n, styles) ==
  \/ n.kind = "pipeline" /\ n.words = <<"!">> /\
       \/ n.items[1].kind \in Keywords
       \/ n.items[1].kind = "group" /\ styles # <<OneLine>>
  \/ n.kind = "andor" /\ \E k \in DOMAIN n.items : IsLoop(n.items[k]) /\ n.items[k].redirs # <<>>
  \/ n.kind \in {"while", "until"} /\ IsLoop(Leading(n.items[1])) /\ styles = <<OneLine>>
  \/ /\ n.kind \in {"pipeline", "andor"} /\ styles # <<OneLine>>
     /\ \E k \in DOMAIN n.items : n.items[k].kind = "function"
  \/ n.kind = "subshell" /\ styles = <<Lines>> /\ \E c \in Nodes(n) : c.kind = "case"

Readable(trees) ==
  {p \in trees \X Styles : \A n \in Nodes(p[1]) : ~Misread(n, p[2])}

(* Every program by itself.                                                *)
Whole == {[program |-> Items(p[1]), text |-> WrittenProgram(Items(p[1]), p[2], Newline),
           whole |-> TRUE] : p \in Readable(Shallow) \cup Readable(Nested)}

(* More on the last line, and an end without a newline.                    *)
OneItem(trees) == {n \in trees : n.kind # "sequence"}
Followed == {[program |-> Items(p[1]) \o <<b>>,
              text |-> WrittenProgram(Items(p[1]), p[2], ";") \o b.words, whole |-> TRUE] :
               p \in Readable(OneItem(Shallow))}

(* The start of one command, cut at the end of a line.                     *)
Starts ==
  UNION {LET text == Written(p[1], p[2])
         IN  {[program |-> <<>>, text |-> SubSeq(text, 1, i), whole |-> FALSE] :
                i \in {j \in 1..(Len(text) - 1) : text[j] = Newline}} :
           p \in {q \in Readable(OneItem(Shallow)) : q[1].kind # "async"}}

AllScripts == UNION {Whole, Followed, Starts}

-----------------------------------------------------------------------------
Trees(nodes) == [k \in DOMAIN nodes |-> Tree(nodes[k])]

(* What is run is what was written: at any time the commands run so far    *)
(* are the first ones of the program, none of them cut short or taken for   *)
(* something else; at the end all of them were run, and a script that      *)
(* stops in a command is reported.                                         *)
RanAsWritten ==
  /\ IsPrefix(Trees(ran), script.program)
  /\ phase # "reading" => /\ Len(ran) = Len(script.program)
                          /\ phase = (IF script.whole THEN "ended" ELSE "cut off")

(* The text that is kept for a group, a subshell or a function is cut into  *)
(* the same commands when it is run as when it was parsed.                 *)
RunsAsParsed ==
  phase # "reading" =>
    \A n \in UNION {Nodes(ran[k]) : k \in DOMAIN ran} :
      n.text # <<>> =>
        Trees(program_text_execute_internal(n.text)) = Commands(Tree(n.items[1]))
=============================================================================
