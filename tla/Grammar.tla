------------------------------ MODULE Grammar ------------------------------
(***************************************************************************)
(* What a program text means, stated from the side of its author: a tree   *)
(* and the ways to write it down.  The shape of the tree is Parser's, the   *)
(* grammar is the one of the shell command language.                       *)
(***************************************************************************)
EXTENDS Parser, SequencesExt

Simple(words) == Node("simple", words, <<>>, <<>>)
List(items) == IF Len(items) = 1 THEN items[1] ELSE Node("sequence", <<>>, <<>>, items)

(* A style says how the lists of a compound command are laid out: what     *)
(* stands between two commands, after a word that opens a list, before the  *)
(* word that closes it, after an operator, before a pattern and after the   *)
(* last clause of a case.                                                  *)
OneLine == [between |-> ";", open |-> <<>>, close |-> <<";">>, operator |-> <<>>,
            pattern |-> <<"(">>, last |-> <<";;">>]
Lines == [between |-> Newline, open |-> <<Newline>>, close |-> <<Newline>>,
          operator |-> <<Newline>>, pattern |-> <<>>, last |-> <<>>]

(* Styles from the outermost compound command inwards.                     *)
Inner(styles) == IF Len(styles) > 1 THEN Tail(styles) ELSE styles

RECURSIVE Written(_, _)

(* The commands of a list, the last one ended too.                         *)
WrittenList(node, styles) ==
  LET items == IF node.kind = "sequence" THEN node.items ELSE <<node>>
      style == Head(styles)
      ended(k) ==
        CASE items[k].kind = "async" -> Written(items[k], Inner(styles))
          [] k = Len(items)          -> Written(items[k], Inner(styles)) \o style.close
          [] OTHER                   -> Written(items[k], Inner(styles)) \o <<style.between>>
  IN  style.open \o FlattenSeq([k \in DOMAIN items |-> ended(k)])

(* Commands joined by operators, one less than there are commands.         *)
Joined(items, operators, styles) ==
  FlattenSeq([k \in DOMAIN items |->
    (IF k = 1 THEN <<>> ELSE <<operators[k - 1]>> \o Head(styles).operator)
      \o Written(items[k], Inner(styles))])

(* In a `case', each clause is a pattern and a list.                       *)
WrittenClauses(node, styles) ==
  FlattenSeq([k \in DOMAIN node.items |->
    Head(styles).pattern \o <<node.words[k + 1], ")">> \o WrittenList(node.items[k], styles)
      \o (IF k < Len(node.items) THEN <<";;">> \o Head(styles).open ELSE Head(styles).last)])

(* What follows the first branch of a conditional.                         *)
WrittenElse(node, styles) ==
  CASE Len(node.items) = 2 -> <<"fi">>
    [] /\ Len(node.items) = 3 /\ Head(styles) = Lines
       /\ node.items[3].kind = "if" /\ node.items[3].redirs = <<>>
         -> <<"elif">> \o Tail(Written(node.items[3], styles))
    [] OTHER -> <<"else">> \o WrittenList(node.items[3], styles) \o <<"fi">>

Written(node, styles) ==
  LET list(k) == WrittenList(node.items[k], styles)
      core ==
        CASE node.kind = "simple" -> node.words
          [] node.kind = "async" -> Written(node.items[1], styles) \o <<"&">>
          [] node.kind = "pipeline" ->
               node.words \o Joined(node.items, [k \in DOMAIN node.items |-> "|"], styles)
          [] node.kind = "andor" -> Joined(node.items, node.words, styles)
          [] node.kind = "if" ->
               <<"if">> \o list(1) \o <<"then">> \o list(2) \o WrittenElse(node, styles)
          [] node.kind \in {"while", "until"} ->
               <<node.kind>> \o list(1) \o <<"do">> \o list(2) \o <<"done">>
          [] node.kind = "for" ->
               <<"for">> \o node.words \o <<Head(styles).between, "do">> \o list(1) \o <<"done">>
          [] node.kind = "case" ->
               <<"case", node.words[1], "in">> \o Head(styles).open
                 \o WrittenClauses(node, styles) \o <<"esac">>
          [] node.kind = "subshell" -> <<"(">> \o list(1) \o <<")">>
          [] node.kind = "group" -> <<"{">> \o list(1) \o <<"}">>
          [] node.kind = "function" ->
               <<node.words[1], "(", ")">> \o Head(styles).open \o Written(node.items[1], styles)
  IN  core \o node.redirs

(* A whole program: commands on lines of their own, or several on a line.   *)
WrittenProgram(items, styles, separator) ==
  FlattenSeq([k \in DOMAIN items |->
    Written(items[k], styles) \o
      (IF items[k].kind = "async" /\ separator # Newline THEN <<>> ELSE <<separator>>)])

(* The tree without the text that the parser keeps with it.                *)
RECURSIVE Tree(_)
Tree(node) == [node EXCEPT !.text = <<>>, !.items = [k \in DOMAIN @ |-> Tree(@[k])]]

(* Every node below and with this one.                                     *)
RECURSIVE Nodes(_)
Nodes(node) == {node} \cup UNION {Nodes(node.items[k]) : k \in DOMAIN node.items}
=============================================================================
