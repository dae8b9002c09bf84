------------------------------- MODULE Parser -------------------------------
(***************************************************************************)
(* parser.c and compound_parse.c: from the text of a program to its tree.  *)
(* Lists, and-or lists and pipelines are cut at their separators outside   *)
(* of every bracket; what is left is taken for a compound command if it    *)
(* looks like one from its first word to its end, else for a simple one.   *)
(* Texts that end in | are outside of the model: whether the code refuses   *)
(* one or takes the | for a word depends on the blanks behind it.          *)
(***************************************************************************)
EXTENDS ShellText

(* struct ast_node: kind, the words and operators of the node, its         *)
(* redirections, its children and, where the executor runs the text        *)
(* itself, that text.                                                      *)
Node(kind, words, redirs, items) ==
  [kind |-> kind, words |-> words, redirs |-> redirs, items |-> items, text |-> <<>>]
WithText(node, text) == [node EXCEPT !.text = text]

Empty == Node("empty", <<>>, <<>>, <<>>)
Bad == Node("error", <<>>, <<>>, <<>>)
Legacy == Node("legacy", <<>>, <<>>, <<>>)
NoMatch == Node("no match", <<>>, <<>>, <<>>)

(* An error in a part is an error of the whole.                            *)
Built(node) == IF \E i \in DOMAIN node.items : node.items[i] = Bad THEN Bad ELSE node

(* Cutting a text: `cuts' are the places of the separators.                *)
Cuts(text, first, IsCut(_, _)) ==
  LET step(s, i) ==
        LET cut == s.depth = Outermost /\ IsCut(s.from, i)
        IN  [depth |-> After(s.depth, text, i, TRUE),
             from  |-> IF cut THEN i + 1 ELSE s.from,
             cuts  |-> IF cut THEN Append(s.cuts, i) ELSE s.cuts]
  IN  Scan(step, [depth |-> Outermost, from |-> first, cuts |-> <<>>], first, Len(text)).cuts

(* The parts between the cuts, without newlines before them.               *)
Parts(text, first, cuts) ==
  LET from(k) == IF k = 1 THEN first ELSE cuts[k - 1] + 1
      to(k) == IF k > Len(cuts) THEN Len(text) ELSE cuts[k] - 1
  IN  [k \in 1..(Len(cuts) + 1) |-> Trim(SubSeq(text, from(k), to(k)))]

-----------------------------------------------------------------------------
(* looks_like_redirection_suffix; parse_redirection_suffix_parts of        *)
(* what it accepts: nothing but redirections may be there.                 *)
looks_like_redirection_suffix(rest) ==
  rest # <<>> => /\ rest[1] = Redirection
                 /\ \A i \in DOMAIN rest : rest[i] \notin {"|", "||", ";", ";;"}

Redirected(node, rest) ==
  IF \A i \in DOMAIN rest : rest[i] = Redirection
  THEN Built([node EXCEPT !.redirs = rest]) ELSE Bad

RECURSIVE parse_sequence(_), parse_andor(_), parse_pipeline(_), parse_command_atom(_)

(* compound_parse.c: the depths of the places from `first' on, counted      *)
(* from there.                                                             *)
Depths(text, first) ==
  LET depths == Scan(LAMBDA s, i : Append(s, After(s[Len(s)], text, i, FALSE)),
                     <<Outermost>>, first, Len(text) - 1)
  IN  [i \in first..Len(text) |-> depths[i - first + 1]]

Word(text, i, w) == text[i] = w /\ CommandPosition(text, i)
Rest(text, last) == SubSeq(text, last + 1, Len(text))
Words(text) == SelectSeq(text, LAMBDA t : t # Newline)

(* What the following find: the words and the texts of a compound command, *)
(* to be parsed when it is the one that matches.                           *)
Compound(kind, words, parts, rest) ==
  [kind |-> kind, words |-> words, parts |-> parts, rest |-> rest]

(* The first branch ends at `else', `elif' or `fi'.  elif ... is parsed as  *)
(* if ... fi.                                                              *)
IfNode(text, then, else, fi) ==
  LET last == SubSeq(text, else + 1, fi - 1)
      other == IF text[else] = "elif" THEN <<"if">> \o last \o <<Newline, "fi">> ELSE last
      parts == <<SubSeq(text, 2, then - 1), SubSeq(text, then + 1, else - 1)>>
                 \o (IF else < fi THEN <<other>> ELSE <<>>)
  IN  Compound("if", <<>>, parts, Rest(text, fi))

IfBranches(text, then, fi, depth) ==
  LET else == FirstFrom(text, then + 1, LAMBDA i :
                \/ i = fi
                \/ (Word(text, i, "else") \/ Word(text, i, "elif")) /\ depth[i] = Outermost)
  IN  IF fi > Len(text) \/ ~looks_like_redirection_suffix(Rest(text, fi)) THEN NoMatch
      ELSE IfNode(text, then, else, fi)

IfThen(text, then, depth) ==
  IfBranches(text, then, FirstFrom(text, then + 1, LAMBDA i :
                           Word(text, i, "fi") /\ Bare(depth[i]) /\ depth[i].if = 0), depth)

(* The condition ends at `then'.                                           *)
IfCondition(text, depth) ==
  LET then == FirstFrom(text, 2, LAMBDA i : text[i] = "then" /\ depth[i] = Outermost)
  IN  IfThen(text, then, Depths(text, then + 1))

parse_simple_if(text) ==
  IF text[1] = "if" THEN IfCondition(text, Depths(text, 2)) ELSE NoMatch

(* The `do' from `first' on, and the `done' for a `do'.                    *)
InLoop(depth) == [depth EXCEPT !.if = 0] = Outermost
FirstWord(text, first, w) ==
  LET depth == Depths(text, first)
  IN  FirstFrom(text, first, LAMBDA i : Word(text, i, w) /\ InLoop(depth[i]))

parse_simple_while(text) ==
  LET do == FirstWord(text, 2, "do")
      before == Trim(SubSeq(text, 2, do - 1))
      condition == IF before # <<>> /\ before[Len(before)] = ";"
                   THEN SubSeq(before, 1, Len(before) - 1) ELSE before
      done == FirstWord(text, do + 1, "done")
  IN  IF \/ text[1] \notin {"while", "until"} \/ done > Len(text)
         \/ ~looks_like_redirection_suffix(Rest(text, done))
      THEN NoMatch
      ELSE Compound(text[1], <<>>, <<condition, SubSeq(text, do + 1, done - 1)>>, Rest(text, done))

(* The words after `in' end at a separator and `do'; without `in' there    *)
(* may be one semicolon.                                                   *)
parse_simple_for(text) ==
  LET name == SkipNewlines(text, 2)
      third == SkipNewlines(text, name + 1)
      Is(i, t) == i <= Len(text) /\ text[i] = t
      plain == SkipNewlines(text, IF Is(third, ";") THEN third + 1 ELSE third)
      do == IF Is(third, "in") THEN FirstWord(text, third + 1, "do")
            ELSE IF Is(plain, "do") THEN plain ELSE Len(text) + 1
      words == SelectSeq(SubSeq(text, third, do - 1), LAMBDA w : w \notin {";", Newline})
      done == FirstWord(text, do + 1, "done")
  IN  IF \/ text[1] # "for" \/ done > Len(text) \/ ~IsName(text[name])
         \/ ~looks_like_redirection_suffix(Rest(text, done))
      THEN NoMatch
      ELSE Compound("for", <<text[name]>> \o words, <<SubSeq(text, do + 1, done - 1)>>, Rest(text, done))

(* parse_embedded_program_root for each of its texts.                      *)
ParseCompound(found) ==
  IF found = NoMatch THEN NoMatch
  ELSE Redirected(Node(found.kind, found.words, <<>>,
                       [k \in DOMAIN found.parts |-> parse_sequence(found.parts[k])]),
                  found.rest)

compound_needs_single_atom(text) ==
  \/ parse_simple_while(text) # NoMatch
  \/ parse_simple_for(text) # NoMatch

-----------------------------------------------------------------------------
(* split_case_redirection_suffix: the `esac' of the first `case'.          *)
CaseEnd(text) ==
  LET depth == Depths(text, 1)
  IN  FirstFrom(text, 1, LAMBDA i :
        Word(text, i, "esac") /\ Bare(depth[i]) /\ depth[i].case = 1)

(* The end of the commands of a clause: ;; or the `esac' of the case (;&   *)
(* and ;;& are left out).                                                  *)
ClauseEnd(text, first) ==
  LET step(s, i) ==
        CASE s.end > 0 -> s
          [] s.nested = 0 /\ (text[i] = ";;" \/ Word(text, i, "esac")) -> [s EXCEPT !.end = i]
          [] Word(text, i, "case") -> [s EXCEPT !.nested = @ + 1]
          [] Word(text, i, "esac") -> [s EXCEPT !.nested = @ - 1]
          [] OTHER -> s
  IN  Scan(step, [nested |-> 0, end |-> 0], first, Len(text)).end

(* parse_case_structure: the clauses from a place on, as words and bodies, *)
(* and whether they end with esac.                                         *)
RECURSIVE Clauses(_, _)
NoClauses(ok) == [words |-> <<>>, bodies |-> <<>>, ok |-> ok]

ClauseWith(text, pattern, close, end) ==
  LET more == IF text[end] = "esac" THEN NoClauses(TRUE) ELSE Clauses(text, end + 1)
  IN  IF end = 0 THEN NoClauses(FALSE)
      ELSE [more EXCEPT !.words = Words(SubSeq(text, pattern, close - 1)) \o @,
                        !.bodies = <<SubSeq(text, close + 1, end - 1)>> \o @]

ClauseFrom(text, pattern) ==
  LET close == FirstFrom(text, pattern, LAMBDA i : text[i] = ")")
  IN  ClauseWith(text, pattern, close,
                 IF close < Len(text) THEN ClauseEnd(text, close + 1) ELSE 0)

Clauses(text, first) ==
  LET start == SkipNewlines(text, first)
      Starts(t) == start <= Len(text) /\ text[start] = t
  IN  IF Starts("esac") THEN NoClauses(start = Len(text))
      ELSE ClauseFrom(text, IF Starts("(") THEN start + 1 ELSE start)

CaseOf(word, found) ==
  IF word = <<>> \/ ~found.ok THEN Legacy
  ELSE Built(Node("case", word \o found.words, <<>>,
                  [k \in DOMAIN found.bodies |-> parse_sequence(found.bodies[k])]))

parse_case_structure(text) ==
  LET in == FirstFrom(text, 3, LAMBDA i : text[i] = "in")
  IN  IF in >= Len(text) THEN Legacy
      ELSE CaseOf(Words(SubSeq(text, 2, in - 1)), Clauses(text, in + 1))

CaseUpTo(node, rest) == IF node = Bad THEN Bad ELSE Redirected(node, rest)

(* Without an `esac' the whole text is tried.                              *)
ParseCase(text) ==
  LET end == CaseEnd(text)
  IN  IF text[1] = "case"
      THEN CaseUpTo(parse_case_structure(IF end > Len(text) THEN text ELSE SubSeq(text, 1, end)),
                    Rest(text, end))
      ELSE NoMatch

-----------------------------------------------------------------------------
(* unwrap_subshell_group and unwrap_brace_group: where the first bracket   *)
(* is closed, 0 if what follows is no redirection.                         *)
unwrap(text, open, close) ==
  LET depths == Scan(LAMBDA s, i : Append(s, (IF i = 1 THEN 0 ELSE s[i - 1])
                                              + (IF text[i] = open THEN 1
                                                 ELSE IF text[i] = close THEN -1 ELSE 0)),
                     <<>>, 1, Len(text))
      end == FirstFrom(text, 1, LAMBDA i : depths[i] = 0)
  IN  IF text[1] = open /\ end <= Len(text) /\ looks_like_redirection_suffix(Rest(text, end)) THEN end ELSE 0

(* The executor runs the text `run' of such a node, not its child.         *)
Run(kind, words, run, rest) ==
  Redirected(WithText(Node(kind, words, <<>>, <<parse_sequence(run)>>), run), rest)

GroupUpTo(text, kind, end) ==
  IF end = 0 THEN NoMatch
  ELSE Run(kind, <<>>, Trim(SubSeq(text, 2, end - 1)), Rest(text, end))

ParseGroup(text, kind, open, close) == GroupUpTo(text, kind, unwrap(text, open, close))

(* The redirections after the body of a function belong to the function.   *)
FunctionUpTo(name, body, end) ==
  LET last == IF end = 0 THEN Len(body) ELSE end
  IN  Run("function", <<name>>, SubSeq(body, 1, last), Rest(body, last))

FunctionWith(name, body) ==
  LET subshell == unwrap(body, "(", ")")
  IN  IF body = <<>> THEN NoMatch
      ELSE FunctionUpTo(name, body, IF subshell > 0 THEN subshell ELSE unwrap(body, "{", "}"))

ParseFunction(text) ==
  LET header == HeaderEnd(text)
  IN  IF header = 0 THEN NoMatch ELSE FunctionWith(text[1], Trim(Rest(text, header)))

ParseSimple(text) ==
  Node("simple", SelectSeq(text, LAMBDA t : t \notin {Redirection, Newline}),
       SelectSeq(text, LAMBDA t : t = Redirection), <<>>)

(* The first that matches.                                                 *)
parse_command_atom(text) ==
  IF text = <<>> THEN Empty
  ELSE Head(SelectSeq(<<ParseFunction(text), ParseCompound(parse_simple_if(text)),
                        ParseCompound(parse_simple_while(text)),
                        ParseCompound(parse_simple_for(text)), ParseCase(text),
                        ParseGroup(text, "subshell", "(", ")"),
                        ParseGroup(text, "group", "{", "}"), ParseSimple(text)>>,
                      LAMBDA node : node # NoMatch))

-----------------------------------------------------------------------------
(* The node over some parts: the first error is an error of the whole, a    *)
(* single part is not wrapped.                                             *)
Joint(kind, words, items) ==
  IF Len(items) = 1 /\ words = <<>> THEN items[1] ELSE Built(Node(kind, words, <<>>, items))

PipelineOf(parts, bangs) ==
  IF \E k \in DOMAIN parts : parts[k] = <<>> THEN Bad
  ELSE Joint("pipeline", IF bangs % 2 = 1 THEN <<"!">> ELSE <<>>,
             [k \in DOMAIN parts |-> parse_command_atom(parts[k])])

parse_pipeline(text) ==
  LET start == FirstFrom(text, 1, LAMBDA i : text[i] \notin {"!", Newline})
  IN  PipelineOf(Parts(text, start, Cuts(text, start, LAMBDA from, i : text[i] = "|")),
                 Len(SelectSeq(SubSeq(text, 1, start - 1), LAMBDA t : t = "!")))

AndOrOf(parts, operators) ==
  IF \E k \in DOMAIN parts : parts[k] = <<>> THEN Bad
  ELSE Joint("andor", operators, [k \in DOMAIN parts |-> parse_pipeline(parts[k])])

AndOrAt(text, cuts) == AndOrOf(Parts(text, 1, cuts), [k \in DOMAIN cuts |-> text[cuts[k]]])

(* What looks like one loop is not cut.                                    *)
parse_andor(text) ==
  AndOrAt(text, IF compound_needs_single_atom(text) THEN <<>>
                ELSE Cuts(text, 1, LAMBDA from, i : text[i] \in {"&&", "||"}))

(* A newline ends a command unless needs_more_input wants more after it.   *)
EndsList(text, from, i) ==
  \/ text[i] \in {";", ";;", "&"}
  \/ text[i] = Newline /\ ~needs_more_input(SubSeq(text, from, i))

(* A command of a list, in the background if it ends with &.               *)
Ended(node, background) ==
  IF background THEN Built(Node("async", <<>>, <<>>, <<node>>)) ELSE node
Listed(part, background) ==
  IF part # <<>> THEN Ended(parse_andor(part), background)
  ELSE IF background THEN Bad ELSE Empty

SequenceOf(items) == IF items = <<>> THEN Empty ELSE Joint("sequence", <<>>, items)

ListOf(text, cuts, parts) ==
  SequenceOf(SelectSeq([k \in DOMAIN parts |->
                          Listed(parts[k], k <= Len(cuts) /\ text[cuts[k]] = "&")],
                       LAMBDA node : node # Empty))

ListAt(text, cuts) == ListOf(text, cuts, Parts(text, 1, cuts))

parse_sequence(text) ==
  ListAt(text, Cuts(text, 1, LAMBDA from, i : EndsList(text, from, i)))
=============================================================================
