----------------------------- MODULE ShellText -----------------------------
(***************************************************************************)
(* The text of a program as the scanners of the shell see it.  parser.c,   *)
(* compound_parse.c, shell.c and program_text.c each find the ends of      *)
(* commands in the text itself, counting parentheses, braces and reserved  *)
(* words.  A text is a sequence of tokens with blanks between them; the    *)
(* words are plain: no quotes, expansions, comments or here-documents.     *)
(***************************************************************************)
EXTENDS Integers, Sequences

Newline == "newline"
Operators == {"(", ")", ";", "&", "&&", "|", "||", ";;", Newline}
Redirection == ">f"
Loops == {"while", "until", "for"}

(* A word that starts with a letter.                                       *)
IsName(t) == t \notin Operators \cup {"{", "}", "!", Redirection}

(* The left fold of a scanner over the places first..last.                 *)
Scan(Step(_, _), start, first, last) ==
  LET at[i \in (first - 1)..last] == IF i < first THEN start ELSE Step(at[i - 1], i)
  IN  IF last < first THEN start ELSE at[last]

(* The first place from i on of which something holds, or Len(text) + 1.   *)
FirstFrom(text, i, Holds(_)) ==
  LET at[j \in i..(Len(text) + 1)] ==
        IF j > Len(text) \/ Holds(j) THEN j ELSE at[j + 1]
  IN  IF i > Len(text) THEN Len(text) + 1 ELSE at[i]

SkipNewlines(text, i) == FirstFrom(text, i, LAMBDA j : text[j] # Newline)

(* dup_trimmed_slice                                                       *)
Trim(text) ==
  LET first == SkipNewlines(text, 1)
      at[j \in 0..Len(text)] ==
        IF j = 0 THEN 0 ELSE IF text[j] # Newline THEN j ELSE at[j - 1]
  IN  SubSeq(text, first, at[Len(text)])

-----------------------------------------------------------------------------
(* word_starts_command_position: after an operator, a parenthesis or a     *)
(* brace, and after some of the reserved words.                            *)
CommandPosition(text, i) ==
  \/ i = 1
  \/ text[i - 1] \in Operators \cup {"{", "}"}
  \/ text[i - 1] \in {"then", "do", "else", "elif", "if", "fi"}

(* keyword_preceded_by_list_separator                                      *)
AfterSeparator(text, i) == i = 1 \/ text[i - 1] \in Operators \cup {"{", "}"}

(* How deep a place is in parentheses, braces, conditionals, cases and     *)
(* loops.                                                                  *)
Outermost == [paren |-> 0, brace |-> 0, if |-> 0, case |-> 0, loop |-> 0]

AfterWord(depth, word, separated) ==
  CASE word = "if"                          -> [depth EXCEPT !.if = @ + 1]
    [] word = "fi" /\ depth.if > 0          -> [depth EXCEPT !.if = @ - 1]
    [] word = "case"                        -> [depth EXCEPT !.case = @ + 1]
    [] word = "esac" /\ depth.case > 0      -> [depth EXCEPT !.case = @ - 1]
    [] word \in Loops /\ depth.case = 0     -> [depth EXCEPT !.loop = @ + 1]
    [] /\ word = "done" /\ separated
       /\ depth.case = 0 /\ depth.loop > 0  -> [depth EXCEPT !.loop = @ - 1]
    [] OTHER                                -> depth

AfterBracket(depth, t) ==
  CASE t = "("                     -> [depth EXCEPT !.paren = @ + 1]
    [] t = ")" /\ depth.paren > 0  -> [depth EXCEPT !.paren = @ - 1]
    [] t = "{"                     -> [depth EXCEPT !.brace = @ + 1]
    [] t = "}" /\ depth.brace > 0  -> [depth EXCEPT !.brace = @ - 1]
    [] OTHER                       -> depth

Bare(depth) == depth.paren = 0 /\ depth.brace = 0

(* One token of the scanners that look for the ends of commands.  Those in *)
(* compound_parse.c do not ask for a separator before `done' (strict).     *)
After(depth, text, i, strict) ==
  IF IsName(text[i])
  THEN IF Bare(depth) /\ CommandPosition(text, i)
       THEN AfterWord(depth, text[i], strict => AfterSeparator(text, i))
       ELSE depth
  ELSE AfterBracket(depth, text[i])

-----------------------------------------------------------------------------
(* The place of the ) in NAME ( ), 0 if the text does not start like that.  *)
HeaderEnd(text) ==
  LET open == SkipNewlines(text, 2)
      close == SkipNewlines(text, open + 1)
  IN  IF close <= Len(text) /\ IsName(text[1]) /\ text[open] = "(" /\ text[close] = ")"
      THEN close ELSE 0

(* looks_like_function_header_only: the body is still to come.             *)
HeaderOnly(text) == LET t == Trim(text) IN t # <<>> /\ HeaderEnd(t) = Len(t)

(* A newline after these does not end a command.                           *)
EndsOpen(text) == LET t == Trim(text) IN t # <<>> /\ t[Len(t)] \in {"|", "||", "&&"}

(* How the reader's scanner differs: it counts braces only where a command  *)
(* can start, and reserved words inside of brackets too.                   *)
NeedState == [depth |-> Outermost, command |-> TRUE]

BeforeNewlines(text, i) ==
  LET at[j \in 0..i] == IF j = 0 THEN 0 ELSE IF text[j] # Newline THEN j ELSE at[j - 1]
  IN  at[i]

AfterClosed(text, i) ==
  LET j == BeforeNewlines(text, i - 1) IN j > 0 /\ text[j] = ")"

NeedStep(s, text, i) ==
  LET t == text[i]
      d == s.depth
  IN  CASE t = ")" -> [depth |-> AfterBracket(d, t), command |-> FALSE]
        [] t \in Operators \ {")"} -> [depth |-> AfterBracket(d, t), command |-> TRUE]
        [] t = "{" ->
             LET opens == s.command \/ AfterClosed(text, i)
             IN  [depth |-> IF opens THEN AfterBracket(d, t) ELSE d, command |-> opens]
        [] t = "}" -> [depth |-> IF s.command THEN AfterBracket(d, t) ELSE d, command |-> FALSE]
        [] OTHER -> [depth |-> IF IsName(t) /\ CommandPosition(text, i)
                               THEN AfterWord(d, t, AfterSeparator(text, i)) ELSE d,
                     command |-> FALSE]

(* Mutant: a function header is a whole command.                           *)
needs_more_input_NoHeader(text) ==
  \/ Scan(LAMBDA s, i : NeedStep(s, text, i), NeedState, 1, Len(text)).depth # Outermost
  \/ EndsOpen(text)

(* Something is open, or a right side or the body of a function is missing. *)
needs_more_input(text) ==
  \/ Scan(LAMBDA s, i : NeedStep(s, text, i), NeedState, 1, Len(text)).depth # Outermost
  \/ HeaderOnly(text)
  \/ EndsOpen(text)
=============================================================================
