--------------------------- MODULE WordExpansion ---------------------------
(***************************************************************************)
(* expand.c and field_split.c: from a word to the fields it stands for.    *)
(* A word is a sequence of parts, the pieces expand_token recognises:      *)
(*   char c          a character that is not quoted                        *)
(*   backslash c     a character after a backslash                         *)
(*   single text     text between single quotes                            *)
(*   double word     a word between double quotes                          *)
(*   param name      $name, $1, $@, ...                                    *)
(*   braced name op word     ${name op word}; op "" is ${name}, "length"   *)
(*                           is ${#name}                                   *)
(*   arith word      $((word)); its characters are tokens of Arith         *)
(*   command printed status  $(...) and `...`: what it prints and returns  *)
(*                                                                         *)
(* The code protects a quoted character by replacing it or by putting a    *)
(* marker byte before it; two more markers stand for a pair of quotes and  *)
(* for the end of one positional parameter.  Here a marked character is    *)
(* [c, q]: q for the protected ones, the two markers are characters of     *)
(* their own.                                                              *)
(*                                                                         *)
(* sh is the shell: vars, readonly, nounset, interactive, exits as in      *)
(* Arith; params; special, the texts of $? $$ $! $- $0; noglob; status is  *)
(* last_cmdsub_status, NoStatus as long as cmdsub_performed is false.      *)
(***************************************************************************)
EXTENDS Arith, FiniteSets
LOCAL INSTANCE SequencesExt

CONSTANTS Files     \* the names of the files in the working directory, sorted

NoStatus == -1

Mark(text, q) == [i \in DOMAIN text |-> [c |-> text[i], q |-> q]]
QUOTED_EMPTY_MARK == [c |-> "empty", q |-> FALSE]
PARAM_AT_SPLIT == [c |-> "at", q |-> FALSE]

(* field_split_restore_quoted_markers.                                     *)
field_split_restore_quoted_markers(marked) ==
  LET Kept(m) == m # QUOTED_EMPTY_MARK
      kept == SelectSeq(marked, Kept)
  IN  [i \in DOMAIN kept |-> kept[i].c]

Appended(s, marked) == [s EXCEPT !.out = @ \o marked]
Fails(s) == [s EXCEPT !.failed = TRUE]
Fatal(s) == [s EXCEPT !.failed = TRUE, !.sh = expansion_fatal(@)]

-----------------------------------------------------------------------------
(* Parameters (append_parameter).                                          *)
Numerals == {"1", "2", "3"}
Position(name) == CHOOSE n \in 1 .. 3 : Decimal(n) = <<name>>
Specials == {"?", "$", "!", "-", "0"}
ValueOf(vars, name, default) == IF name \in DOMAIN vars THEN vars[name] ELSE default

Join(params, separator, q) ==
  FlattenSeq([i \in DOMAIN params |->
               IF i = 1 THEN Mark(params[i], q) ELSE separator \o Mark(params[i], q)])

(* $* joins with the first character of IFS; without quotes and with an    *)
(* empty IFS it stays in pieces.                                           *)
Star(sh, q) ==
  LET ifs == ValueOf(sh.vars, "IFS", <<" ">>)
  IN  IF ifs = <<>>
      THEN Join(sh.params, IF q THEN <<>> ELSE <<PARAM_AT_SPLIT>>, q)
      ELSE Join(sh.params, Mark(<<ifs[1]>>, q), q)

append_parameter(s, name, q) ==
  CASE name = "*" -> Appended(s, Star(s.sh, q))
    [] name = "@" -> Appended(s, Join(s.sh.params, <<PARAM_AT_SPLIT>>, q))
    [] name = "#" -> Appended(s, Mark(Decimal(Len(s.sh.params)), q))
    [] name \in Specials -> Appended(s, Mark(s.sh.special[name], q))
    [] name \in Numerals ->
         Appended(s, IF Position(name) <= Len(s.sh.params)
                     THEN Mark(s.sh.params[Position(name)], q) ELSE <<>>)
    [] name \in Names /\ name \in DOMAIN s.sh.vars -> Appended(s, Mark(s.sh.vars[name], q))
    [] name \in Names /\ name \notin DOMAIN s.sh.vars -> IF s.sh.nounset THEN Fatal(s) ELSE s

(* What append_braced_parameter knows of a parameter.                      *)
ParameterIsSet(sh, name) ==
  CASE name \in {"*", "@"} -> sh.params # <<>>
    [] name \in Numerals -> Position(name) <= Len(sh.params)
    [] name \in Names -> name \in DOMAIN sh.vars
    [] OTHER -> TRUE

ParameterIsNonempty(sh, name) ==
  CASE name \in {"*", "@"} -> sh.params # <<>>
    [] name \in Numerals -> Position(name) <= Len(sh.params) /\ sh.params[Position(name)] # <<>>
    [] name \in Names -> name \in DOMAIN sh.vars /\ sh.vars[name] # <<>>
    [] name \in {"!", "-"} -> sh.special[name] # <<>>
    [] OTHER -> TRUE

AppendedIfSet(s, name, q) ==
  IF ParameterIsSet(s.sh, name) THEN append_parameter(s, name, q) ELSE s

(* The text that ${#name} measures and ${name#pattern} cuts.  The pieces   *)
(* of $@ and $* are left out.                                              *)
TextOf(s, name) ==
  field_split_restore_quoted_markers(AppendedIfSet([s EXCEPT !.out = <<>>], name, FALSE).out)

-----------------------------------------------------------------------------
(* Tilde: HOME, protected.  In an assignment also before a colon.          *)
IsChar(word, i, c) == i <= Len(word) /\ word[i].k = "char" /\ word[i].c = c

try_tilde_expansion(word, i, assignment, sh) ==
  /\ IsChar(word, i, "~")
  /\ \/ i = Len(word)
     \/ IsChar(word, i + 1, "/")
     \/ assignment /\ IsChar(word, i + 1, ":")
  /\ "HOME" \in DOMAIN sh.vars

(* The word of ${name-word} is looked at once more when it is expanded:    *)
(* a tilde in the text counts wherever it came from.                       *)
maybe_tilde_expand_fragment(marked, sh, q) ==
  IF /\ ~q /\ marked # <<>> /\ marked[1] = [c |-> "~", q |-> FALSE]
     /\ Len(marked) = 1 \/ marked[2] = [c |-> "/", q |-> FALSE]
     /\ "HOME" \in DOMAIN sh.vars
  THEN Mark(sh.vars["HOME"], FALSE) \o Tail(marked)
  ELSE marked

assignment_value_start(word) ==
  Len(word) >= 2 /\ word[1].k = "char" /\ word[1].c \in Names /\ IsChar(word, 2, "=")

-----------------------------------------------------------------------------
(* The pattern of ${name#pattern}: what is protected stands for itself     *)
(* (mark_pattern_escapes, unmark_pattern_escapes).                         *)
RECURSIVE fnmatch(_, _)
fnmatch(pattern, text) ==
  CASE pattern = <<>> -> text = <<>>
    [] pattern # <<>> /\ pattern[1] = [c |-> "*", q |-> FALSE] ->
         \E n \in 0 .. Len(text) : fnmatch(Tail(pattern), SubSeq(text, n + 1, Len(text)))
    [] OTHER -> /\ text # <<>>
                /\ pattern[1].c = text[1] \/ pattern[1] = [c |-> "?", q |-> FALSE]
                /\ fnmatch(Tail(pattern), Tail(text))

unmark_pattern_escapes(marked) ==
  LET Kept(m) == m # QUOTED_EMPTY_MARK IN SelectSeq(marked, Kept)

Shortest == {"#", "%"}
Trimmed(op, pattern, text) ==
  LET prefixes == {n \in 0 .. Len(text) : fnmatch(pattern, SubSeq(text, 1, n))}
      suffixes == {n \in 0 .. Len(text) : fnmatch(pattern, SubSeq(text, n + 1, Len(text)))}
  IN  CASE op \in {"#", "##"} /\ prefixes # {} ->
             SubSeq(text, 1 + CHOOSE n \in prefixes :
                                \A m \in prefixes : IF op = "#" THEN n <= m ELSE m <= n, Len(text))
        [] op \in {"%", "%%"} /\ suffixes # {} ->
             SubSeq(text, 1, CHOOSE n \in suffixes :
                               \A m \in suffixes : IF op = "%" THEN m <= n ELSE n <= m)
        [] OTHER -> text

-----------------------------------------------------------------------------
(* expand_token.  context is "plain", "quote" (between double quotes) or   *)
(* "dquote" (dquote_mode: a word that stands inside quoted braces).        *)
Quoted(context) == context # "plain"
Escapable(context) ==
  {"$", "bq", "dq", "bs"} \cup (IF context = "dquote" THEN {"}"} ELSE {})

RECURSIVE expand_parts(_, _, _, _), append_braced_parameter(_, _, _), expand_part(_, _, _, _)

(* In a word that is no assignment only a character that is not quoted     *)
(* ends the search for a tilde.                                            *)
append_char(s, c, context, assign) ==
  [Appended(s, Mark(<<c>>, Quoted(context)))
     EXCEPT !.tilde = assign /\ context = "plain" /\ c = ":"]

append_escaped(s, c, context, assign) ==
  [Appended(s, Mark(IF context = "plain" \/ c \in Escapable(context) THEN <<c>> ELSE <<"bs", c>>, TRUE))
     EXCEPT !.tilde = @ /\ IF context = "plain" THEN ~assign ELSE c \in Escapable(context)]

Opened(s, assign) == [Appended(s, <<QUOTED_EMPTY_MARK>>) EXCEPT !.tilde = @ /\ ~assign]
Closed_quotes(s) == IF s.failed THEN s ELSE Appended(s, <<QUOTED_EMPTY_MARK>>)

(* The word of ${name op word}, expanded with the output set aside.        *)
Fragment(s, word, context) ==
  expand_parts([s EXCEPT !.out = <<>>, !.tilde = context = "plain"], word, context, FALSE)
Inside(context) == IF Quoted(context) THEN "dquote" ELSE "plain"

(* Back in the word around it.                                             *)
Returned(s, r, marked) ==
  [s EXCEPT !.sh = r.sh, !.failed = r.failed,
            !.out = IF r.failed THEN @ ELSE @ \o marked]

append_expanded_fragment(s, word, context) ==
  LET r == Fragment(s, word, Inside(context))
  IN  Returned(s, r, maybe_tilde_expand_fragment(r.out, r.sh, Quoted(context)))

(* ${name=word}: the value is stored without the markers.                  *)
Stored_word(s, r, name, context) ==
  CASE r.failed -> Returned(s, r, <<>>)
    [] ~r.failed /\ name \in r.sh.readonly -> Fails(Returned(s, r, <<>>))
    [] OTHER ->
         LET value == field_split_restore_quoted_markers(
                        maybe_tilde_expand_fragment(r.out, r.sh, Quoted(context)))
         IN  [Returned(s, r, Mark(value, Quoted(context))) EXCEPT !.sh = SetTo(@, name, value)]

assign_default(s, name, word, context) ==
  IF name \notin Names THEN Fatal(s)
  ELSE Stored_word(s, Fragment(s, word, Inside(context)), name, context)

(* ${name?word}.                                                           *)
expansion_error(s, word, context) ==
  LET r == Fragment(s, word, Inside(context)) IN
  IF r.failed THEN Returned(s, r, <<>>) ELSE Fatal(Returned(s, r, <<>>))

trim(s, name, op, word, context) ==
  LET r == expand_parts([s EXCEPT !.out = <<>>, !.tilde = TRUE], word, "plain", FALSE)
  IN  Returned(s, r, Mark(Trimmed(op, unmark_pattern_escapes(r.out), TextOf(s, name)), Quoted(context)))

Defaults == {"-", ":-"}
Alternates == {"+", ":+"}
Assigns == {"=", ":="}
Errors == {"?", ":?"}
Trims == {"#", "##", "%", "%%"}
Colons == {":-", ":+", ":=", ":?"}
Missing(sh, name, op) ==
  IF op \in Colons THEN ~ParameterIsNonempty(sh, name) ELSE ~ParameterIsSet(sh, name)

append_braced_parameter(s, part, context) ==
  LET name == part.name
      op == part.op
      missing == Missing(s.sh, name, op)
  IN  CASE op \in {""} \cup Trims /\ missing /\ s.sh.nounset -> Fatal(s)
        [] op = "length" /\ missing /\ s.sh.nounset /\ name \in Names -> Fatal(s)
        [] op = "" /\ ~(missing /\ s.sh.nounset) -> AppendedIfSet(s, name, Quoted(context))
        [] op = "length" /\ ~(missing /\ s.sh.nounset /\ name \in Names) ->
             Appended(s, Mark(Decimal(Len(TextOf(s, name))), Quoted(context)))
        [] op \in Trims /\ ~(missing /\ s.sh.nounset) -> trim(s, name, op, part.word, context)
        [] op \in Defaults /\ missing -> append_expanded_fragment(s, part.word, context)
        [] op \in Alternates -> IF missing THEN s ELSE append_expanded_fragment(s, part.word, context)
        [] op \in Assigns /\ missing -> assign_default(s, name, part.word, context)
        [] op \in Errors /\ missing -> expansion_error(s, part.word, context)
        [] op \in Defaults \cup Assigns \cup Errors /\ ~missing -> AppendedIfSet(s, name, Quoted(context))

(* run_arithmetic_expansion.  The division that traps kills the shell.     *)
Evaluated(s, r, p, context) ==
  CASE r.failed -> Returned(s, r, <<>>)
    [] ~r.failed /\ p.killed -> [Fails(s) EXCEPT !.sh = [p.sh EXCEPT !.exits = TRUE]]
    [] ~r.failed /\ ~p.killed /\ p.failed -> [Fails(s) EXCEPT !.sh = p.sh]
    [] OTHER -> [Appended(s, Mark(Decimal(p.value), Quoted(context)))
                   EXCEPT !.sh = [p.sh EXCEPT !.status = IF @ = NoStatus THEN 0 ELSE @]]

run_arithmetic_expansion(s, word, context) ==
  LET r == Fragment(s, word, "plain")
  IN  Evaluated(s, r, arith_eval([i \in DOMAIN r.out |-> r.out[i].c], r.sh), context)

(* What a command substitution prints, without the newlines at its end.    *)
(* It runs in a child: nothing else of it comes back.                      *)
Chomp(text) ==
  SubSeq(text, 1, CHOOSE n \in 0 .. Len(text) :
                    /\ \A i \in n + 1 .. Len(text) : text[i] = "newline"
                    /\ n = 0 \/ text[n] # "newline")

command_subst_run(s, part, context) ==
  [Appended(s, Mark(Chomp(part.printed), Quoted(context))) EXCEPT !.sh.status = part.status]

expand_part(s, part, context, assign) ==
  CASE part.k = "char" -> append_char(s, part.c, context, assign)
    [] part.k = "backslash" -> append_escaped(s, part.c, context, assign)
    [] part.k = "single" -> Closed_quotes(Appended(Opened(s, assign), Mark(part.text, TRUE)))
    [] part.k = "double" -> Closed_quotes(expand_parts(Opened(s, assign), part.word, "quote", assign))
    [] part.k = "param" -> append_parameter(s, part.name, Quoted(context))
    [] part.k = "braced" -> append_braced_parameter(s, part, context)
    [] part.k = "arith" -> run_arithmetic_expansion(s, part.word, context)
    [] part.k = "command" -> command_subst_run(s, part, context)

(* The tilde at the head of word, with HOME = / and a slash after it too.  *)
Home(s, word) ==
  Appended([s EXCEPT !.tilde = FALSE], Mark(s.sh.vars["HOME"], TRUE))
AfterTilde(s, word) ==
  IF IsChar(word, 2, "/") /\ Home(s, word).out # <<>> /\ Last(Home(s, word).out).c = "/"
  THEN SubSeq(word, 3, Len(word)) ELSE Tail(word)

expand_parts(s, word, context, assign) ==
  CASE s.failed \/ word = <<>> -> s
    [] ~s.failed /\ word # <<>> /\ context = "plain" /\ s.tilde
         /\ try_tilde_expansion(word, 1, assign, s.sh) ->
         expand_parts(Home(s, word), AfterTilde(s, word), context, assign)
    [] OTHER -> expand_parts(expand_part(s, word[1], context, assign), Tail(word), context, assign)

Start(sh, marked, tilde) == [out |-> marked, sh |-> sh, failed |-> FALSE, tilde |-> tilde]

(* name= is copied.                                                        *)
expand_token(word, sh, assign) ==
  IF assign
  THEN expand_parts(Start(sh, Mark(<<word[1].c, "=">>, FALSE), TRUE), SubSeq(word, 3, Len(word)),
                    "plain", TRUE)
  ELSE expand_parts(Start(sh, <<>>, TRUE), word, "plain", FALSE)

-----------------------------------------------------------------------------
(* field_split.c.                                                          *)
Blanks == {" ", "newline"}
IFS(sh) == ValueOf(sh.vars, "IFS", <<" ", "newline">>)
is_split_delimiter(ifs, m) == ~m.q /\ m.c \in ToSet(ifs)
is_ifs_whitespace_char(ifs, m) == is_split_delimiter(ifs, m) /\ m.c \in Blanks

field_split_has_delimiter(marked, ifs) ==
  \E i \in DOMAIN marked : is_split_delimiter(ifs, marked[i])

(* The first place at or after i that is past the blanks, and the first    *)
(* that is a delimiter.                                                    *)
PastBlanks(marked, ifs, i) ==
  CHOOSE j \in i .. Len(marked) + 1 :
    /\ \A k \in i .. j - 1 : is_ifs_whitespace_char(ifs, marked[k])
    /\ j > Len(marked) \/ ~is_ifs_whitespace_char(ifs, marked[j])
FieldEnd(marked, ifs, i) ==
  CHOOSE j \in i .. Len(marked) + 1 :
    /\ \A k \in i .. j - 1 : ~is_split_delimiter(ifs, marked[k])
    /\ j > Len(marked) \/ is_split_delimiter(ifs, marked[j])

(* Mutant: any delimiters at all.                                          *)
PastDelimiter_Any(marked, ifs, i) ==
  CHOOSE j \in i .. Len(marked) + 1 :
    /\ \A k \in i .. j - 1 : is_split_delimiter(ifs, marked[k])
    /\ j > Len(marked) \/ ~is_split_delimiter(ifs, marked[j])

(* Between two fields: blanks, at most one other delimiter, blanks.        *)
PastDelimiter(marked, ifs, i) ==
  LET j == PastBlanks(marked, ifs, i) IN
  IF j <= Len(marked) /\ is_split_delimiter(ifs, marked[j])
  THEN PastBlanks(marked, ifs, j + 1) ELSE j

RECURSIVE fields_from(_, _, _)
fields_from(marked, ifs, i) ==
  LET start == PastBlanks(marked, ifs, i) IN
  IF start > Len(marked) THEN <<>>
  ELSE <<field_split_restore_quoted_markers(
           SubSeq(marked, start, FieldEnd(marked, ifs, start) - 1))>>
         \o fields_from(marked, ifs, PastDelimiter(marked, ifs, FieldEnd(marked, ifs, start)))

field_split_split(marked, ifs) == fields_from(marked, ifs, 1)

field_split_append_piece(marked, ifs, split) ==
  IF split /\ field_split_has_delimiter(marked, ifs)
  THEN field_split_split(marked, ifs)
  ELSE <<field_split_restore_quoted_markers(marked)>>

RECURSIVE field_split_append_at_expansion(_, _, _)
field_split_append_at_expansion(marked, ifs, split) ==
  IF \E i \in DOMAIN marked : marked[i] = PARAM_AT_SPLIT
  THEN LET i == CHOOSE i \in DOMAIN marked :
                  marked[i] = PARAM_AT_SPLIT /\ \A j \in 1 .. i - 1 : marked[j] # PARAM_AT_SPLIT
       IN  field_split_append_piece(SubSeq(marked, 1, i - 1), ifs, split)
             \o field_split_append_at_expansion(SubSeq(marked, i + 1, Len(marked)), ifs, split)
  ELSE field_split_append_piece(marked, ifs, split)

-----------------------------------------------------------------------------
(* expand_words, for one word.                                             *)
Expansions == {"param", "braced", "arith", "command"}
RECURSIVE token_has_runtime_expansion(_)
token_has_runtime_expansion(word) ==
  \E i \in DOMAIN word :
    \/ word[i].k \in Expansions
    \/ word[i].k = "single" /\ "$" \in ToSet(word[i].text)
    \/ word[i].k = "double" /\ token_has_runtime_expansion(word[i].word)

token_is_unquoted(word) == \A i \in DOMAIN word : word[i].k \notin {"single", "double"}

QuotedAt == [k |-> "double", word |-> <<[k |-> "param", name |-> "@"]>>]
token_is_pure_quoted_at(word) == word # <<>> /\ \A i \in DOMAIN word : word[i] = QuotedAt

token_has_glob_meta(marked) ==
  \E i \in DOMAIN marked : ~marked[i].q /\ marked[i].c \in {"*", "?"}

(* glob() gets the markers, too: no file has such a name.                  *)
glob(marked) ==
  IF \E i \in DOMAIN marked : marked[i].q \/ marked[i] = QUOTED_EMPTY_MARK THEN <<>>
  ELSE LET Matches(file) == fnmatch(marked, file) IN SelectSeq(Files, Matches)

Globbed(word, sh, marked) ==
  IF ~sh.noglob /\ token_is_unquoted(word) /\ token_has_glob_meta(marked) THEN glob(marked) ELSE <<>>

(* The fields of a word that expand_token has turned into marked.          *)
FieldsOf(word, sh, marked, split) ==
  CASE sh.params = <<>> /\ token_is_pure_quoted_at(word) -> <<>>
    [] ~(sh.params = <<>> /\ token_is_pure_quoted_at(word)) /\ PARAM_AT_SPLIT \in ToSet(marked) ->
         field_split_append_at_expansion(marked, IFS(sh), split)
    [] ~(sh.params = <<>> /\ token_is_pure_quoted_at(word)) /\ PARAM_AT_SPLIT \notin ToSet(marked)
         /\ split /\ token_has_runtime_expansion(word)
         /\ (marked = <<>> \/ field_split_has_delimiter(marked, IFS(sh))) ->
         field_split_split(marked, IFS(sh))
    [] OTHER -> IF split /\ Globbed(word, sh, marked) # <<>> THEN Globbed(word, sh, marked)
                ELSE <<field_split_restore_quoted_markers(marked)>>

expand_word(word, sh, split) ==
  LET s == expand_token(word, sh, assignment_value_start(word))
  IN  [sh |-> s.sh, failed |-> s.failed,
       fields |-> IF s.failed THEN <<>> ELSE FieldsOf(word, s.sh, s.out, split)]

-----------------------------------------------------------------------------
(* expand_heredoc_text: quotes are no quotes here, and braces count as     *)
(* quoted.                                                                 *)
heredoc_part(s, part) ==
  CASE part.k = "char" -> Appended(s, Mark(<<part.c>>, FALSE))
    [] part.k = "backslash" ->
         Appended(s, Mark(IF part.c \in {"$", "bq", "bs"} THEN <<part.c>> ELSE <<"bs", part.c>>, FALSE))
    [] part.k = "param" -> append_parameter(s, part.name, FALSE)
    [] part.k = "braced" -> append_braced_parameter(s, part, "dquote")
    [] part.k = "arith" -> run_arithmetic_expansion(s, part.word, "plain")
    [] part.k = "command" -> command_subst_run(s, part, "plain")

RECURSIVE heredoc_parts(_, _)
heredoc_parts(s, word) ==
  IF s.failed \/ word = <<>> THEN s ELSE heredoc_parts(heredoc_part(s, word[1]), Tail(word))

expand_heredoc_text(word, sh) ==
  LET s == heredoc_parts(Start(sh, <<>>, FALSE), word)
  IN  [sh |-> s.sh, failed |-> s.failed,
       fields |-> IF s.failed THEN <<>> ELSE <<field_split_restore_quoted_markers(s.out)>>]
=============================================================================
