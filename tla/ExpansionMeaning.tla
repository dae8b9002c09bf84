-------------------------- MODULE ExpansionMeaning --------------------------
(***************************************************************************)
(* What a word stands for, after POSIX (Shell Command Language, 2.6): its  *)
(* parts are expanded from left to right to characters that remember where *)
(* they come from, and the fields are read off those.                      *)
(*                                                                         *)
(* A character is [c, from]:                                               *)
(*   "word"    written in the word, without quotes                         *)
(*   "quoted"  protected: no splitting, no pattern                         *)
(*   "result"  of an expansion that is not quoted                          *)
(*   "mark"    a pair of quotes stood here                                 *)
(*   "break"   a positional parameter ends                                 *)
(* m is [chars, sh, how, status]: how it went ("ok", "refused": an error;  *)
(* "fatal": an error that ends a shell that is not interactive;            *)
(* "undefined"), and the status of the last command substitution.          *)
(***************************************************************************)
EXTENDS WordExpansion, ArithMeaning
LOCAL INSTANCE SequencesExt

From1(text, from) == [i \in DOMAIN text |-> [c |-> text[i], from |-> from]]
QuotesMark == [c |-> "", from |-> "mark"]
Break == [c |-> "", from |-> "break"]
Plus(m, chars) == [m EXCEPT !.chars = @ \o chars]
Origin(quoted) == IF quoted THEN "quoted" ELSE "result"
Plain(chars) == LET Kept(x) == x.from \notin {"mark", "break"}
                IN  [i \in DOMAIN SelectSeq(chars, Kept) |-> SelectSeq(chars, Kept)[i].c]

-----------------------------------------------------------------------------
(* Parameters.                                                             *)
Scalar(sh, name) ==
  CASE name = "#" -> Decimal(Len(sh.params))
    [] name \in Specials -> sh.special[name]
    [] name \in Numerals -> IF ParameterIsSet(sh, name) THEN sh.params[Position(name)] ELSE <<>>
    [] name \in Names -> ValueOf(sh.vars, name, <<>>)

Separated(params, between, from) ==
  FlattenSeq([i \in DOMAIN params |->
               (IF i = 1 THEN <<>> ELSE between) \o From1(params[i], from)])

(* Between quotes $* is one field.                                         *)
ParameterChars(sh, name, quoted) ==
  CASE name = "*" /\ quoted ->
         LET ifs == ValueOf(sh.vars, "IFS", <<" ">>) IN
         Separated(sh.params, IF ifs = <<>> THEN <<>> ELSE From1(<<ifs[1]>>, "quoted"), "quoted")
    [] name = "@" /\ quoted -> Separated(sh.params, <<Break, QuotesMark>>, "quoted")
    [] name \in {"@", "*"} /\ ~quoted -> Separated(sh.params, <<Break>>, "result")
    [] OTHER -> From1(Scalar(sh, name), Origin(quoted))

(* set -u: $@ and $* are never unset.                                      *)
IsUnset(sh, name) == name \notin {"*", "@"} /\ ~ParameterIsSet(sh, name)
Substituted(m, name, quoted) ==
  IF m.sh.nounset /\ IsUnset(m.sh, name) THEN [m EXCEPT !.how = "fatal"]
  ELSE Plus(m, ParameterChars(m.sh, name, quoted))

Null(sh, name) ==
  IF name \in {"*", "@"} THEN sh.params = <<>> ELSE Scalar(sh, name) = <<>>
Unsatisfied(sh, name, op) ==
  IF op \in Colons THEN ~ParameterIsSet(sh, name) \/ Null(sh, name) ELSE ~ParameterIsSet(sh, name)

-----------------------------------------------------------------------------
(* place: "word", "braces" (what is written there is the result of an      *)
(* expansion), "quotes", "quoted braces", "text" (a here-document).        *)
IsQuoted(place) == place \notin {"word", "braces"}
Stands(place) == IF place = "word" THEN "word" ELSE IF place = "braces" THEN "result" ELSE "quoted"
Within(place) == IF IsQuoted(place) THEN "quoted braces" ELSE "braces"
Escaped(place) ==
  {"$", "bq", "bs"} \cup (IF place \in {"quotes", "quoted braces"} THEN {"dq"} ELSE {})
    \cup (IF place = "quoted braces" THEN {"}"} ELSE {})

RECURSIVE Meant(_, _, _, _)

(* Where a tilde stands for HOME: at the head of the word, in an           *)
(* assignment also after the equals sign and after a colon.                *)
AtHead(word, i, assign) ==
  IF assign THEN i = 3 \/ (i > 3 /\ IsChar(word, i - 1, ":")) ELSE i = 1
TildeAt(word, i, place, assign, sh) ==
  /\ ~IsQuoted(place) /\ AtHead(word, i, assign) /\ IsChar(word, i, "~") /\ "HOME" \in DOMAIN sh.vars
  /\ \/ i = Len(word)
     \/ IsChar(word, i + 1, "/")
     \/ assign /\ IsChar(word, i + 1, ":")

Asked(m, word, place) == Meant([m EXCEPT !.chars = <<>>], word, place, FALSE)
With(m, r, chars) ==
  [m EXCEPT !.sh = r.sh, !.how = r.how, !.status = r.status, !.chars = @ \o chars]

AssignedIn(m, r, name, place) ==
  CASE r.how # "ok" -> With(m, r, <<>>)
    [] r.how = "ok" /\ name \in r.sh.readonly -> [With(m, r, <<>>) EXCEPT !.how = "refused"]
    [] OTHER -> [With(m, r, From1(Plain(r.chars), Origin(IsQuoted(place))))
                   EXCEPT !.sh = SetTo(@, name, Plain(r.chars))]

Pattern(chars) ==
  LET Kept(x) == x.from # "mark"
      kept == SelectSeq(chars, Kept)
  IN  [i \in DOMAIN kept |-> [c |-> kept[i].c, q |-> kept[i].from = "quoted"]]

(* What is left when the pattern has taken its part at one end.            *)
LeftOver(op, pattern, text) ==
  LET rests == IF op \in {"#", "##"}
               THEN {r \in {SubSeq(text, i, Len(text)) : i \in 1 .. Len(text) + 1} :
                      fnmatch(pattern, SubSeq(text, 1, Len(text) - Len(r)))}
               ELSE {r \in {SubSeq(text, 1, i) : i \in 0 .. Len(text)} :
                      fnmatch(pattern, SubSeq(text, Len(r) + 1, Len(text)))}
  IN  IF rests = {} THEN text
      ELSE CHOOSE r \in rests : \A s \in rests :
             IF op \in Shortest THEN Len(s) <= Len(r) ELSE Len(r) <= Len(s)

CutIn(m, r, op, name, place) ==
  With(m, r, IF r.how # "ok" THEN <<>>
             ELSE From1(LeftOver(op, Pattern(r.chars), Scalar(m.sh, name)), Origin(IsQuoted(place))))

Braced(m, part, place) ==
  LET name == part.name
      op == part.op
      needed == Unsatisfied(m.sh, name, op)
      quoted == IsQuoted(place)
  IN  CASE op = "" -> Substituted(m, name, quoted)
        [] op \in {"length"} \cup Trims /\ m.sh.nounset /\ IsUnset(m.sh, name) ->
             [m EXCEPT !.how = "fatal"]
        [] op = "length" /\ ~(m.sh.nounset /\ IsUnset(m.sh, name)) ->
             Plus(m, From1(Decimal(Len(Scalar(m.sh, name))), Origin(quoted)))
        [] op \in Trims /\ ~(m.sh.nounset /\ IsUnset(m.sh, name)) ->
             CutIn(m, Asked(m, part.word, "braces"), op, name, place)
        [] op \in Alternates /\ needed -> m
        [] (op \in Defaults /\ needed) \/ (op \in Alternates /\ ~needed) ->
             LET r == Asked(m, part.word, Within(place)) IN With(m, r, r.chars)
        [] op \in Assigns /\ needed ->
             IF name \in Names THEN AssignedIn(m, Asked(m, part.word, Within(place)), name, place)
             ELSE [m EXCEPT !.how = "fatal"]
        [] op \in Errors /\ needed ->
             LET r == Asked(m, part.word, Within(place))
             IN  With(m, IF r.how = "ok" THEN [r EXCEPT !.how = "fatal"] ELSE r, <<>>)
        [] op \in Defaults \cup Assigns \cup Errors /\ ~needed ->
             Plus(m, ParameterChars(m.sh, name, quoted))

HowOf(outcome) ==
  CASE outcome = "ok" -> "ok" [] outcome = "error" -> "refused"
    [] outcome = "unset" -> "fatal" [] outcome = "undefined" -> "undefined"
Arithmetic(m, tree, place) ==
  LET r == Value(tree, m.sh, m.sh.vars)
  IN  [Plus(m, From1(IF r.how = "ok" THEN Decimal(r.value) ELSE <<>>, Origin(IsQuoted(place))))
         EXCEPT !.sh.vars = r.vars, !.how = HowOf(r.how)]

(* Quotes leave a mark, but not those around $@ if there are no parameters *)
(* (QuotedAt).                                                             *)
Part(m, word, i, place) ==
  LET part == word[i] IN
  CASE part.k = "char" -> Plus(m, From1(<<part.c>>, Stands(place)))
    [] part.k = "backslash" ->
         Plus(m, From1(IF IsQuoted(place) /\ part.c \notin Escaped(place) THEN <<"bs", part.c>>
                       ELSE <<part.c>>, "quoted"))
    [] part.k = "single" -> Plus(m, <<QuotesMark>> \o From1(part.text, "quoted"))
    [] part.k = "double" ->
         IF part = QuotedAt /\ m.sh.params = <<>> THEN m
         ELSE Meant(Plus(m, <<QuotesMark>>), part.word, "quotes", FALSE)
    [] part.k = "param" -> Substituted(m, part.name, IsQuoted(place))
    [] part.k = "braced" -> Braced(m, part, place)
    [] part.k = "arith" -> Arithmetic(m, part.tree, place)
    [] part.k = "command" ->
         [Plus(m, From1(Chomp(part.printed), Origin(IsQuoted(place)))) EXCEPT !.status = part.status]

RECURSIVE PartsFrom(_, _, _, _, _)
PartsFrom(m, word, i, place, assign) ==
  CASE m.how # "ok" \/ i > Len(word) -> m
    [] m.how = "ok" /\ i <= Len(word) /\ TildeAt(word, i, place, assign, m.sh) ->
         PartsFrom(Plus(m, From1(m.sh.vars["HOME"], "quoted")), word, i + 1, place, assign)
    [] OTHER -> PartsFrom(Part(m, word, i, place), word, i + 1, place, assign)
Meant(m, word, place, assign) == PartsFrom(m, word, 1, place, assign)

Blank(sh) == [chars |-> <<>>, sh |-> sh, how |-> "ok", status |-> NoStatus]
WordMeant(word, sh) == Meant(Blank(sh), word, "word", assignment_value_start(word))

-----------------------------------------------------------------------------
(* Field splitting.  A delimiter ends a field if it is no blank; a blank   *)
(* does if it is the first after something else and no other delimiter     *)
(* follows before the next character that is none.                         *)
Delimits(ifs, x) == x.from = "result" /\ x.c \in ToSet(ifs)
Hard(ifs, x) == Delimits(ifs, x) /\ x.c \notin Blanks
Soft(ifs, x) == Delimits(ifs, x) /\ x.c \in Blanks

EndsField(chars, ifs, i) ==
  \/ Hard(ifs, chars[i])
  \/ /\ Soft(ifs, chars[i]) /\ i > 1 /\ ~Delimits(ifs, chars[i - 1])
     /\ ~\E j \in i + 1 .. Len(chars) :
           Hard(ifs, chars[j]) /\ \A k \in i .. j - 1 : Soft(ifs, chars[k])

(* The characters from place i to place j that delimit nothing.            *)
Content(chars, ifs, i, j) ==
  LET Kept(x) == ~Delimits(ifs, x) IN SelectSeq(SubSeq(chars, i, j), Kept)

SplitAt(chars, ifs) ==
  LET ends == SetToSortSeq({i \in DOMAIN chars : EndsField(chars, ifs, i)}, <)
      StartOf(n) == IF n = 1 THEN 1 ELSE ends[n - 1] + 1
      last == Content(chars, ifs, StartOf(Len(ends) + 1), Len(chars))
  IN  [n \in DOMAIN ends |-> Content(chars, ifs, StartOf(n), ends[n])]
        \o (IF last = <<>> THEN <<>> ELSE <<last>>)

(* The pieces between the breaks.  A piece without a character is no field,*)
(* unless there were quotes.                                               *)
RECURSIVE Pieces(_)
Pieces(chars) ==
  LET breaks == {i \in DOMAIN chars : chars[i] = Break} IN
  IF breaks = {} THEN <<chars>>
  ELSE LET i == CHOOSE i \in breaks : \A j \in breaks : i <= j
       IN  <<SubSeq(chars, 1, i - 1)>> \o Pieces(SubSeq(chars, i + 1, Len(chars)))

(* A field that has a pattern stands for the files it matches.             *)
HasPattern(field) == \E i \in DOMAIN field : field[i].from \in {"word", "result"} /\ field[i].c \in {"*", "?"}
Pathnames(field, sh) ==
  LET Matches(file) == fnmatch(Pattern(field), file)
      found == IF HasPattern(field) /\ ~sh.noglob THEN SelectSeq(Files, Matches) ELSE <<>>
  IN  IF found = <<>> THEN <<Plain(field)>> ELSE found

FieldsMeant(m, split) ==
  IF split
  THEN FlattenSeq([i \in DOMAIN Pieces(m.chars) |->
         LET fields == SplitAt(Pieces(m.chars)[i], IFS(m.sh))
         IN  FlattenSeq([j \in DOMAIN fields |-> Pathnames(fields[j], m.sh)])])
  ELSE <<Plain(m.chars)>>
=============================================================================
