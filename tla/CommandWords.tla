---------------------------- MODULE CommandWords ----------------------------
(***************************************************************************)
(* prepared_command_expand_runtime_parts: the words of a simple command    *)
(* are expanded one after the other, then the operands of its              *)
(* redirections, the here-documents (of a command that the shell runs      *)
(* itself: others expand theirs in the child) and the assignments.  Each   *)
(* sees what the ones before it have done to the shell; the first that     *)
(* fails ends the command.                                                 *)
(*   command   the items in that order: [k, word], where k is "word",      *)
(*             "declared" (name=value after export), "operand", "heredoc", *)
(*             "value" (name=value before the command)                     *)
(*   began     the shell at the start; sh, the shell now                   *)
(*   results   the fields of each item that has been expanded              *)
(*   noted     cmd->last_cmdsub_status, NoStatus if not saw_cmdsub         *)
(*   outcome   "going", "done", "failed"                                   *)
(***************************************************************************)
EXTENDS ExpansionMeaning
LOCAL INSTANCE SequencesExt

VARIABLES command, began, sh, results, noted, outcome
vars == <<command, began, sh, results, noted, outcome>>

(* expand_words starts with cmdsub_performed false; the assignments of a   *)
(* command go through one call, and here-documents through none.           *)
Ready(item, state) ==
  IF item.k = "heredoc"
       \/ (item.k = "value" /\ results # <<>> /\ command[Len(results)].k = "value")
  THEN state ELSE [state EXCEPT !.status = NoStatus]

(* A redirection has one operand.                                          *)
OneField(r) == IF Len(r.fields) = 1 THEN r ELSE [r EXCEPT !.failed = TRUE]

expand_item(item, state) ==
  CASE item.k = "word" -> expand_word(item.word, Ready(item, state), TRUE)
    [] item.k \in {"declared", "value"} -> expand_word(item.word, Ready(item, state), FALSE)
    [] item.k = "operand" -> OneField(expand_word(item.word, Ready(item, state), FALSE))
    [] item.k = "heredoc" -> expand_heredoc_text(item.word, state)

Begin(items, shell) ==
  /\ command = items
  /\ began = shell
  /\ sh = began
  /\ results = <<>>
  /\ noted = NoStatus
  /\ outcome = "going"

(* prepared_command_note_cmdsub, and the same for redirections.            *)
Noted(item, state) ==
  IF item.k = "heredoc" \/ state.status = NoStatus THEN noted ELSE state.status

ExpandWith(item, r) ==
  /\ sh' = r.sh
  /\ IF r.failed
     THEN outcome' = "failed" /\ UNCHANGED <<results, noted>>
     ELSE /\ results' = Append(results, r.fields)
          /\ noted' = Noted(item, r.sh)
          /\ outcome' = IF Len(results') = Len(command) THEN "done" ELSE "going"

Expand ==
  /\ outcome = "going"
  /\ ExpandWith(command[Len(results) + 1], expand_item(command[Len(results) + 1], sh))
  /\ UNCHANGED <<command, began>>

-----------------------------------------------------------------------------
(* Where the code is known to leave that meaning: see "Differences" in     *)
(* README.md.  quoted: do the parts between double quotes count, too?      *)
RECURSIVE PartsOf(_, _)
PartsOf(word, quoted) ==
  ToSet(word) \cup
  UNION {CASE word[i].k = "braced" -> PartsOf(word[i].word, quoted)
           [] word[i].k = "double" /\ quoted -> PartsOf(word[i].word, quoted)
           [] OTHER -> {} : i \in DOMAIN word}
Mentions(word, names, quoted) ==
  \E part \in PartsOf(word, quoted) : part.k \in {"param", "braced"} /\ part.name \in names

Splits(item) == item.k = "word"

(* Characters of the word itself are cut at, too, if it has an expansion.  *)
LiteralDelimiter(item, m) ==
  /\ Splits(item) /\ token_has_runtime_expansion(item.word)
  /\ \E i \in DOMAIN m.chars : m.chars[i].from = "word" /\ m.chars[i].c \in ToSet(IFS(m.sh))

(* "$@" without parameters leaves its quotes behind when it is not alone.  *)
EmptyAt(item, m) ==
  m.sh.params = <<>> /\ QuotedAt \in PartsOf(item.word, TRUE) /\ ~token_is_pure_quoted_at(item.word)

(* $@ keeps empty parameters, $* is joined before it is split.             *)
LooseParameters(item, m) ==
  /\ Mentions(item.word, {"@", "*"}, FALSE)
  /\ \E i \in DOMAIN m.sh.params :
       \/ m.sh.params[i] = <<>>
       \/ ToSet(m.sh.params[i]) \cap (ToSet(IFS(m.sh)) \ Blanks) # {}

(* Where nothing is split, pieces are left in pieces.                      *)
Unsplit(item, m) ==
  ~Splits(item) /\ \/ Mentions(item.word, {"@"}, TRUE)
                   \/ Mentions(item.word, {"*"}, FALSE)

(* Patterns are matched only in a word without quotes that is one field.   *)
PartialPattern(item, m) ==
  /\ Splits(item) /\ HasPattern(m.chars)
  /\ \E i \in DOMAIN m.chars :
       m.chars[i].from \in {"quoted", "mark", "break"} \/ Delimits(IFS(m.sh), m.chars[i])

(* A tilde counts after quotes and expansions, too.                        *)
LateTilde(item) ==
  \E word \in {item.word} \cup {part.word : part \in {q \in PartsOf(item.word, FALSE) : q.k = "braced"}} :
    \E i \in 2 .. Len(word) : IsChar(word, i, "~") /\ word[i - 1].k # "char"

(* set -u: $1 is never unset, ${@} can be, $((x)) goes on, and so does     *)
(* $((x == 1)).                                                            *)
Unset(item, m) ==
  /\ m.sh.nounset
  /\ \E part \in PartsOf(item.word, TRUE) :
       \/ part.k = "param" /\ part.name \in Numerals
       \/ part.k = "braced" /\ part.name \in Numerals /\ part.op = "length"
       \/ part.k = "braced" /\ part.name \in {"*", "@"} /\ m.sh.params = <<>>
ArithmeticTexts(item) ==
  {[i \in DOMAIN part.word |-> part.word[i].c] :
     part \in {q \in PartsOf(item.word, TRUE) : q.k = "arith"}}
EqualityOfUnset(item) ==
  /\ began.nounset
  /\ \E text \in ArithmeticTexts(item) :
       \E i \in 1 .. Len(text) - 1 : text[i] \in Names /\ text[i + 1] = "=="
FastUnset(item) == began.nounset /\ \E text \in ArithmeticTexts(item) : Fast(text)

Departs(item, m) ==
  \/ LiteralDelimiter(item, m)
  \/ EmptyAt(item, m)
  \/ LooseParameters(item, m)
  \/ Unsplit(item, m)
  \/ PartialPattern(item, m)
  \/ LateTilde(item)
  \/ Unset(item, m)
  \/ EqualityOfUnset(item)
  \/ FastUnset(item)

-----------------------------------------------------------------------------
(* What the command means, item by item: known is FALSE from the first     *)
(* departure on.                                                           *)
ItemMeant(item, state) ==
  IF item.k = "heredoc" THEN Meant(Blank(state), item.word, "text", FALSE)
  ELSE WordMeant(item.word, state)

After(meant, item, m) ==
  CASE Departs(item, m) \/ m.how = "undefined" -> [meant EXCEPT !.known = FALSE]
    [] ~(Departs(item, m) \/ m.how = "undefined") /\ m.how # "ok" ->
         [meant EXCEPT !.how = m.how, !.sh = m.sh]
    [] OTHER -> [meant EXCEPT !.sh = m.sh,
                              !.results = Append(@, FieldsMeant(m, Splits(item))),
                              !.status = IF m.status = NoStatus \/ item.k = "heredoc"
                                         THEN @ ELSE m.status]

RECURSIVE MeantFrom(_, _)
MeantFrom(meant, items) ==
  IF items = <<>> \/ ~meant.known \/ meant.how # "ok" THEN meant
  ELSE MeantFrom(After(meant, items[1], ItemMeant(items[1], meant.sh)), Tail(items))

CommandMeant ==
  MeantFrom([sh |-> began, how |-> "ok", results |-> <<>>, status |-> NoStatus, known |-> TRUE], command)

Arithmetical == Len(command) = 1 /\ Len(command[1].word) = 1 /\ command[1].word[1].k = "arith"
Unread == Arithmetical /\ command[1].word[1].tree.k = "unknown"

(* The fields of every item are those the command means, and a command     *)
(* that means none fails (expand.c, field_split.c).                        *)
FieldsAgree(meant) ==
  meant.known => IF meant.how = "ok" THEN outcome = "done" /\ results = meant.results
                 ELSE outcome = "failed"
FieldsAsMeant == outcome # "going" /\ ~Unread => FieldsAgree(CommandMeant)

(* What is left in the shell: the variables that ${x=word} and $((x=1))    *)
(* have set, also by the items before one that fails, none by those after  *)
(* it; whether the shell has to end; and the status of the last command    *)
(* substitution (arithmetic forgets the one of an earlier item).           *)
Reckons == \E i \in DOMAIN command : \E part \in PartsOf(command[i].word, TRUE) : part.k = "arith"
EffectsAgree(meant) ==
  meant.known =>
    /\ meant.how = "ok" => sh.vars = meant.sh.vars /\ ~sh.exits
    /\ meant.how = "fatal" => sh.exits = ~sh.interactive
    /\ meant.how \in {"refused", "fatal"} /\ ~Reckons => sh.vars = meant.sh.vars
    /\ meant.how = "ok" /\ ~Reckons => noted = meant.status
EffectsAsMeant == outcome # "going" /\ ~Unread => EffectsAgree(CommandMeant)

(* $((...)) alone: operands that are not to be evaluated have no effect,   *)
(* the others are evaluated from left to right, an operator takes the      *)
(* operands that C gives it, and an unset name under set -u ends the shell *)
(* even where the value is printed (arith.c).  A text that is no           *)
(* expression fails, and one that is does not: all of it is read.          *)
ArithmeticAgrees(r) ==
  CASE r.how = "ok" -> outcome = "done" /\ results = <<<<Decimal(r.value)>>>> /\ sh.vars = r.vars
    [] r.how = "error" -> outcome = "failed"
    [] r.how = "unset" -> sh.exits = ~sh.interactive
    [] r.how = "undefined" -> TRUE

TokensOf(word) == [i \in DOMAIN word |-> word[i].c]

ArithmeticAsMeant ==
  outcome # "going" /\ Arithmetical =>
    IF Unread
    THEN outcome = "done" <=> IsAssignment(TokensOf(command[1].word[1].word))
    ELSE ~EqualityOfUnset(command[1]) =>
           ArithmeticAgrees(Value(command[1].word[1].tree, began, began.vars))
=============================================================================
