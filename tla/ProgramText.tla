---------------------------- MODULE ProgramText ----------------------------
(***************************************************************************)
(* program_text.c: the bodies of groups, subshells, functions and          *)
(* asynchronous lists are run from their text.  It is cut once more, by a   *)
(* scanner with its own idea of which newlines end a command, and each     *)
(* part is parsed when its turn comes.                                     *)
(***************************************************************************)
EXTENDS Parser

(* looks_like_function_header_only and pending_function_head: a part that  *)
(* is only the header of a function waits for the next one.                *)
RECURSIVE JoinHeaders(_)
JoinHeaders(parts) ==
  IF Len(parts) < 2 THEN parts
  ELSE IF HeaderOnly(parts[1])
  THEN JoinHeaders(<<parts[1] \o <<Newline>> \o parts[2]>> \o SubSeq(parts, 3, Len(parts)))
  ELSE <<parts[1]>> \o JoinHeaders(Tail(parts))

(* Mutant: every newline ends a command.                                   *)
EndsPart_EveryNewline(text, i) == text[i] \in {";", ";;", "&", Newline}

(* newline_continues_command: a newline ends a command unless an operator  *)
(* that wants a right side stands before it.                               *)
EndsPart(text, i) ==
  \/ text[i] \in {";", ";;", "&"}
  \/ text[i] = Newline /\ ~EndsOpen(SubSeq(text, 1, i))

(* program_text_execute_internal: the commands it runs, in order; each part *)
(* is parsed by itself (try_run_ast_compound_command).                     *)
program_text_execute_internal(text) ==
  LET cuts == Cuts(text, 1, LAMBDA from, i : EndsPart(text, i))
      parts == Parts(text, 1, cuts)
      async(k) == k <= Len(cuts) /\ text[cuts[k]] = "&"
      (* & ends the header of a function too, but no program has that.     *)
      some == SelectSeq([k \in DOMAIN parts |->
                           IF async(k) THEN parts[k] \o <<"&">> ELSE parts[k]],
                        LAMBDA part : part # <<>>)
      joined == JoinHeaders(some)
  IN  [k \in DOMAIN joined |-> parse_sequence(joined[k])]
=============================================================================
