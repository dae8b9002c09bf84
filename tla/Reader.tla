------------------------------- MODULE Reader -------------------------------
(***************************************************************************)
(* shell_run_stream_named, for a shell that is not interactive: the script *)
(* is read by lines; when the lines so far make up whole commands, they are *)
(* parsed and run before more is read.  No command of the model ends the    *)
(* shell, no alias changes the text and no here-document is pending.       *)
(***************************************************************************)
EXTENDS ProgramText

CONSTANT Scripts        \* what may be in the file: program and text

VARIABLES
  script,               \* the program and its text, as it was written
  unread,               \* what getline has not returned yet
  command,              \* the lines read since the last command
  ran,                  \* the commands handed to the executor
  phase                 \* "reading", "ended", "cut off", "refused"

vars == <<script, unread, command, ran, phase>>

(* getline                                                                 *)
Line(text) == LET end == FirstFrom(text, 1, LAMBDA i : text[i] = Newline)
              IN  IF end > Len(text) THEN text ELSE SubSeq(text, 1, end)
AfterLine(text) == Rest(text, Len(Line(text)))

(* A list at the top is run command by command.                            *)
Commands(node) ==
  CASE node = Empty -> <<>>
    [] node.kind = "sequence" -> node.items
    [] OTHER -> <<node>>

Init ==
  /\ script \in Scripts
  /\ unread = script.text
  /\ command = <<>>
  /\ ran = <<>>
  /\ phase = "reading"

(* The line leaves the command unfinished.                                 *)
ReadOn ==
  /\ phase = "reading" /\ unread # <<>>
  /\ needs_more_input(command \o Line(unread))
  /\ command' = command \o Line(unread)
  /\ unread' = AfterLine(unread)
  /\ UNCHANGED <<script, ran, phase>>

(* shell_run_command: a syntax error ends the shell.                       *)
Execute(node) ==
  /\ ran' = IF node = Bad THEN ran ELSE ran \o Commands(node)
  /\ phase' = IF node = Bad THEN "refused" ELSE phase

RunCommand ==
  /\ phase = "reading" /\ unread # <<>>
  /\ ~needs_more_input(command \o Line(unread))
  /\ Execute(parse_sequence(Trim(command \o Line(unread))))
  /\ command' = <<>>
  /\ unread' = AfterLine(unread)
  /\ UNCHANGED script

(* POSERR_UNEXPECTED_EOF_MATCHING_QUOTE for a command that is not complete. *)
EndOfFile ==
  /\ phase = "reading" /\ unread = <<>>
  /\ phase' = IF command = <<>> THEN "ended" ELSE "cut off"
  /\ UNCHANGED <<script, unread, command, ran>>

Next == ReadOn \/ RunCommand \/ EndOfFile

Spec == Init /\ [][Next]_vars
=============================================================================
