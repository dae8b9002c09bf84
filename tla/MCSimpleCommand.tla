-------------------------- MODULE MCSimpleCommand --------------------------
(* Values of the constants for TLC.                                        *)
EXTENDS SimpleCommand

CONSTANTS file, lost

Opens(kind, target, path) ==
  [kind |-> kind, target |-> target, path |-> path, force |-> FALSE]
Dups(kind, target, source) == [kind |-> kind, target |-> target, source |-> source]

(* <file  >file  >lost (refused)  2>&1  <&-  <<E                           *)
In == Opens("read", 0, file)
Out == Opens("write", 1, file)
Bad == Opens("write", 1, lost)
Err == Dups("dup_out", 2, 1)
Shut == [kind |-> "close", target |-> 0]
Text0 == [kind |-> "heredoc", target |-> 0]

Session(interactive, noclobber, present0, written, bound) ==
  [interactive |-> interactive, noclobber |-> noclobber, present |-> present0,
   written |-> written, size |-> bound]

SessionsWithNoclobber == {Session(FALSE, TRUE, {}, {Out, Bad, Err}, 4)}

SessionsOfScripts ==
  SessionsWithNoclobber \cup
  {Session(FALSE, FALSE, {file}, {In, Out, Bad, Err, Shut, Text0}, 4),
   Session(TRUE, FALSE, {file}, {In, Out, Bad}, 4),
   Session(FALSE, FALSE, {}, {Out, Bad}, 5),
   Session(FALSE, FALSE, {}, {Out, Shut}, 6)}
=============================================================================
