----------------------------- MODULE MCErrexit ------------------------------
(* The violation: an and-or list, then a failing utility.                  *)
EXTENDS Script

AndOrLists == {AndOrList(<<x, y>>, <<op>>) : x, y \in {True, False}, op \in {"and", "or"}}

MCInputs == {[script |-> <<c, False>>, errexit |-> TRUE] : c \in AndOrLists}
MCCommands == AndOrLists \cup {True, False}
=============================================================================
