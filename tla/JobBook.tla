------------------------------ MODULE JobBook -------------------------------
(***************************************************************************)
(* What the job table promises to fg, bg, wait and kill, without arrays,   *)
(* serials or processes: a job is known by its process group, keeps the id *)
(* it was given, is "newer" than the jobs that were started, stopped or    *)
(* resumed before it, and is dropped only when it has finished.            *)
(***************************************************************************)
EXTENDS Integers, Functions

CONSTANTS Pids            \* process ids, hence process groups

VARIABLES book,           \* the known groups, each with [id, stopped, finished]
          newer,          \* the pairs <<g, h>> where g became current after h
          last_id         \* the last job id given out

vars == <<book, newer, last_id>>

Entries == [id : Nat, stopped : BOOLEAN, finished : BOOLEAN]

Jobs == DOMAIN book

(* g becomes newer than every other known job.                             *)
Newest(g, known) ==
  {p \in newer : p[1] # g /\ p[2] # g} \cup {<<g, h>> : h \in known \ {g}}

Init ==
  /\ book = [g \in {} |-> [id |-> 0, stopped |-> FALSE, finished |-> FALSE]]
  /\ newer = {}
  /\ last_id = 0

Enter(g, stopped) ==
  /\ g \notin Jobs
  /\ last_id' = last_id + 1
  /\ book' = [h \in Jobs \cup {g} |->
                IF h = g THEN [id |-> last_id', stopped |-> stopped, finished |-> FALSE]
                         ELSE book[h]]
  /\ newer' = Newest(g, Jobs)

(* A process of the job stopped, ended or was seen again: only a job that  *)
(* becomes stopped, or is suspended again as a whole, becomes current.     *)
Report(g, stopped, finished) ==
  /\ g \in Jobs
  /\ book' = [book EXCEPT ![g].stopped = stopped, ![g].finished = finished]
  /\ newer' = IF stopped /\ ~book[g].stopped THEN Newest(g, Jobs) ELSE newer
  /\ UNCHANGED last_id

Suspend(g) ==
  /\ g \in Jobs
  /\ book' = [book EXCEPT ![g].stopped = TRUE]
  /\ newer' = Newest(g, Jobs)
  /\ UNCHANGED last_id

Resume(g) ==
  /\ g \in Jobs
  /\ book' = [book EXCEPT ![g].stopped = FALSE]
  /\ newer' = Newest(g, Jobs)
  /\ UNCHANGED last_id

Drop(g) ==
  /\ g \in Jobs
  /\ book[g].finished
  /\ book' = Restrict(book, Jobs \ {g})
  /\ newer' = {p \in newer : p[1] # g /\ p[2] # g}
  /\ UNCHANGED last_id

Next ==
  \E g \in Pids :
    \/ \E stopped \in BOOLEAN : Enter(g, stopped)
    \/ \E stopped, finished \in BOOLEAN : Report(g, stopped, finished)
    \/ Suspend(g)
    \/ Resume(g)
    \/ Drop(g)

Spec == Init /\ [][Next]_vars
=============================================================================
