------------------------------- MODULE Kernel -------------------------------
(***************************************************************************)
(* External: what jobs.c, spawn.c, exec.c, program_text.c and the waiting  *)
(* builtins use of the kernel's processes: fork with setpgid, exits,       *)
(* stops, waitpid and signals to a process group.  A kernel is a function  *)
(* from pids to process records; pids are handed out in order and never    *)
(* again.                                                                  *)
(***************************************************************************)
EXTENDS Integers, Jobs

ShellGroup == 0          \* the process group of the shell itself

Unborn == [state |-> "unborn", pgid |-> ShellGroup, status |-> NoStatus,
           unreported |-> FALSE, doomed |-> FALSE]

Boot(pids) == [p \in pids |-> Unborn]

Exited(code) == [kind |-> "exited", value |-> code]
Signaled(signal) == [kind |-> "signaled", value |-> signal]
Stopped == [kind |-> "stopped", value |-> 0]

UnbornPids(k) == {p \in DOMAIN k : k[p].state = "unborn"}

(* Children the shell has not waited for to the end.                       *)
Children(k) == {p \in DOMAIN k : k[p].state \in {"running", "stopped", "zombie"}}

Members(k, pgid) == {p \in Children(k) : k[p].pgid = pgid}

(* fork, after both sides have called setpgid.                             *)
Forked(k, p, pgid) == [k EXCEPT ![p] = [Unborn EXCEPT !.state = "running", !.pgid = pgid]]

Ended(k, p, status) == [k EXCEPT ![p] = [@ EXCEPT !.state = "zombie", !.status = status,
                                                 !.unreported = FALSE]]

Suspended(k, p) == [k EXCEPT ![p] = [@ EXCEPT !.state = "stopped", !.status = Stopped,
                                             !.unreported = TRUE]]

(* A process sent SIGTERM while stopped dies of it when continued.         *)
Continued(k, p) ==
  IF k[p].state # "stopped" THEN k
  ELSE IF k[p].doomed THEN Ended(k, p, Signaled("TERM"))
  ELSE [k EXCEPT ![p] = [@ EXCEPT !.state = "running", !.status = NoStatus,
                                 !.unreported = FALSE]]

Terminate(k, p) ==
  CASE k[p].state = "running" -> Ended(k, p, Signaled("TERM"))
    [] k[p].state = "stopped" -> [k EXCEPT ![p].doomed = TRUE]
    [] OTHER -> k

SentTo(k, p, signal) ==
  CASE signal = "CONT" -> Continued(k, p)
    [] signal = "STOP" -> IF k[p].state = "running" THEN Suspended(k, p) ELSE k
    [] signal = "TERM" -> Terminate(k, p)

(* kill(-pgid, signal), which fails when the group has no member.          *)
GroupExists(k, pgid) == Members(k, pgid) # {}
SentToGroup(k, pgid, signal) ==
  [p \in DOMAIN k |-> IF p \in Members(k, pgid) THEN SentTo(k, p, signal)[p] ELSE k[p]]

(* The children among C whose status waitpid may return now.               *)
Waitable(k, C, untraced) ==
  {p \in C \cap Children(k) : \/ k[p].state = "zombie"
                              \/ untraced /\ k[p].unreported}

(* waitpid returned the status of p.                                       *)
Waited(k, p) ==
  [k EXCEPT ![p] = [@ EXCEPT !.state = IF k[p].state = "zombie" THEN "reaped" ELSE k[p].state,
                             !.unreported = FALSE]]
=============================================================================
