-------------------------------- MODULE Jobs --------------------------------
(***************************************************************************)
(* The job table of jobs.c as a value, and one operator per function of    *)
(* jobs.h on it.  A table holds the array g_jobs (a sequence, because      *)
(* lookups return the first match and jobs_forget_pgid moves the last      *)
(* entry into the hole) and the two counters behind job ids and serials.   *)
(*                                                                         *)
(* A command line is one abstract value; a %string or %?string jobspec is  *)
(* the set of command lines it matches.  A lookup that fails returns       *)
(* index 0 where the code returns NULL.  The counters are unbounded here:  *)
(* unsigned int and unsigned long do not wrap within the life of a shell.  *)
(***************************************************************************)
EXTENDS Integers, SequencesExt

(* What waitpid reports, decoded with the WIF... macros of <sys/wait.h>.   *)
NoStatus == [kind |-> "none", value |-> 0]
WIFSTOPPED(status) == status.kind = "stopped"
Terminated(status) == status.kind \in {"exited", "signaled"}

EmptyTable == [jobs |-> <<>>, next_job_id |-> 1, next_serial |-> 1]

-----------------------------------------------------------------------------
(* Lookups: the index of the first match, 0 when there is none.            *)

find_job_by_pgid(t, pgid) == SelectInSeq(t.jobs, LAMBDA job : job.pgid = pgid)

find_process(job, pid) == SelectInSeq(job.procs, LAMBDA p : p.pid = pid)

find_job_by_pid(t, pid) ==
  SelectInSeq(t.jobs, LAMBDA job : find_process(job, pid) # 0)

job_all_done(job) == \A i \in DOMAIN job.procs : job.procs[i].done

(* Mutant: a job is stopped when all of its processes are.                 *)
job_any_stopped_All(job) ==
  \A i \in DOMAIN job.procs : job.procs[i].stopped /\ ~job.procs[i].done

job_any_stopped(job) ==
  \E i \in DOMAIN job.procs : job.procs[i].stopped /\ ~job.procs[i].done

-----------------------------------------------------------------------------
(* Updates.                                                                *)

touch_job(t, k) ==
  [jobs |-> [t.jobs EXCEPT ![k].serial = t.next_serial],
   next_job_id |-> t.next_job_id,
   next_serial |-> t.next_serial + 1]

NewProcess(pid) ==
  [pid |-> pid, stopped |-> FALSE, done |-> FALSE, status |-> NoStatus]

add_job(t, pgid, pids, status_pid, command, stopped) ==
  LET job == [pgid |-> pgid, job_id |-> t.next_job_id, serial |-> t.next_serial,
              stopped |-> stopped, command |-> command, status_pid |-> status_pid,
              procs |-> [i \in DOMAIN pids |-> NewProcess(pids[i])]]
  IN  [jobs |-> Append(t.jobs, job),
       next_job_id |-> t.next_job_id + 1,
       next_serial |-> t.next_serial + 1]

(* Mutant: a process tracked again keeps its flags but not its status.     *)
rebuild_job_processes_NoStatus(job, pids) ==
  [i \in DOMAIN pids |->
     LET old == find_process(job, pids[i])
     IN  IF old = 0 THEN NewProcess(pids[i])
                    ELSE [job.procs[old] EXCEPT !.status = NoStatus]]

(* A process that was already in the job keeps what is known about it.     *)
rebuild_job_processes(job, pids) ==
  [i \in DOMAIN pids |->
     LET old == find_process(job, pids[i])
     IN  IF old = 0 THEN NewProcess(pids[i]) ELSE job.procs[old]]

(* Mutant: a known group is not looked up.                                 *)
jobs_track_job_AlwaysNew(t, pgid, pids, status_pid, command, stopped) ==
  add_job(t, pgid, pids, status_pid, command, stopped)

jobs_track_job(t, pgid, pids, status_pid, command, stopped) ==
  LET k == find_job_by_pgid(t, pgid)
      tracked == [t.jobs[k] EXCEPT !.procs = rebuild_job_processes(t.jobs[k], pids),
                                   !.status_pid = status_pid,
                                   !.stopped = stopped,
                                   !.command = command]
  IN  IF k = 0 THEN add_job(t, pgid, pids, status_pid, command, stopped)
               ELSE touch_job([t EXCEPT !.jobs[k] = tracked], k)

(* Mutant: the status process is left out.                                 *)
jobs_track_async_NoStatusPid(t, pid, pgid, command) ==
  jobs_track_job(t, pgid, <<pid>>, 0, command, FALSE)

jobs_track_async(t, pid, pgid, command) ==
  jobs_track_job(t, pgid, <<pid>>, pid, command, FALSE)

(* Mutant: every reported status is taken for an end.                      *)
NotedProcess_AnyStatus(p, status) ==
  [pid |-> p.pid, stopped |-> WIFSTOPPED(status), done |-> TRUE, status |-> status]

(* What one reported status makes of the process it is about.              *)
NotedProcess(p, status) ==
  [pid |-> p.pid,
   stopped |-> WIFSTOPPED(status),
   done |-> ~WIFSTOPPED(status) /\ (Terminated(status) \/ p.done),
   status |-> status]

(* A job that becomes stopped becomes the current job.                     *)
jobs_note_process_status(t, pid, status) ==
  LET k == find_job_by_pid(t, pid)
      i == find_process(t.jobs[k], pid)
      job == [t.jobs[k] EXCEPT !.procs[i] = NotedProcess(@, status)]
      stopped == job_any_stopped(job)
      noted == [t EXCEPT !.jobs[k] = [job EXCEPT !.stopped = stopped]]
  IN  IF k = 0 THEN t
      ELSE IF stopped /\ ~t.jobs[k].stopped THEN touch_job(noted, k)
      ELSE noted

(* Mutant: the job's flag is cleared, those of its processes are not.      *)
jobs_mark_job_running_JobOnly(t, pgid) ==
  LET k == find_job_by_pgid(t, pgid)
  IN  IF k = 0 THEN t ELSE touch_job([t EXCEPT !.jobs[k].stopped = FALSE], k)

jobs_mark_job_running(t, pgid) ==
  LET k == find_job_by_pgid(t, pgid)
      procs == t.jobs[k].procs
      running == [t.jobs[k] EXCEPT
                    !.stopped = FALSE,
                    !.procs = [i \in DOMAIN procs |-> [procs[i] EXCEPT !.stopped = FALSE]]]
  IN  IF k = 0 THEN t ELSE touch_job([t EXCEPT !.jobs[k] = running], k)

(* Mutant: the last entry is not moved into the hole.                      *)
jobs_forget_pgid_DropLast(t, pgid) ==
  IF find_job_by_pgid(t, pgid) = 0 THEN t
  ELSE [t EXCEPT !.jobs = [i \in 1 .. Len(t.jobs) - 1 |-> t.jobs[i]]]

(* The last entry of the array takes the place of the forgotten one.       *)
jobs_forget_pgid(t, pgid) ==
  LET k == find_job_by_pgid(t, pgid)
      n == Len(t.jobs)
  IN  IF k = 0 THEN t
      ELSE [t EXCEPT !.jobs = [i \in 1 .. n - 1 |-> IF i = k THEN t.jobs[n]
                                                             ELSE t.jobs[i]]]

-----------------------------------------------------------------------------
(* Queries.                                                                *)

jobs_job_is_completed(t, pgid) ==
  LET k == find_job_by_pgid(t, pgid)
  IN  k # 0 /\ job_all_done(t.jobs[k])

(* NoStatus where jobs_get_job_wait_status returns false.                  *)
jobs_get_job_wait_status(t, pgid) ==
  LET k == find_job_by_pgid(t, pgid)
      i == find_process(t.jobs[k], t.jobs[k].status_pid)
  IN  IF k = 0 \/ i = 0 THEN NoStatus ELSE t.jobs[k].procs[i].status

(* The candidate touched last; with rank 1 the one touched last before it. *)
get_best_job(t, stopped_only, rank) ==
  LET Candidates == {k \in DOMAIN t.jobs : stopped_only => t.jobs[k].stopped}
      Latest(K) == IF K = {} THEN 0
                   ELSE CHOOSE k \in K : \A l \in K : t.jobs[l].serial <= t.jobs[k].serial
      best == Latest(Candidates)
  IN  IF rank = 0 THEN best ELSE Latest(Candidates \ {best})

(* The operand of fg and bg when there is none: a stopped job if there is  *)
(* one, otherwise the current job.                                         *)
DefaultJob(t) ==
  IF get_best_job(t, TRUE, 0) # 0 THEN get_best_job(t, TRUE, 0)
                                  ELSE get_best_job(t, FALSE, 0)

(* A jobspec: %, %+ and %% are "current", %- is "previous", %n "number",   *)
(* %string and %?string are "text" with the commands that match.  Any      *)
(* other operand is "invalid".                                             *)
jobs_get_by_spec(t, spec) ==
  LET Matches == {k \in DOMAIN t.jobs :
                    \/ spec.kind = "number" /\ t.jobs[k].job_id = spec.number
                    \/ spec.kind = "text" /\ t.jobs[k].command \in spec.commands}
      Found(k) == [result |-> IF k = 0 THEN "no_match" ELSE "ok", index |-> k]
  IN  CASE spec.kind = "current"  -> Found(get_best_job(t, FALSE, 0))
        [] spec.kind = "previous" -> Found(get_best_job(t, FALSE, 1))
        [] spec.kind = "invalid" \/ (spec.kind = "number" /\ spec.number = 0)
              -> [result |-> "invalid", index |-> 0]
        [] OTHER -> IF Cardinality(Matches) > 1
                    THEN [result |-> "ambiguous", index |-> 0]
                    ELSE Found(IF Matches = {} THEN 0 ELSE CHOOSE k \in Matches : TRUE)
=============================================================================
