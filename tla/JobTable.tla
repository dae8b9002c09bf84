------------------------------ MODULE JobTable ------------------------------
(***************************************************************************)
(* The job table of jobs.c under every sequence of calls its callers make. *)
(* One action per way of calling it: spawn.c tracks an asynchronous list,  *)
(* spawn.c, exec.c and program_text.c track a stopped foreground job and   *)
(* then note every status they have collected of its members, the waiting  *)
(* builtins note statuses, fg and bg mark a job running, and every caller  *)
(* that forgets a job has found it completed first.                        *)
(*                                                                         *)
(* A pipeline with a process group of its own (isolate) is one job however *)
(* many of its members stop.  Without one, each member that stops opens a  *)
(* job under its own pid, and each such job lists all the members.         *)
(*                                                                         *)
(* The kernel promises (FreshPid) that a new child has no pid the table    *)
(* still holds.  It keeps that promise for children not waited for; for a  *)
(* member of a job that has ended while others run it is an assumption.    *)
(***************************************************************************)
EXTENDS Jobs

CONSTANTS Pids,           \* process ids
          Commands,       \* command lines
          Values,         \* exit codes and signal numbers
          MaxProcs,       \* the longest pipeline
          MaxSerial       \* bound on g_next_serial

ASSUME PidsAssumption == Pids \subseteq Nat \ {0}
ASSUME BoundsAssumption == MaxProcs \in Nat \ {0} /\ MaxSerial \in Nat

VARIABLES table,          \* g_jobs, g_next_job_id and g_next_serial
          due,            \* what the function that tracked has still to note
          shared          \* history: the pids of pipelines that have several jobs

vars == <<table, due, shared>>

Statuses == [kind : {"stopped", "exited", "signaled"}, value : Values]

PidSeqs == {pids \in UNION {[1 .. n -> Pids] : n \in 1 .. MaxProcs} : IsInjective(pids)}

(* What a caller may have collected of the first members of a pipeline.    *)
StatusSeqs(pids) ==
  UNION {[1 .. i -> Statuses \cup {NoStatus}] : i \in DOMAIN pids}

PidsOf(job) == {job.procs[i].pid : i \in DOMAIN job.procs}

FreshPid(pid) == find_job_by_pid(table, pid) = 0 /\ find_job_by_pgid(table, pid) = 0

SetOf(pids) == {pids[i] : i \in DOMAIN pids}

Room == table.next_serial < MaxSerial

(* A function that has tracked a job notes all it has to before it returns.*)
Quiet == due = <<>>

-----------------------------------------------------------------------------
Init == table = EmptyTable /\ due = <<>> /\ shared = {}

TrackAsync(pid, command) ==
  /\ Quiet
  /\ Room
  /\ FreshPid(pid)
  /\ table' = jobs_track_async(table, pid, pid, command)
  /\ shared' = shared \ {pid}
  /\ UNCHANGED due

(* The group under which the stop of the i-th member is filed.             *)
JobGroup(pids, i, isolate) == IF isolate THEN pids[1] ELSE pids[i]

(* The members are waited for in their order; statuses are those of the    *)
(* first ones, NoStatus where waitpid failed, and the last of them is the  *)
(* stop that makes the caller track.  The members are new to the table     *)
(* unless an earlier one has stopped.                                      *)
NowStopped(pids, statuses, isolate) ==
  LET i == Len(statuses)
      earlier == {j \in 1 .. i - 1 : WIFSTOPPED(statuses[j])}
      Tracked(g) == \E k \in DOMAIN table.jobs :
                      table.jobs[k].pgid = g /\ PidsOf(table.jobs[k]) = SetOf(pids)
  IN  /\ WIFSTOPPED(statuses[i])
      /\ IF earlier = {} THEN \A j \in DOMAIN pids : FreshPid(pids[j])
         ELSE /\ \A j \in earlier : Tracked(JobGroup(pids, j, isolate))
              /\ ~isolate => find_job_by_pgid(table, pids[i]) = 0

TrackStopped(pids, statuses, isolate, command) ==
  LET g == JobGroup(pids, Len(statuses), isolate)
  IN  /\ Quiet
      /\ Room
      /\ NowStopped(pids, statuses, isolate)
      /\ table' = jobs_track_job(table, g, pids, pids[Len(pids)], command, TRUE)
      /\ due' = [j \in DOMAIN statuses |-> [pid |-> pids[j], status |-> statuses[j]]]
      /\ shared' = IF \A j \in DOMAIN pids : FreshPid(pids[j]) THEN shared \ SetOf(pids)
                   ELSE IF isolate THEN shared
                   ELSE shared \cup SetOf(pids)

NoteDue ==
  /\ ~Quiet
  /\ table' = IF Head(due).status = NoStatus THEN table
              ELSE jobs_note_process_status(table, Head(due).pid, Head(due).status)
  /\ due' = Tail(due)
  /\ UNCHANGED shared

NoteStatus(pid, status) ==
  /\ Quiet
  /\ Room
  /\ table' = jobs_note_process_status(table, pid, status)
  /\ UNCHANGED <<due, shared>>

MarkRunning(pgid) ==
  /\ Quiet
  /\ Room
  /\ table' = jobs_mark_job_running(table, pgid)
  /\ UNCHANGED <<due, shared>>

Forget(pgid) ==
  /\ Quiet
  /\ jobs_job_is_completed(table, pgid)
  /\ table' = jobs_forget_pgid(table, pgid)
  /\ UNCHANGED <<due, shared>>

Next ==
  \/ \E pid \in Pids, command \in Commands : TrackAsync(pid, command)
  \/ \E pids \in PidSeqs, isolate \in BOOLEAN, command \in Commands :
       \E statuses \in StatusSeqs(pids) : TrackStopped(pids, statuses, isolate, command)
  \/ NoteDue
  \/ \E pid \in Pids, status \in Statuses : NoteStatus(pid, status)
  \/ \E pgid \in Pids : MarkRunning(pgid)
  \/ \E pgid \in Pids : Forget(pgid)

Spec == Init /\ [][Next]_vars

-----------------------------------------------------------------------------
Processes == [pid : Pids, stopped : BOOLEAN, done : BOOLEAN,
              status : Statuses \cup {NoStatus}]

JobRecords == [pgid : Pids, job_id : Nat, serial : Nat, stopped : BOOLEAN,
               command : Commands, status_pid : Pids, procs : Seq(Processes)]

Tables == [jobs : Seq(JobRecords), next_job_id : Nat, next_serial : Nat]

DistinctKeys(t) ==
  \A k, l \in DOMAIN t.jobs : k # l =>
    /\ t.jobs[k].pgid # t.jobs[l].pgid
    /\ t.jobs[k].job_id # t.jobs[l].job_id
    /\ t.jobs[k].serial # t.jobs[l].serial

OncePerJob(t) ==
  \A k \in DOMAIN t.jobs : \A i, j \in DOMAIN t.jobs[k].procs :
    t.jobs[k].procs[i].pid = t.jobs[k].procs[j].pid => i = j

Apart(t, S) ==
  \A k, l \in DOMAIN t.jobs : k # l =>
    \/ PidsOf(t.jobs[k]) \cap PidsOf(t.jobs[l]) = {}
    \/ PidsOf(t.jobs[k]) = PidsOf(t.jobs[l]) /\ PidsOf(t.jobs[k]) \subseteq S

TypeOK == /\ table \in Tables
          /\ due \in Seq([pid : Pids, status : Statuses \cup {NoStatus}])
          /\ shared \subseteq Pids

(* Two jobs never share a process group, a job id or a recency serial, so  *)
(* %n, the group a signal is sent to and %+ each name one job.  A child is *)
(* a member of a job once, and of one job only, so that the status waitpid *)
(* reports of it reaches that job (find_job_by_pid), with one exception:   *)
(* the members of a pipeline without a group of its own of which several   *)
(* have stopped, and then its jobs have just the same members.             *)
KeysDistinct == DistinctKeys(table) /\ OncePerJob(table) /\ Apart(table, shared)

(* The job's flag, on which fg and bg choose their job, never drifts from  *)
(* what is known of its processes, once all the statuses that were         *)
(* collected are noted.  Left out are the jobs of a pipeline without a     *)
(* group of its own of which several members have stopped: the statuses    *)
(* reach the first of them only, and the flag of the others stays set with *)
(* no stopped process on record.                                           *)
StoppedFlagAgrees ==
  Quiet => \A k \in DOMAIN table.jobs :
    \/ PidsOf(table.jobs[k]) \subseteq shared
    \/ table.jobs[k].stopped = job_any_stopped(table.jobs[k])

(* When the last process of a job has ended, the status wait and fg report *)
(* is on record, and it is an end, not an earlier stop: the fallbacks of   *)
(* wait_for_job for a completed job without a status are never taken.      *)
CompletedJobHasStatus ==
  \A k \in DOMAIN table.jobs :
    job_all_done(table.jobs[k]) =>
      Terminated(jobs_get_job_wait_status(table, table.jobs[k].pgid))

-----------------------------------------------------------------------------
(* The abstract view of the table.                                         *)
Groups == {table.jobs[k].pgid : k \in DOMAIN table.jobs}
JobOf(g) == table.jobs[find_job_by_pgid(table, g)]

Book == INSTANCE JobBook WITH
  book <- [g \in Groups |-> [id |-> JobOf(g).job_id, stopped |-> JobOf(g).stopped,
                             finished |-> job_all_done(JobOf(g))]],
  newer <- {p \in Groups \X Groups : JobOf(p[1]).serial > JobOf(p[2]).serial},
  last_id <- table.next_job_id - 1

(* The array with its swap on removal, its serials and its scans behaves   *)
(* like the book of jobs: an operation on one job leaves every other job,  *)
(* its id and its place in the order of recency alone.                     *)
ImplementsBook == Book!Spec
=============================================================================
