----------------------------- MODULE JobControl -----------------------------
(***************************************************************************)
(* The shell that starts, waits for, resumes and signals jobs: the job     *)
(* table (Jobs) and the kernel's processes (Kernel) under asynchronous     *)
(* lists, foreground commands, the two pipeline executors and the builtins *)
(* wait, fg, bg, kill and set -m.  The shell takes one step per fork and   *)
(* per return of waitpid; between its steps processes exit, stop and are   *)
(* continued.                                                              *)
(*                                                                         *)
(* Left out: signals to the shell itself (see TrapEngine), the terminal    *)
(* (tcsetpgrp), and more than one operand per builtin.                     *)
(***************************************************************************)
EXTENDS Kernel

CONSTANTS Pids,             \* process ids the kernel may hand out
          Codes,            \* exit codes
          Commands,         \* command lines
          Sessions,         \* what may happen in a session (see session)
          Operands,         \* the jobspecs used as operands
          MaxMembers,       \* the longest pipeline
          MaxCommands,      \* bound on the commands the shell runs
          MaxSignals        \* bound on stops and continues from outside

ASSUME PidsAssumption == Pids \subseteq Nat \ {0}
ASSUME BoundsAssumption == {MaxMembers, MaxCommands, MaxSignals} \subseteq Nat

ASSUME SessionsAssumption ==
  Sessions \subseteq [executors : SUBSET {"ast", "text"},  \* that run pipelines
                      monitor : BOOLEAN,                   \* monitor_mode at the start
                      toggles : BOOLEAN,                   \* set -m and set +m are run
                      forksFail : BOOLEAN]                 \* fork returns EAGAIN at times

VARIABLES session,
          kernel, table, monitor, last_async_pid,
          pc,               \* where the shell is
          frame,            \* the locals of the command it is running
          status,           \* what the last command returned
          commands, signals \* commands run, signals from outside

vars == <<session, kernel, table, monitor, last_async_pid, pc, frame, status, commands, signals>>

NoFrame == [kind |-> "none"]

(* What a builtin returns when it has no wait status to return.            *)
Success == [kind |-> "builtin", value |-> 0]
Failure == [kind |-> "builtin", value |-> 1]
Unknown == [kind |-> "builtin", value |-> 127]

FreshPid(p) == UnbornPids(kernel) # {} /\ p = Min(UnbornPids(kernel))

Return(result) == /\ pc' = "prompt"
                  /\ frame' = NoFrame
                  /\ status' = result

Start(newpc, newframe) == /\ pc' = newpc
                          /\ frame' = newframe
                          /\ UNCHANGED status

Command == /\ pc = "prompt"
           /\ commands < MaxCommands
           /\ commands' = commands + 1
           /\ UNCHANGED <<session, signals>>

Running == pc # "prompt" /\ UNCHANGED <<session, commands, signals>>

Options == <<monitor, last_async_pid>>

-----------------------------------------------------------------------------
Init ==
  /\ session \in Sessions
  /\ kernel = Boot(Pids)
  /\ table = EmptyTable
  /\ monitor = session.monitor
  /\ last_async_pid = 0
  /\ pc = "prompt"
  /\ frame = NoFrame
  /\ status = Success
  /\ commands = 0
  /\ signals = 0

SetMonitor(on) ==
  /\ Command
  /\ session.toggles
  /\ monitor' = on
  /\ Return(Success)
  /\ UNCHANGED <<kernel, table, last_async_pid>>

-----------------------------------------------------------------------------
(* Asynchronous lists: the table files the child under its own pid as      *)
(* process group, whether or not monitor mode gave it one.                 *)
RunAsync(p, command) ==
  /\ Command
  /\ FreshPid(p)
  /\ kernel' = Forked(kernel, p, IF monitor THEN p ELSE ShellGroup)
  /\ last_async_pid' = p
  /\ table' = jobs_track_async(table, p, p, command)
  /\ Return(Success)
  /\ UNCHANGED monitor

(* A foreground utility or subshell.  Only the vfork path, taken without   *)
(* monitor mode, waits without WUNTRACED.                                  *)
RunForeground(p, command, vfork) ==
  /\ Command
  /\ FreshPid(p)
  /\ vfork => ~monitor
  /\ kernel' = Forked(kernel, p, IF monitor THEN p ELSE ShellGroup)
  /\ Start("foreground", [kind |-> "foreground", pid |-> p, command |-> command,
                          untraced |-> ~vfork])
  /\ UNCHANGED <<table, Options>>

TrackOneStopped(t, pid, command) ==
  jobs_note_process_status(jobs_track_job(t, pid, <<pid>>, pid, command, TRUE), pid, Stopped)

ForegroundChanged ==
  /\ Running
  /\ pc = "foreground"
  /\ frame.pid \in Waitable(kernel, {frame.pid}, frame.untraced)
  /\ kernel' = Waited(kernel, frame.pid)
  /\ table' = IF WIFSTOPPED(kernel[frame.pid].status)
              THEN TrackOneStopped(table, frame.pid, frame.command)
              ELSE table
  /\ Return(kernel[frame.pid].status)
  /\ UNCHANGED Options

-----------------------------------------------------------------------------
(* Pipelines of two or more commands.                                      *)
StartPipeline(executor, n, command) ==
  /\ Command
  /\ n <= Cardinality(UnbornPids(kernel))
  /\ Start("fork", [kind |-> "pipeline", executor |-> executor, size |-> n,
                    command |-> command, isolate |-> monitor, pids |-> <<>>,
                    statuses |-> <<>>])
  /\ UNCHANGED <<kernel, table, Options>>

ForkMember(p) ==
  LET pids == Append(frame.pids, p)
  IN  /\ Running
      /\ pc = "fork"
      /\ FreshPid(p)
      /\ kernel' = Forked(kernel, p, IF frame.isolate THEN pids[1] ELSE ShellGroup)
      /\ Start(IF Len(pids) = frame.size THEN "collect" ELSE "fork",
               [frame EXCEPT !.pids = pids])
      /\ UNCHANGED <<table, Options>>

(* The children forked so far are neither waited for nor tracked.          *)
ForkFails ==
  /\ Running
  /\ pc = "fork"
  /\ session.forksFail
  /\ Return(Failure)
  /\ UNCHANGED <<kernel, table, Options>>

(* Mutant: the job's status is that of the member that leads the group.    *)
StatusMember_Leader(pids) == pids[1]

StatusMember(pids) == pids[Len(pids)]

(* A stopped member makes the pipeline a job; whatever is known of its     *)
(* members is then noted again.                                            *)
TrackPipeline(t, pids, statuses, isolate, command) ==
  LET i == Len(statuses)
      job_pgid == IF isolate THEN pids[1] ELSE pids[i]
      tracked == jobs_track_job(t, job_pgid, pids, StatusMember(pids), command, TRUE)
      noted[j \in 0 .. i] ==
        IF j = 0 THEN tracked ELSE jobs_note_process_status(noted[j - 1], pids[j], statuses[j])
  IN  noted[i]

(* Mutant: no executor notes it.                                           *)
NoteEndedMember_Never(t, executor, p, ws) == t

(* The text executor alone notes that a member of a job that is already    *)
(* tracked has ended.                                                      *)
NoteEndedMember(t, executor, p, ws) ==
  IF executor = "text" THEN jobs_note_process_status(t, p, ws) ELSE t

CollectMember ==
  LET i == Len(frame.statuses) + 1
      p == frame.pids[i]
      ws == kernel[p].status
      statuses == Append(frame.statuses, ws)
  IN  /\ Running
      /\ pc = "collect"
      /\ p \in Waitable(kernel, {p}, TRUE)
      /\ kernel' = Waited(kernel, p)
      /\ table' = IF WIFSTOPPED(ws)
                  THEN TrackPipeline(table, frame.pids, statuses, frame.isolate, frame.command)
                  ELSE NoteEndedMember(table, frame.executor, p, ws)
      /\ IF i = frame.size THEN Return(ws)
                           ELSE Start("collect", [frame EXCEPT !.statuses = statuses])
      /\ UNCHANGED Options

-----------------------------------------------------------------------------
(* wait.                                                                   *)

(* Mutant: one ended process is enough.                                    *)
ForgetCompletedByPid_Any(t, pid) ==
  LET k == find_job_by_pid(t, pid)
  IN  IF k # 0 THEN jobs_forget_pgid(t, t.jobs[k].pgid) ELSE t

ForgetCompletedByPid(t, pid) ==
  LET k == find_job_by_pid(t, pid)
  IN  IF k # 0 /\ job_all_done(t.jobs[k]) THEN jobs_forget_pgid(t, t.jobs[k].pgid) ELSE t

(* Mutant: the job is kept.                                                *)
ForgetCompleted_Never(t, pgid) == t

ForgetCompleted(t, pgid) ==
  IF jobs_job_is_completed(t, pgid) THEN jobs_forget_pgid(t, pgid) ELSE t

StartWaitAll ==
  /\ Command
  /\ Start("wait_all", [kind |-> "wait_all"])
  /\ UNCHANGED <<kernel, table, Options>>

WaitAllReaps(p) ==
  /\ Running
  /\ pc = "wait_all"
  /\ p \in Waitable(kernel, Pids, FALSE)
  /\ kernel' = Waited(kernel, p)
  /\ table' = ForgetCompletedByPid(jobs_note_process_status(table, p, kernel[p].status), p)
  /\ Start("wait_all", frame)
  /\ UNCHANGED Options

WaitAllReturns ==
  /\ Running
  /\ pc = "wait_all"
  /\ Children(kernel) = {}
  /\ Return(Success)
  /\ UNCHANGED <<kernel, table, Options>>

StartWaitPid(p) ==
  /\ Command
  /\ kernel[p].state # "unborn"
  /\ IF p \in Children(kernel) THEN Start("wait_pid", [kind |-> "wait_pid", pid |-> p])
                               ELSE Return(Unknown)
  /\ UNCHANGED <<kernel, table, Options>>

WaitPidReaps ==
  /\ Running
  /\ pc = "wait_pid"
  /\ frame.pid \in Waitable(kernel, {frame.pid}, FALSE)
  /\ kernel' = Waited(kernel, frame.pid)
  /\ table' = ForgetCompletedByPid(
                jobs_note_process_status(table, frame.pid, kernel[frame.pid].status), frame.pid)
  /\ Return(kernel[frame.pid].status)
  /\ UNCHANGED Options

(* Mutant: waits for the group of the status process.                      *)
JobInfo_StatusGroup(t, k) == [pgid |-> t.jobs[k].status_pid, status_pid |-> t.jobs[k].status_pid]

JobInfo(t, k) == [pgid |-> t.jobs[k].pgid, status_pid |-> t.jobs[k].status_pid]

(* wait_for_job of a job the table says is completed: its status is known. *)
ReturnCompleted(t, job) ==
  /\ Return(jobs_get_job_wait_status(t, job.pgid))
  /\ table' = jobs_forget_pgid(t, job.pgid)

StartWaitJob(spec) ==
  LET found == jobs_get_by_spec(table, spec)
      job == JobInfo(table, found.index)
  IN  /\ Command
      /\ UNCHANGED <<kernel, Options>>
      /\ \/ /\ found.result = "ok" /\ jobs_job_is_completed(table, job.pgid)
            /\ ReturnCompleted(table, job)
         \/ /\ found.result = "ok" /\ ~jobs_job_is_completed(table, job.pgid)
            /\ Start("wait_job", [kind |-> "wait", job |-> job])
            /\ UNCHANGED table
         \/ /\ found.result = "no_match" /\ Return(Unknown)
            /\ UNCHANGED table
         \/ /\ found.result \in {"ambiguous", "invalid"} /\ Return(Failure)
            /\ UNCHANGED table

-----------------------------------------------------------------------------
(* The loop of wait_for_job, called by wait and by fg.                     *)


(* Mutant: waitpid without WUNTRACED.                                      *)
JobWaitable_Traced(pgid) == Waitable(kernel, Members(kernel, pgid), FALSE)

JobWaitable(pgid) == Waitable(kernel, Members(kernel, pgid), TRUE)

(* Mutant: a completed job does not end the loop.                          *)
JobWaitOver_NotCompleted(t, pgid, ws) == WIFSTOPPED(ws) \/ find_job_by_pgid(t, pgid) = 0

JobWaitOver(t, pgid, ws) ==
  WIFSTOPPED(ws) \/ find_job_by_pgid(t, pgid) = 0 \/ jobs_job_is_completed(t, pgid)

JobStatus(t, job, ws) ==
  LET cached == jobs_get_job_wait_status(t, job.pgid)
  IN  IF cached = NoStatus THEN ws ELSE cached

WaitJobReports(p) ==
  LET job == frame.job
      ws == kernel[p].status
      noted == jobs_note_process_status(table, p, ws)
  IN  /\ Running
      /\ pc = "wait_job"
      /\ p \in JobWaitable(job.pgid)
      /\ kernel' = Waited(kernel, p)
      /\ IF JobWaitOver(noted, job.pgid, ws)
         THEN /\ Return(JobStatus(noted, job, ws))
              /\ table' = ForgetCompleted(noted, job.pgid)
         ELSE /\ Start("wait_job", frame)
              /\ table' = noted
      /\ UNCHANGED Options

(* waitpid fails with ECHILD: the group has no child of the shell.         *)
WaitJobLost ==
  /\ Running
  /\ pc = "wait_job"
  /\ Members(kernel, frame.job.pgid) = {}
  /\ Return(IF frame.kind = "fg" THEN Failure ELSE Unknown)
  /\ UNCHANGED <<kernel, table, Options>>

-----------------------------------------------------------------------------
(* fg, bg and kill.  The operand "default" stands for no operand.          *)
Lookup(spec) ==
  IF spec.kind = "default"
  THEN [result |-> IF DefaultJob(table) = 0 THEN "no_match" ELSE "ok",
        index |-> DefaultJob(table)]
  ELSE jobs_get_by_spec(table, spec)

Resumable(spec) == monitor /\ Lookup(spec).result = "ok"

Refuse(spec) ==
  /\ Command
  /\ ~Resumable(spec)
  /\ Return(Failure)
  /\ UNCHANGED <<kernel, table, Options>>

StartFg(spec) ==
  LET job == JobInfo(table, Lookup(spec).index)
      marked == jobs_mark_job_running(table, job.pgid)
  IN  /\ Command
      /\ Resumable(spec)
      /\ UNCHANGED Options
      /\ \/ /\ ~GroupExists(kernel, job.pgid)
            /\ table' = marked
            /\ Return(Failure)
            /\ UNCHANGED kernel
         \/ /\ GroupExists(kernel, job.pgid)
            /\ kernel' = SentToGroup(kernel, job.pgid, "CONT")
            /\ IF jobs_job_is_completed(marked, job.pgid)
               THEN ReturnCompleted(marked, job)
               ELSE /\ Start("wait_job", [kind |-> "fg", job |-> job])
                    /\ table' = marked

Bg(spec) ==
  LET k == Lookup(spec).index
      job == table.jobs[k]
  IN  /\ Command
      /\ Resumable(spec)
      /\ UNCHANGED monitor
      /\ \/ /\ ~job.stopped
            /\ last_async_pid' = job.status_pid
            /\ Return(Success)
            /\ UNCHANGED <<kernel, table>>
         \/ /\ job.stopped /\ GroupExists(kernel, job.pgid)
            /\ table' = jobs_mark_job_running(table, job.pgid)
            /\ kernel' = SentToGroup(kernel, job.pgid, "CONT")
            /\ last_async_pid' = job.status_pid
            /\ Return(Success)
         \/ /\ job.stopped /\ ~GroupExists(kernel, job.pgid)
            /\ table' = jobs_mark_job_running(table, job.pgid)
            /\ Return(Failure)
            /\ UNCHANGED <<kernel, last_async_pid>>

(* The kill utility, given the negated process group of the job.           *)
Kill(spec, signal) ==
  LET found == jobs_get_by_spec(table, spec)
      pgid == table.jobs[found.index].pgid
      ok == found.result = "ok" /\ GroupExists(kernel, pgid)
  IN  /\ Command
      /\ kernel' = IF ok THEN SentToGroup(kernel, pgid, signal) ELSE kernel
      /\ Return(IF ok THEN Success ELSE Failure)
      /\ UNCHANGED <<table, Options>>

-----------------------------------------------------------------------------
(* The processes.                                                          *)
ShellUnchanged == UNCHANGED <<session, table, Options, pc, frame, status, commands>>

ProcessEnds(p) ==
  /\ kernel[p].state = "running"
  /\ \E code \in Codes : kernel' = Ended(kernel, p, Exited(code))
  /\ ShellUnchanged
  /\ UNCHANGED signals

ProcessSignaled(p, signal) ==
  /\ signals < MaxSignals
  /\ signals' = signals + 1
  /\ \/ signal = "STOP" /\ kernel[p].state = "running"
     \/ signal = "CONT" /\ kernel[p].state = "stopped"
  /\ kernel' = SentTo(kernel, p, signal)
  /\ ShellUnchanged

-----------------------------------------------------------------------------
CommandStep ==
  \/ \E on \in BOOLEAN : SetMonitor(on)
  \/ \E p \in Pids, command \in Commands :
       \/ RunAsync(p, command)
       \/ \E vfork \in BOOLEAN : RunForeground(p, command, vfork)
  \/ \E executor \in session.executors, n \in 2 .. MaxMembers, command \in Commands :
       StartPipeline(executor, n, command)
  \/ StartWaitAll
  \/ \E p \in Pids : StartWaitPid(p)
  \/ \E spec \in Operands \ {[kind |-> "default"]} :
       \/ StartWaitJob(spec)
       \/ \E signal \in {"STOP", "CONT", "TERM"} : Kill(spec, signal)
  \/ \E spec \in Operands : Refuse(spec) \/ StartFg(spec) \/ Bg(spec)

RunningStep ==
  \/ ForegroundChanged
  \/ \E p \in Pids : ForkMember(p)
  \/ ForkFails
  \/ CollectMember
  \/ \E p \in Pids : WaitAllReaps(p)
  \/ WaitAllReturns
  \/ WaitPidReaps
  \/ \E p \in Pids : WaitJobReports(p)
  \/ WaitJobLost

ProcessStep ==
  \E p \in Pids :
    \/ ProcessEnds(p)
    \/ \E signal \in {"STOP", "CONT"} : ProcessSignaled(p, signal)

Next == CommandStep \/ RunningStep \/ ProcessStep

Spec == Init /\ [][Next]_vars

(* The shell is not blocked: waitpid has a status or an error to return,   *)
(* or fork a child.                                                        *)
ShellReady ==
  \/ pc = "foreground" /\ Waitable(kernel, {frame.pid}, frame.untraced) # {}
  \/ pc = "fork"
  \/ pc = "collect" /\ Waitable(kernel, {frame.pids[Len(frame.statuses) + 1]}, TRUE) # {}
  \/ pc = "wait_all" /\ (Waitable(kernel, Pids, FALSE) # {} \/ Children(kernel) = {})
  \/ pc = "wait_pid" /\ Waitable(kernel, {frame.pid}, FALSE) # {}
  \/ pc = "wait_job" /\ (JobWaitable(frame.job.pgid) # {} \/ Members(kernel, frame.job.pgid) = {})

(* The shell goes on when it can, that is WF_vars(RunningStep) with its    *)
(* ENABLED spelt out (TLC is exponential in the nested table updates when  *)
(* it evaluates ENABLED); a process that keeps running ends.               *)
Fairness == /\ []<>~ShellReady \/ []<><<RunningStep>>_vars
            /\ \A p \in Pids : WF_vars(ProcessEnds(p))

FairSpec == Spec /\ Fairness

-----------------------------------------------------------------------------
KernelProcesses ==
  [state : {"unborn", "running", "stopped", "zombie", "reaped"},
   pgid : Pids \cup {ShellGroup},
   status : {NoStatus, Stopped, Signaled("TERM")} \cup {Exited(code) : code \in Codes},
   unreported : BOOLEAN, doomed : BOOLEAN]

TrackedJobs == {table.jobs[k] : k \in DOMAIN table.jobs}
ProcessesOf(job) == {job.procs[i] : i \in DOMAIN job.procs}
PidsOf(job) == {proc.pid : proc \in ProcessesOf(job)}
Reaped(p) == kernel[p].state = "reaped"

TypeOK ==
  /\ kernel \in [Pids -> KernelProcesses]
  /\ \A job \in TrackedJobs :
       /\ {job.pgid, job.status_pid} \cup PidsOf(job) \subseteq Pids
       /\ job.command \in Commands
       /\ job.status_pid \in PidsOf(job)
  /\ monitor \in BOOLEAN
  /\ last_async_pid \in Pids \cup {0}
  /\ pc \in {"prompt", "foreground", "fork", "collect", "wait_all", "wait_pid", "wait_job"}
  /\ status.kind \in {"builtin", "exited", "signaled", "stopped"}

(* Sessions in which the table is kept up to date: monitor mode stays on,  *)
(* the text executor runs the pipelines, no fork fails.  The AST executor  *)
(* misses ends (jc_ast), a failed fork leaves its pipeline's children      *)
(* behind, and without monitor mode there are no process groups to stop.   *)
Monitored == session.monitor /\ ~session.toggles
Orderly == Monitored /\ session.executors = {"text"} /\ ~session.forksFail

(* The table never runs ahead of the kernel: at every moment a process it  *)
(* has for done was reaped, and the status on record is the kernel's.      *)
(* Between commands it also knows all that waitpid has told: every reaped  *)
(* process is done, and a child whose stop was reported is in a job fg and *)
(* bg take for stopped.  Every path that waits for a child has to note it. *)
EndsAreReal ==
  \A job \in TrackedJobs : \A proc \in ProcessesOf(job) :
    proc.done => Reaped(proc.pid) /\ proc.status = kernel[proc.pid].status

TableAgreesWithKernel ==
  /\ EndsAreReal
  /\ Orderly /\ pc = "prompt" =>
       /\ \A job \in TrackedJobs : \A proc \in ProcessesOf(job) : Reaped(proc.pid) => proc.done
       /\ \A p \in Pids :
            kernel[p].state = "stopped" /\ ~kernel[p].unreported =>
              \E job \in TrackedJobs : p \in PidsOf(job) /\ job.stopped

(* Between commands no child is lost: what has not been reaped is a member *)
(* of a tracked job, so wait, fg and kill can still name it.  Nor is there *)
(* a ghost, a job whose every process has already been reaped.             *)
EveryChildIsTracked ==
  Orderly /\ pc = "prompt" =>
    /\ \A p \in Children(kernel) : \E job \in TrackedJobs : p \in PidsOf(job)
    /\ \A job \in TrackedJobs : \E p \in PidsOf(job) : ~Reaped(p)

Forgotten(job) == find_job_by_pgid(table', job.pgid) = 0

(* When wait %job or fg gives a job up, what it returns is how the job's   *)
(* rightmost process ended, whichever process ended last.                  *)
JobStatusIsRightmost ==
  [][\A job \in TrackedJobs :
       pc \in {"prompt", "wait_job"} /\ Forgotten(job) =>
         status' = kernel'[job.procs[Len(job.procs)].pid].status]_vars

(* fg of a job it could resume returns how the job ended or stopped, never *)
(* the failure of its own waitpid ("fg waits for whole stopped pipeline",  *)
(* tests/posix/jobpipe-p.tst).                                             *)
FgWaited ==
  pc = "wait_job" /\ frame.kind = "fg" /\ pc' = "prompt" => status'.kind # "builtin"

FgReportsTheJob == [][FgWaited]_vars

(* The same in the sessions in which it holds.                             *)
FgReportsInOrder == [][Orderly => FgWaited]_vars

(* In monitor mode wait %job does not claim there is nothing to wait for   *)
(* while a process of the job is an unreaped child of the shell.           *)
WaitJobFindsItsChild ==
  [][Monitored /\ pc = "wait_job" /\ pc' = "prompt" /\ status' = Unknown =>
       \A job \in TrackedJobs :
         job.status_pid = frame.job.status_pid => PidsOf(job) \cap Children(kernel) = {}]_vars

(* In monitor mode a foreground command, a pipeline and fg give the prompt *)
(* back, whatever stops, continues or ends in whatever order.              *)
PromptReturns ==
  /\ Monitored
  /\ \/ pc \in {"foreground", "fork", "collect"}
     \/ pc = "wait_job" /\ frame.kind = "fg"
  ~> pc = "prompt"
=============================================================================
